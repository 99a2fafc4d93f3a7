--------------------------- MODULE MCNothingFramer ---------------------------
(* Frames with start bytes in the payload and in the operation id, and the  *)
(* checksum itself.                                                         *)
EXTENDS NothingFramer, Bitwise

Battery == [command |-> 57345, operation_id |-> 1, payload |-> <<85>>]
Anc == [command |-> 57347, operation_id |-> 85, payload |-> <<>>]

MCSends == {Battery, Anc}
MCNoise == {<<3>>, <<85, 0, 85>>}

\* crc16: a byte is mixed in before each eight shifts
Shift(crc) == IF crc % 2 = 1 THEN (crc \div 2) ^^ 40961 ELSE crc \div 2
Crc16(bytes) ==
    LET crc[n \in 0..(8 * Len(bytes))] ==
            IF n = 0 THEN 65535
            ELSE Shift(IF n % 8 = 1 THEN crc[n - 1] ^^ bytes[n \div 8 + 1] ELSE crc[n - 1])
    IN  crc[8 * Len(bytes)]

\* The checksums of what the instance sends, so that each is computed once.
Bodies ==
    UNION {{Body(f)} \cup {[Body(f) EXCEPT ![k] = (@ + 1) % 256] : k \in 1..Len(Body(f))} :
             f \in MCSends}
Known == [s \in Bodies |-> Crc16(s)]
MCCrc(s) == IF s \in Bodies THEN Known[s] ELSE Crc16(s)
ASSUME CheckValue == Crc16(<<49, 50, 51, 52, 53, 54, 55, 56, 57>>) = 19255
=============================================================================
