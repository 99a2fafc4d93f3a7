----------------------------- MODULE NothingFrame -----------------------------
(* The frame format of nothing/protocol.rs.                                 *)
EXTENDS Naturals, Sequences

CONSTANT Crc(_)     \* crc16 of a sequence of bytes

Byte == 0..255
Word == 0..(256 * 256 - 1)

FrameStart == 85    \* 0x55
FrameKind == 96
FrameVersion == 1
HeaderLen == 8
CrcLen == 2

Frame == [command : Word, operation_id : Byte, payload : Seq(Byte)]

\* build, for a payload of at most 255 bytes
Body(f) ==
    <<FrameStart, FrameKind, FrameVersion, f.command % 256, f.command \div 256,
      Len(f.payload), 0, f.operation_id>> \o f.payload
Build(f) == Body(f) \o <<Crc(Body(f)) % 256, Crc(Body(f)) \div 256>>

-----------------------------------------------------------------------------
(* What push() asks of bytes that begin with a start byte.                 *)

\* The checksum is expected, and checked, only under the usual kind and version.
HasCrc(s) == s[2] = FrameKind /\ s[3] = FrameVersion

TotalLen(s) == HeaderLen + s[6] + IF HasCrc(s) THEN CrcLen ELSE 0

Whole(s) == Len(s) >= HeaderLen /\ Len(s) >= TotalLen(s)

Sound(raw) ==
    HasCrc(raw) =>
        Crc(SubSeq(raw, 1, Len(raw) - CrcLen)) = raw[Len(raw) - 1] + 256 * raw[Len(raw)]

FrameOf(raw) ==
    [command |-> raw[4] + 256 * raw[5], operation_id |-> raw[8],
     payload |-> SubSeq(raw, HeaderLen + 1, HeaderLen + raw[6])]

\* From the first start byte on; empty if there is none.
FromStart(s) ==
    IF \E k \in 1..Len(s) : s[k] = FrameStart
    THEN LET k == CHOOSE k \in 1..Len(s) :
                      s[k] = FrameStart /\ \A j \in 1..(k - 1) : s[j] # FrameStart
         IN  SubSeq(s, k, Len(s))
    ELSE <<>>
=============================================================================
