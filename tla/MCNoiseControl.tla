--------------------------- MODULE MCNoiseControl ---------------------------
(* Three calls for two modes. *)
EXTENDS NoiseControl

CONSTANTS r1, r2, r3, off, anc

MCWanted == [r \in Request |-> IF r = r2 THEN off ELSE anc]
=============================================================================
