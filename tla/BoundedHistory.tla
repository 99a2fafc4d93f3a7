--------------------------- MODULE BoundedHistory ---------------------------
(* What ringbuf::Ring promises: the most recent N pushed values, oldest      *)
(* first, of which the oldest can be dropped.                                *)
EXTENDS Naturals, Sequences

CONSTANTS N, Value

VARIABLE history

Recent(s, count) == SubSeq(s, Len(s) - count + 1, Len(s))

HInit == history = <<>>

HPush(v) ==
    history' = IF Len(history) = N THEN Tail(history) \o <<v>> ELSE Append(history, v)

HClear == history' = <<>>

\* Keep only the most recent count elements.
HTruncate(count) == count < Len(history) /\ history' = Recent(history, count)

HNext ==
    \/ \E v \in Value : HPush(v)
    \/ HClear
    \/ \E count \in 0..N : HTruncate(count)

HSpec == HInit /\ [][HNext]_history
=============================================================================
