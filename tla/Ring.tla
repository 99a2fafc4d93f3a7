-------------------------------- MODULE Ring --------------------------------
(***************************************************************************)
(* The fixed-size ring of ringbuf.rs: an array of N slots and a tail that  *)
(* counts pushes without bound and is reduced modulo N only for indexing.  *)
(***************************************************************************)
EXTENDS Naturals, Sequences

CONSTANTS
    N,          \* slots
    Value,      \* what is stored
    Default,    \* T::default()
    MaxTail     \* bound: pushes since the last clear (2^64 in the code)

ASSUME NAssumption == N \in Nat \ {0}
ASSUME DefaultAssumption == Default \in Value
ASSUME MaxTailAssumption == MaxTail \in Nat

VARIABLES data, tail
ringVars == <<data, tail>>

Slots == 0..(N - 1)
RingTypeOK == data \in [Slots -> Value] /\ tail \in 0..MaxTail

-----------------------------------------------------------------------------
Length == IF tail > N THEN N ELSE tail
Head0 == IF tail > N THEN (tail - N) % N ELSE 0
PhysIndex(k) == (Head0 + k) % N

\* get(k) for every logical index, oldest first
Contents == [k \in 1..Length |-> data[PhysIndex(k - 1)]]

Slice(from, to) == [k \in 1..(to - from) |-> data[from + k - 1]]

\* mutant: the two slices in the wrong order
IteratedSwapped ==
    LET tailPos == tail % N IN
    IF Length = 0 THEN <<>>
    ELSE IF tail <= N \/ Head0 < tailPos
    THEN Slice(Head0, tailPos)
    ELSE Slice(0, tailPos) \o Slice(Head0, N)

\* as_slices(), joined as iter() does
Iterated ==
    LET tailPos == tail % N IN
    IF Length = 0 THEN <<>>
    ELSE IF tail <= N \/ Head0 < tailPos
    THEN Slice(Head0, tailPos)
    ELSE Slice(Head0, N) \o Slice(0, tailPos)

-----------------------------------------------------------------------------
RingInit == data = [s \in Slots |-> Default] /\ tail = 0

Push(v) ==
    /\ tail < MaxTail
    /\ data' = [data EXCEPT ![tail % N] = v]
    /\ tail' = tail + 1

Clear == tail' = 0 /\ UNCHANGED data

\* mutant: nothing is rotated
TruncateUnrotated(count) == count < Length /\ tail' = count /\ UNCHANGED data

\* truncate_front: rotate the oldest kept element to slot 0.
TruncateFront(count) ==
    /\ count < Length
    /\ data' = [s \in Slots |-> data[(s + (tail - count)) % N]]
    /\ tail' = count

RingNext ==
    \/ \E v \in Value : Push(v)
    \/ Clear
    \/ \E count \in 0..N : TruncateFront(count)

RingSpec == RingInit /\ [][RingNext]_ringVars

-----------------------------------------------------------------------------
(* Through get() the ring is the last N pushed values, oldest first, over   *)
(* any mix of pushes past the end, truncations and clears.                  *)
History == INSTANCE BoundedHistory WITH history <- Contents
RefinesHistory == History!HSpec

(* iter() and get() agree, wrapped around or not, except with exactly N     *)
(* pushes since the last reset.                                             *)
IterAgrees == tail # N => Iterated = Contents
=============================================================================
