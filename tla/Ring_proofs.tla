------------------------------ MODULE Ring_proofs ------------------------------
(* The ring keeps what BoundedHistory promises for any number of slots.       *)
EXTENDS Ring, SequenceTheorems, TLAPS

-----------------------------------------------------------------------------
(* Indexing modulo N.                                                        *)

LEMMA SlotsNat == N \in Nat /\ N > 0
BY NAssumption

(* A number has one remainder.                                               *)
LEMMA ModUnique ==
    ASSUME NEW a \in Nat, NEW q \in Int, NEW r \in Slots, a = N * q + r
    PROVE  a % N = r
<1>1. N \in Nat /\ N > 0 /\ r \in Int /\ 0 <= r /\ r < N
    BY SlotsNat DEF Slots
<1> DEFINE p == a \div N
           s == a % N
<1>2. p \in Int /\ s \in Int /\ 0 <= s /\ s < N /\ a = N * p + s
    BY <1>1
<1> HIDE DEF p, s
<1>3. N * (p - q) = r - s
    BY <1>1, <1>2
<1>4. p - q <= 0
    <2>1. SUFFICES ASSUME p - q >= 1 PROVE FALSE
        BY <1>2
    <2>2. N * (p - q) >= N
        BY <1>1, <1>2, <2>1
    <2> QED BY <1>1, <1>2, <1>3, <2>2
<1>5. p - q >= 0
    <2>1. SUFFICES ASSUME q - p >= 1 PROVE FALSE
        BY <1>2
    <2>2. N * (q - p) >= N
        BY <1>1, <1>2, <2>1
    <2>3. N * (q - p) = s - r
        BY <1>1, <1>2
    <2> QED BY <1>1, <1>2, <2>2, <2>3
<1>6. p = q
    BY <1>2, <1>4, <1>5
<1>7. s = r
    BY <1>1, <1>2, <1>6
<1> QED BY <1>7 DEF s

LEMMA ModParts ==
    ASSUME NEW a \in Nat
    PROVE  a % N \in Slots /\ a \div N \in Nat /\ a = N * (a \div N) + (a % N)
<1> DEFINE q == a \div N
           r == a % N
<1>1. q \in Int /\ r \in Int /\ 0 <= r /\ r < N /\ a = N * q + r
    BY SlotsNat
<1> HIDE DEF q, r
<1>2. q >= 0
    <2>1. SUFFICES ASSUME -q >= 1 PROVE FALSE
        BY <1>1
    <2>2. N * (-q) >= N
        BY <1>1, <2>1, SlotsNat
    <2>3. N * (-q) = r - a
        BY <1>1, SlotsNat
    <2> QED BY <1>1, <2>2, <2>3, SlotsNat
<1>3. r \in Slots /\ q \in Nat
    BY <1>1, <1>2, SlotsNat DEF Slots
<1> QED BY <1>1, <1>3 DEF q, r

LEMMA ModSmall ==
    ASSUME NEW a \in Slots
    PROVE  a % N = a
<1>1. a \in Nat /\ a = N * 0 + a
    BY SlotsNat DEF Slots
<1> QED BY <1>1, ModUnique

(* A turn more makes no difference, wherever it is made.                     *)
LEMMA ModTurn ==
    ASSUME NEW a \in Nat
    PROVE  (a + N) % N = a % N
<1> DEFINE q == a \div N
           r == a % N
<1>1. r \in Slots /\ q \in Nat /\ a = N * q + r
    BY ModParts
<1> HIDE DEF q, r
<1>2. N * (q + 1) = N * q + N /\ N * q \in Nat
    BY <1>1, SlotsNat
<1>3. a + N \in Nat /\ q + 1 \in Int /\ a + N = N * (q + 1) + r
    BY <1>1, <1>2, SlotsNat DEF Slots
<1>4. (a + N) % N = r
    BY <1>1, <1>3, ModUnique
<1> QED BY <1>4 DEF r

LEMMA ModOfMod ==
    ASSUME NEW a \in Nat, NEW b \in Nat
    PROVE  ((a % N) + b) % N = (a + b) % N
<1> DEFINE q == a \div N
           r == a % N
           p == (r + b) \div N
           s == (r + b) % N
<1>1. r \in Slots /\ q \in Nat /\ a = N * q + r /\ r \in Nat
    BY ModParts, SlotsNat DEF Slots
<1> HIDE DEF q, r
<1>2. s \in Slots /\ p \in Nat /\ r + b = N * p + s
    BY <1>1, ModParts
<1> HIDE DEF p, s
<1>3. N * (q + p) = N * q + N * p /\ N * q \in Nat /\ N * p \in Nat
    BY <1>1, <1>2, SlotsNat
<1>4. a + b \in Nat /\ q + p \in Int /\ a + b = N * (q + p) + s
    BY <1>1, <1>2, <1>3, SlotsNat DEF Slots
<1>5. (a + b) % N = s
    BY <1>2, <1>4, ModUnique
<1> QED BY <1>5 DEF r, s

(* Fewer than N steps apart are different slots.                             *)
LEMMA ModDistinct ==
    ASSUME NEW a \in Nat, NEW d \in 1..(N - 1)
    PROVE  (a + d) % N # a % N
<1> DEFINE q == a \div N
           r == a % N
<1>1. r \in Slots /\ q \in Nat /\ a = N * q + r
    BY ModParts
<1> HIDE DEF q, r
<1>2. N * (q + 1) = N * q + N /\ N * q \in Nat
    BY <1>1, SlotsNat
<1>3. CASE r + d < N
    <2>1. r + d \in Slots /\ a + d \in Nat /\ a + d = N * q + (r + d)
        BY <1>1, <1>2, <1>3, SlotsNat DEF Slots
    <2>2. (a + d) % N = r + d
        BY <1>1, <2>1, ModUnique
    <2>3. r + d # r
        BY <1>1, SlotsNat DEF Slots
    <2> QED BY <2>2, <2>3 DEF r
<1>4. CASE ~(r + d < N)
    <2>1. r + d - N \in Slots /\ a + d \in Nat /\ a + d = N * (q + 1) + (r + d - N)
        BY <1>1, <1>2, <1>4, SlotsNat DEF Slots
    <2>2. (a + d) % N = r + d - N
        BY <1>1, <2>1, ModUnique
    <2>3. r + d - N # r
        BY <1>1, SlotsNat DEF Slots
    <2> QED BY <2>2, <2>3 DEF r
<1> QED BY <1>3, <1>4

-----------------------------------------------------------------------------
(* Where the k-th element is.                                                *)

LEMMA LengthBounds ==
    ASSUME RingTypeOK
    PROVE  /\ tail \in Nat
           /\ Length \in 0..N
           /\ tail - Length \in Nat
           /\ Length = N <=> tail >= N
           /\ tail <= N => Length = tail
           /\ tail > N => Length = N
BY SlotsNat, MaxTailAssumption DEF RingTypeOK, Length

(* The oldest element kept is the push before which there were tail - Length.*)
LEMMA PhysIndexOfPush ==
    ASSUME RingTypeOK, NEW k \in 0..(N - 1)
    PROVE  PhysIndex(k) \in Slots /\ PhysIndex(k) = (tail - Length + k) % N
<1>1. tail \in Nat /\ N \in Nat /\ N > 0 /\ k \in Nat
    BY LengthBounds, SlotsNat
<1>2. CASE tail > N
    <2>1. tail - N \in Nat /\ Length = N /\ Head0 = (tail - N) % N
        BY <1>1, <1>2 DEF Length, Head0
    <2>2. (((tail - N) % N) + k) % N = (tail - N + k) % N
        BY <1>1, <2>1, ModOfMod
    <2>3. tail - N + k \in Nat
        BY <1>1, <2>1
    <2> QED BY <2>1, <2>2, <2>3, ModParts DEF PhysIndex
<1>3. CASE ~(tail > N)
    <2>1. Length = tail /\ Head0 = 0 /\ 0 + k = k /\ tail - tail + k = k
        BY <1>1, <1>3 DEF Length, Head0
    <2> QED BY <1>1, <2>1, ModParts DEF PhysIndex
<1> QED BY <1>2, <1>3

LEMMA ContentsProperties ==
    ASSUME RingTypeOK
    PROVE  /\ Contents \in Seq(Value)
           /\ Len(Contents) = Length
           /\ \A k \in 1..Length : Contents[k] = data[(tail - Length + (k - 1)) % N]
<1>1. Length \in Nat /\ Length <= N /\ N \in Nat /\ data \in [Slots -> Value]
    BY LengthBounds, SlotsNat DEF RingTypeOK
<1>2. ASSUME NEW k \in 1..Length
      PROVE  /\ data[PhysIndex(k - 1)] \in Value
             /\ PhysIndex(k - 1) = (tail - Length + (k - 1)) % N
    <2>1. k - 1 \in 0..(N - 1)
        BY <1>1
    <2> QED BY <1>1, <2>1, PhysIndexOfPush
<1>3. Contents \in [1..Length -> Value]
    BY <1>2 DEF Contents
<1>4. Contents \in Seq(Value) /\ Len(Contents) = Length
    BY <1>1, <1>3
<1> QED BY <1>2, <1>4 DEF Contents

(* The same of the next state.                                               *)
LEMMA ContentsHere ==
    RingTypeOK =>
        /\ Contents \in Seq(Value)
        /\ Len(Contents) = Length
        /\ \A k \in 1..Length : Contents[k] = data[(tail - Length + (k - 1)) % N]
BY ContentsProperties

LEMMA ContentsAfter ==
    ASSUME RingTypeOK'
    PROVE  /\ Contents' \in Seq(Value)
           /\ Len(Contents') = Length'
           /\ \A k \in 1..Length' : Contents'[k] = data'[(tail' - Length' + (k - 1)) % N]
<1>1. (RingTypeOK =>
           /\ Contents \in Seq(Value)
           /\ Len(Contents) = Length
           /\ \A k \in 1..Length : Contents[k] = data[(tail - Length + (k - 1)) % N])'
    BY ContentsHere, PTL
<1> QED BY <1>1

-----------------------------------------------------------------------------
(* Types are kept: the tail counts pushes, truncation sets it back.          *)
LEMMA RingTypes == RingSpec => []RingTypeOK
<1>1. RingInit => RingTypeOK
    BY SlotsNat, DefaultAssumption, MaxTailAssumption DEF RingInit, RingTypeOK
<1>2. RingTypeOK /\ [RingNext]_ringVars => RingTypeOK'
    <2> SUFFICES ASSUME RingTypeOK, [RingNext]_ringVars PROVE RingTypeOK'
        OBVIOUS
    <2>1. ASSUME NEW v \in Value, Push(v) PROVE RingTypeOK'
        <3>1. tail \in Nat /\ tail < MaxTail /\ tail' = tail + 1 /\ data' = [data EXCEPT ![tail % N] = v]
            BY <2>1, LengthBounds DEF Push
        <3>2. tail' \in 0..MaxTail
            BY <3>1, MaxTailAssumption
        <3>3. data' \in [Slots -> Value]
            BY <3>1 DEF RingTypeOK
        <3> QED BY <3>2, <3>3 DEF RingTypeOK
    <2>2. CASE Clear
        BY <2>2, MaxTailAssumption DEF Clear, RingTypeOK
    <2>3. ASSUME NEW count \in 0..N, TruncateFront(count) PROVE RingTypeOK'
        <3>1. tail \in 0..MaxTail /\ count < Length /\ tail' = count
              /\ data' = [s \in Slots |-> data[(s + (tail - count)) % N]]
            BY <2>3 DEF TruncateFront, RingTypeOK
        <3>2. tail - count \in Nat /\ count \in 0..MaxTail
            BY <3>1, LengthBounds, SlotsNat, MaxTailAssumption
        <3>3. ASSUME NEW s \in Slots PROVE data[(s + (tail - count)) % N] \in Value
            <4>1. s + (tail - count) \in Nat
                BY <3>2, SlotsNat DEF Slots
            <4> QED BY <4>1, ModParts DEF RingTypeOK
        <3> QED BY <3>1, <3>2, <3>3 DEF RingTypeOK
    <2>4. CASE UNCHANGED ringVars
        BY <2>4 DEF ringVars, RingTypeOK
    <2> QED BY <2>1, <2>2, <2>3, <2>4 DEF RingNext
<1> QED BY <1>1, <1>2, PTL DEF RingSpec

-----------------------------------------------------------------------------
(* iter() walks two slices of the array, get() computes an index: they see   *)
(* the same elements for any number of slots and pushes, unless exactly N    *)
(* were pushed (ringbuf.rs:96).                                              *)
LEMMA SliceProperties ==
    ASSUME RingTypeOK, NEW from \in 0..N, NEW to \in from..N
    PROVE  /\ Slice(from, to) \in Seq(Value)
           /\ Len(Slice(from, to)) = to - from
           /\ \A k \in 1..(to - from) : Slice(from, to)[k] = data[from + k - 1]
<1>1. from \in Nat /\ to \in Nat /\ to - from \in Nat /\ N \in Nat
    BY SlotsNat
<1>2. ASSUME NEW k \in 1..(to - from) PROVE data[from + k - 1] \in Value
    <2>1. from + k - 1 \in Slots
        BY <1>1 DEF Slots
    <2> QED BY <2>1 DEF RingTypeOK
<1>3. Slice(from, to) \in [1..(to - from) -> Value]
    BY <1>2 DEF Slice
<1> QED BY <1>1, <1>3 DEF Slice

LEMMA IteratedIsContents == RingTypeOK => IterAgrees
<1> SUFFICES ASSUME RingTypeOK, tail # N PROVE Iterated = Contents
    BY DEF IterAgrees
<1> DEFINE tailPos == tail % N
<1>1. N \in Nat /\ N > 0 /\ tail \in Nat /\ tailPos \in Slots
    BY SlotsNat, LengthBounds, ModParts
<1>2. tailPos \in Nat /\ tailPos < N
    BY <1>1 DEF Slots
<1>3. /\ Contents \in Seq(Value) /\ Len(Contents) = Length
      /\ \A k \in 1..Length : Contents[k] = data[(tail - Length + (k - 1)) % N]
    BY ContentsProperties
<1>4. CASE tail = 0
    <2>1. Length = 0
        BY <1>1, <1>4 DEF Length
    <2>2. Contents = <<>>
        BY <1>3, <2>1, EmptySeq
    <2> QED BY <2>1, <2>2 DEF Iterated
<1>5. CASE tail # 0 /\ tail < N
    <2>1. Length = tail /\ Head0 = 0 /\ Length # 0 /\ tail <= N
        BY <1>1, <1>5 DEF Length, Head0
    <2>2. tailPos = tail
        <3>1. tail \in Slots
            BY <1>1, <1>5 DEF Slots
        <3> QED BY <3>1, ModSmall
    <2>3. Iterated = Slice(0, tail)
        BY <2>1, <2>2 DEF Iterated
    <2>4. /\ Slice(0, tail) \in Seq(Value) /\ Len(Slice(0, tail)) = tail - 0
          /\ \A k \in 1..(tail - 0) : Slice(0, tail)[k] = data[0 + k - 1]
        <3>1. 0 \in 0..N /\ tail \in 0..N
            BY <1>1, <1>5
        <3> QED BY <3>1, SliceProperties
    <2>5. ASSUME NEW k \in 1..tail PROVE Slice(0, tail)[k] = Contents[k]
        <3>1. k - 1 \in Slots /\ tail - tail + (k - 1) = k - 1 /\ 0 + k - 1 = k - 1 /\ tail - 0 = tail
            BY <1>1, <1>5 DEF Slots
        <3>2. (k - 1) % N = k - 1
            BY <3>1, ModSmall
        <3> QED BY <1>3, <2>1, <2>4, <3>1, <3>2
    <2>6. tail - 0 = tail
        BY <1>1
    <2> QED BY <1>3, <2>1, <2>3, <2>4, <2>5, <2>6, SeqEqual
<1>6. CASE tail > N
    <2>1. Length = N /\ Length # 0 /\ Head0 = (tail - N) % N /\ ~(tail <= N) /\ tail - N \in Nat
        BY <1>1, <1>6 DEF Length, Head0
    <2>2. Head0 = tailPos
        <3>1. (tail - N + N) % N = (tail - N) % N /\ tail - N + N = tail
            BY <1>1, <2>1, ModTurn
        <3> QED BY <2>1, <3>1
    <2>3. ~(Head0 < tailPos)
        BY <1>2, <2>2
    <2> DEFINE h == tailPos
               a == Slice(h, N)
               b == Slice(0, h)
    <2>4. Iterated = a \o b
        BY <2>1, <2>2, <2>3 DEF Iterated
    <2>5. /\ a \in Seq(Value) /\ Len(a) = N - h /\ \A k \in 1..(N - h) : a[k] = data[h + k - 1]
          /\ b \in Seq(Value) /\ Len(b) = h - 0 /\ \A k \in 1..(h - 0) : b[k] = data[0 + k - 1]
        <3>1. 0 \in 0..N /\ h \in 0..N /\ N \in h..N
            BY <1>1, <1>2
        <3> QED BY <3>1, SliceProperties
    <2>6. h \in 0..(N - 1) /\ \A i \in 0..(N - 1) : (tail - N + i) % N = (h + i) % N
        <3>1. h \in 0..(N - 1)
            BY <1>1, <1>2
        <3>2. ASSUME NEW i \in 0..(N - 1) PROVE (tail - N + i) % N = (h + i) % N
            <4>1. (((tail - N) % N) + i) % N = (tail - N + i) % N
                BY <1>1, <2>1, ModOfMod
            <4> QED BY <2>1, <2>2, <4>1
        <3> QED BY <3>1, <3>2
    <2> HIDE DEF a, b, h
    <2>7. /\ a \o b \in Seq(Value) /\ Len(a \o b) = Len(a) + Len(b)
          /\ \A k \in 1..(Len(a) + Len(b)) : (a \o b)[k] = IF k <= Len(a) THEN a[k] ELSE b[k - Len(a)]
        BY <2>5, ConcatProperties
    <2>8. Len(a) + Len(b) = N
        BY <1>1, <2>5, <2>6
    <2>9. ASSUME NEW k \in 1..N PROVE (a \o b)[k] = Contents[k]
        <3>1. Contents[k] = data[(h + (k - 1)) % N]
            <4>1. k - 1 \in 0..(N - 1)
                BY <1>1
            <4> QED BY <1>3, <2>1, <2>6, <4>1
        <3>2. CASE k <= N - h
            <4>1. h + (k - 1) \in Slots /\ k \in 1..(N - h) /\ h + k - 1 = h + (k - 1)
                BY <1>1, <2>6, <3>2 DEF Slots
            <4>2. (h + (k - 1)) % N = h + (k - 1)
                BY <4>1, ModSmall
            <4>3. (a \o b)[k] = a[k]
                BY <2>5, <2>7, <2>8, <3>2
            <4> QED BY <2>5, <3>1, <4>1, <4>2, <4>3
        <3>3. CASE ~(k <= N - h)
            <4> DEFINE i == h + (k - 1) - N
            <4>1. /\ i \in Slots /\ i \in Nat /\ i + N = h + (k - 1)
                  /\ k - (N - h) \in 1..(h - 0) /\ 0 + (k - (N - h)) - 1 = i
                BY <1>1, <2>6, <3>3 DEF Slots
            <4>2. (h + (k - 1)) % N = i
                <5> HIDE DEF i
                <5>1. (i + N) % N = i % N /\ i % N = i
                    BY <4>1, ModTurn, ModSmall
                <5> QED BY <4>1, <5>1
            <4>3. (a \o b)[k] = b[k - (N - h)]
                BY <2>5, <2>7, <2>8, <3>3
            <4>4. b[k - (N - h)] = data[0 + (k - (N - h)) - 1]
                BY <2>5, <4>1
            <4> QED BY <3>1, <4>1, <4>2, <4>3, <4>4
        <3> QED BY <3>2, <3>3
    <2> QED BY <1>3, <2>1, <2>4, <2>7, <2>8, <2>9, SeqEqual
<1> QED BY <1>1, <1>4, <1>5, <1>6

(* iter() yields what get() does, wrapped around or not, unless exactly N     *)
(* values have been pushed (ringbuf.rs:81).                                  *)
THEOREM AlwaysIterAgrees == RingSpec => []IterAgrees
BY RingTypes, IteratedIsContents, PTL

-----------------------------------------------------------------------------
(* The steps of the ring are those of the bounded history.                   *)

LEMMA PushRefines ==
    ASSUME RingTypeOK, RingTypeOK', NEW v \in Value, Push(v)
    PROVE  History!HPush(v)
<1> DEFINE c == Contents
           d == Contents'
<1>1. N \in Nat /\ N > 0 /\ tail \in Nat /\ tail' = tail + 1
      /\ data \in [Slots -> Value] /\ data' = [data EXCEPT ![tail % N] = v]
    BY SlotsNat, LengthBounds DEF Push, RingTypeOK
<1>2. tail % N \in Slots
    BY <1>1, ModParts
<1>3. c \in Seq(Value) /\ Len(c) = Length
      /\ \A k \in 1..Length : c[k] = data[(tail - Length + (k - 1)) % N]
    BY ContentsProperties
<1>4. d \in Seq(Value) /\ Len(d) = Length'
      /\ \A k \in 1..Length' : d[k] = data'[(tail' - Length' + (k - 1)) % N]
    BY ContentsAfter
<1>5. data'[tail % N] = v /\ \A s \in Slots : s # tail % N => data'[s] = data[s]
    BY <1>1, <1>2
<1> HIDE DEF c, d
<1>6. CASE tail < N
    <2>1. Length = tail /\ Length' = tail + 1 /\ Len(c) # N
        BY <1>1, <1>3, <1>6 DEF Length
    <2>2. tail % N = tail
        <3>1. tail \in Slots
            BY <1>1, <1>6 DEF Slots
        <3> QED BY <3>1, ModSmall
    <2>3. /\ Append(c, v) \in Seq(Value) /\ Len(Append(c, v)) = Len(c) + 1
          /\ \A k \in 1..Len(c) : Append(c, v)[k] = c[k]
          /\ Append(c, v)[Len(c) + 1] = v
        BY <1>3, AppendProperties
    <2>4. ASSUME NEW k \in 1..(tail + 1) PROVE d[k] = Append(c, v)[k]
        <3>1. k - 1 \in Slots /\ tail + 1 - (tail + 1) + (k - 1) = k - 1 /\ tail - tail + (k - 1) = k - 1
            BY <1>1, <1>6 DEF Slots
        <3>2. (k - 1) % N = k - 1
            BY <3>1, ModSmall
        <3>3. d[k] = data'[k - 1]
            BY <1>1, <1>4, <2>1, <3>1, <3>2
        <3>4. CASE k = tail + 1
            <4>1. k - 1 = tail
                BY <1>1, <3>4
            <4> QED BY <1>3, <1>5, <2>1, <2>2, <2>3, <3>3, <3>4, <4>1
        <3>5. CASE k # tail + 1
            <4>1. k \in 1..tail /\ k - 1 # tail
                BY <1>1, <3>5
            <4>2. c[k] = data[k - 1]
                BY <1>3, <2>1, <3>1, <3>2, <4>1
            <4>3. Append(c, v)[k] = c[k]
                BY <1>3, <2>1, <2>3, <4>1
            <4> QED BY <1>5, <2>2, <3>1, <3>3, <4>1, <4>2, <4>3
        <3> QED BY <3>4, <3>5
    <2>5. d = Append(c, v)
        BY <1>3, <1>4, <2>1, <2>3, <2>4, SeqEqual
    <2> QED BY <2>1, <2>5 DEF History!HPush, c, d
<1>7. CASE ~(tail < N)
    <2>1. Length = N /\ Length' = N /\ Len(c) = N /\ tail - N \in Nat
        BY <1>1, <1>3, <1>7 DEF Length
    <2>2. c # <<>>
        BY <1>1, <2>1, EmptySeq
    <2>3. /\ Tail(c) \in Seq(Value) /\ Len(Tail(c)) = N - 1
          /\ \A k \in 1..(N - 1) : Tail(c)[k] = c[k + 1]
        BY <1>1, <1>3, <2>1, <2>2, HeadTailProperties
    <2>4. <<v>> \in Seq(Value) /\ Len(<<v>>) = 1 /\ <<v>>[1] = v
        OBVIOUS
    <2> DEFINE t == Tail(c)
               e == t \o <<v>>
    <2>5. /\ e \in Seq(Value) /\ Len(e) = N - 1 + 1
          /\ \A k \in 1..(N - 1 + 1) : e[k] = IF k <= N - 1 THEN t[k] ELSE <<v>>[k - (N - 1)]
        <3> HIDE DEF t
        <3>1. t \in Seq(Value) /\ Len(t) = N - 1
            BY <2>3 DEF t
        <3> QED BY <2>4, <3>1, ConcatProperties
    <2>6. N - 1 + 1 = N
        BY <1>1
    <2> HIDE DEF e
    <2>7. ASSUME NEW k \in 1..N PROVE d[k] = e[k]
        <3>1. tail + 1 - N + (k - 1) = tail - N + k /\ tail - N + k \in Nat
            BY <1>1, <2>1
        <3>2. d[k] = data'[(tail - N + k) % N]
            BY <1>1, <1>4, <2>1, <3>1
        <3>3. CASE k = N
            <4>1. tail - N + k = tail /\ ~(k <= N - 1) /\ k - (N - 1) = 1
                BY <1>1, <3>3
            <4> QED BY <1>5, <2>4, <2>5, <2>6, <3>2, <4>1
        <3>4. CASE k # N
            <4>1. k \in 1..(N - 1) /\ k + 1 \in 1..N /\ tail - N + (k + 1 - 1) = tail - N + k
                BY <1>1, <3>4
            <4>2. e[k] = data[(tail - N + k) % N]
                BY <1>3, <2>1, <2>3, <2>5, <2>6, <4>1
            <4>3. (tail - N + k) % N # tail % N
                <5>1. N - k \in 1..(N - 1) /\ tail - N + k + (N - k) = tail
                    BY <1>1, <2>1, <4>1
                <5> QED BY <3>1, <5>1, ModDistinct
            <4>4. (tail - N + k) % N \in Slots
                BY <3>1, ModParts
            <4> QED BY <1>5, <3>2, <4>2, <4>3, <4>4
        <3> QED BY <3>3, <3>4
    <2>8. d = e
        BY <1>4, <2>1, <2>5, <2>6, <2>7, SeqEqual
    <2> QED BY <2>1, <2>8 DEF History!HPush, c, d, e
<1> QED BY <1>6, <1>7

LEMMA TruncateRefines ==
    ASSUME RingTypeOK, RingTypeOK', NEW count \in 0..N, TruncateFront(count)
    PROVE  History!HTruncate(count)
<1> DEFINE c == Contents
           d == Contents'
<1>1. N \in Nat /\ N > 0 /\ tail \in Nat /\ tail' = count /\ count \in Nat
      /\ count < Length /\ Length \in 0..N /\ tail - Length \in Nat
      /\ data' = [s \in Slots |-> data[(s + (tail - count)) % N]]
    BY SlotsNat, LengthBounds DEF TruncateFront
<1>2. c \in Seq(Value) /\ Len(c) = Length
      /\ \A k \in 1..Length : c[k] = data[(tail - Length + (k - 1)) % N]
    BY ContentsProperties
<1>3. d \in Seq(Value) /\ Len(d) = Length'
      /\ \A k \in 1..Length' : d[k] = data'[(tail' - Length' + (k - 1)) % N]
    BY ContentsAfter
<1>4. Length' = count
    BY <1>1 DEF Length
<1> HIDE DEF c, d
<1> DEFINE m == Len(c) - count + 1
           e == SubSeq(c, m, Len(c))
<1>5. m \in Int /\ m >= 1 /\ Len(c) \in Int /\ Len(c) - m + 1 = count
    BY <1>1, <1>2
<1>6. \A k \in m..Len(c) : c[k] \in Value
    BY <1>2, <1>5, ElementOfSeq
<1>7. e \in Seq(Value) /\ Len(e) = count /\ \A k \in 1..count : e[k] = c[m + k - 1]
    <2> HIDE DEF m
    <2>1. /\ SubSeq(c, m, Len(c)) \in Seq(Value)
          /\ Len(SubSeq(c, m, Len(c))) = IF m <= Len(c) THEN Len(c) - m + 1 ELSE 0
          /\ \A k \in 1..(Len(c) - m + 1) : SubSeq(c, m, Len(c))[k] = c[m + k - 1]
        BY <1>5, <1>6, SubSeqProperties
    <2> QED BY <1>1, <1>5, <2>1
<1> HIDE DEF e
<1>8. ASSUME NEW k \in 1..count PROVE d[k] = e[k]
    <2>1. /\ k - 1 \in Slots /\ count - count + (k - 1) = k - 1
          /\ m + k - 1 \in 1..Length
          /\ tail - Length + ((m + k - 1) - 1) = k - 1 + (tail - count)
        BY <1>1, <1>2 DEF Slots
    <2>2. (k - 1) % N = k - 1
        BY <2>1, ModSmall
    <2>3. d[k] = data'[k - 1]
        <3>1. tail' - Length' + (k - 1) = k - 1
            BY <1>1, <1>4, <2>1
        <3>2. k \in 1..Length'
            BY <1>4
        <3>3. d[k] = data'[(tail' - Length' + (k - 1)) % N]
            BY <1>3, <3>2
        <3> QED BY <2>2, <3>1, <3>3
    <2>4. d[k] = data[(k - 1 + (tail - count)) % N]
        BY <1>1, <2>1, <2>3
    <2>5. e[k] = c[m + k - 1]
        BY <1>7
    <2> DEFINE j == m + k - 1
    <2>6. j \in 1..Length /\ tail - Length + (j - 1) = k - 1 + (tail - count) /\ e[k] = c[j]
        BY <2>1, <2>5
    <2> HIDE DEF j, m
    <2>7. c[j] = data[(tail - Length + (j - 1)) % N]
        BY <1>2, <2>6
    <2> QED BY <2>4, <2>6, <2>7
<1>9. d = e
    BY <1>3, <1>4, <1>7, <1>8, SeqEqual
<1>10. History!Recent(c, count) = e
    BY DEF History!Recent, e, m
<1> QED BY <1>1, <1>2, <1>9, <1>10 DEF History!HTruncate, c, d

(* For any number of slots, through get() the ring is the last N pushed      *)
(* values, oldest first (ringbuf.rs:1).                                      *)
THEOREM RingImplementsHistory == RingSpec => RefinesHistory
<1>1. RingInit => History!HInit
    <2> SUFFICES ASSUME RingInit PROVE Contents = <<>>
        BY DEF History!HInit
    <2>1. RingTypeOK
        BY SlotsNat, DefaultAssumption, MaxTailAssumption DEF RingInit, RingTypeOK
    <2>2. Length = 0
        BY SlotsNat DEF RingInit, Length
    <2> QED BY <2>1, <2>2, ContentsProperties, EmptySeq
<1>2. RingTypeOK /\ RingTypeOK' /\ [RingNext]_ringVars => [History!HNext]_Contents
    <2> SUFFICES ASSUME RingTypeOK, RingTypeOK', [RingNext]_ringVars
                 PROVE  History!HNext \/ UNCHANGED Contents
        OBVIOUS
    <2>1. ASSUME NEW v \in Value, Push(v) PROVE History!HNext
        BY <2>1, PushRefines DEF History!HNext
    <2>2. CASE Clear
        <3>1. Length' = 0
            BY <2>2, SlotsNat DEF Clear, Length
        <3>2. Contents' \in Seq(Value) /\ Len(Contents') = 0
            BY <3>1, ContentsAfter
        <3>3. Contents' = <<>>
            BY <3>2, EmptySeq
        <3> QED BY <3>3 DEF History!HNext, History!HClear
    <2>3. ASSUME NEW count \in 0..N, TruncateFront(count) PROVE History!HNext
        BY <2>3, TruncateRefines DEF History!HNext
    <2>4. CASE UNCHANGED ringVars
        BY <2>4 DEF ringVars, Contents, Length, PhysIndex, Head0
    <2> QED BY <2>1, <2>2, <2>3, <2>4 DEF RingNext
<1> QED BY <1>1, <1>2, RingTypes, PTL DEF RingSpec, RefinesHistory, History!HSpec
===============================================================================
