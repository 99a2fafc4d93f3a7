------------------------- MODULE NothingFramer_proofs -------------------------
(* What push() finds depends on the bytes and not on the reads, nothing      *)
(* complete is held back, and the frames that arrived intact are the ones    *)
(* returned, for any frames, noise and checksum.                             *)
EXTENDS NothingFramer, SequenceTheorems, WellFoundedInduction, TLAPS

\* the last n bytes of s
LastOf(s, n) == SubSeq(s, Len(s) - n + 1, Len(s))

Received == SubSeq(wire, 1, got)

(* The buffer is the end of what was read.                                   *)
FramerInv ==
    /\ wire \in Seq(Byte) /\ got \in 0..Len(wire)
    /\ buf \in Seq(Byte) /\ busy \in BOOLEAN
    /\ Len(buf) <= got
    /\ buf = LastOf(Received, Len(buf))
    /\ NothingHeldBack

-----------------------------------------------------------------------------
(* A set of naturals that is not empty has a least element.                  *)
LEMMA LeastOf ==
    ASSUME NEW S \in SUBSET Nat, S # {}
    PROVE  \E k \in S : \A j \in S : k <= j
<1>1. PICK k \in S : \A j \in S : ~(<<j, k>> \in OpToRel(<, Nat))
    BY NatLessThanWellFounded, WFMin
<1>2. k \in Nat /\ \A j \in S : j \in Nat
    OBVIOUS
<1>3. \A j \in S : ~(j < k)
    BY <1>1, <1>2 DEF OpToRel
<1>4. ASSUME NEW j \in S PROVE k <= j
    BY <1>2, <1>3
<1> QED BY <1>4

LEMMA LastOfProperties ==
    ASSUME NEW s \in Seq(Byte), NEW n \in 0..Len(s)
    PROVE  /\ LastOf(s, n) \in Seq(Byte)
           /\ Len(LastOf(s, n)) = n
           /\ \A i \in 1..n : LastOf(s, n)[i] = s[Len(s) - n + i]
<1> DEFINE m == Len(s) - n + 1
<1>1. Len(s) \in Nat /\ n \in Nat /\ m \in Int /\ m >= 1 /\ Len(s) - m + 1 = n
    BY LenProperties
<1>2. \A i \in m..Len(s) : s[i] \in Byte
    BY <1>1, ElementOfSeq
<1>3. /\ SubSeq(s, m, Len(s)) \in Seq(Byte)
      /\ Len(SubSeq(s, m, Len(s))) = IF m <= Len(s) THEN Len(s) - m + 1 ELSE 0
      /\ \A i \in 1..(Len(s) - m + 1) : SubSeq(s, m, Len(s))[i] = s[m + i - 1]
    <2> HIDE DEF m
    <2> QED BY <1>1, <1>2, SubSeqProperties
<1>4. \A i \in 1..n : m + i - 1 = Len(s) - n + i
    BY <1>1
<1> QED BY <1>1, <1>3, <1>4 DEF LastOf

(* The end of an end.                                                        *)
LEMMA LastOfLast ==
    ASSUME NEW s \in Seq(Byte), NEW n \in 0..Len(s), NEW m \in 0..n
    PROVE  LastOf(LastOf(s, n), m) = LastOf(s, m)
<1> DEFINE t == LastOf(s, n)
<1>1. Len(s) \in Nat /\ n \in Nat /\ m \in Nat /\ m \in 0..Len(s)
    BY LenProperties
<1>2. t \in Seq(Byte) /\ Len(t) = n /\ \A i \in 1..n : t[i] = s[Len(s) - n + i]
    BY LastOfProperties
<1>3. LastOf(s, m) \in Seq(Byte) /\ Len(LastOf(s, m)) = m
      /\ \A i \in 1..m : LastOf(s, m)[i] = s[Len(s) - m + i]
    BY <1>1, LastOfProperties
<1> HIDE DEF t
<1>4. LastOf(t, m) \in Seq(Byte) /\ Len(LastOf(t, m)) = m
      /\ \A i \in 1..m : LastOf(t, m)[i] = t[n - m + i]
    BY <1>1, <1>2, LastOfProperties
<1>5. ASSUME NEW i \in 1..m PROVE LastOf(t, m)[i] = LastOf(s, m)[i]
    <2>1. n - m + i \in 1..n /\ Len(s) - n + (n - m + i) = Len(s) - m + i
        BY <1>1
    <2> QED BY <1>2, <1>3, <1>4, <2>1
<1> QED BY <1>3, <1>4, <1>5, SeqEqual DEF t

(* More bytes make both longer.                                              *)
LEMMA LastOfConcat ==
    ASSUME NEW s \in Seq(Byte), NEW t \in Seq(Byte), NEW n \in 0..Len(s)
    PROVE  LastOf(s \o t, n + Len(t)) = LastOf(s, n) \o t
<1> DEFINE u == s \o t
           l == LastOf(s, n)
<1>1. Len(s) \in Nat /\ n \in Nat /\ Len(t) \in Nat
    BY LenProperties
<1>2. u \in Seq(Byte) /\ Len(u) = Len(s) + Len(t)
      /\ \A i \in 1..(Len(s) + Len(t)) : u[i] = IF i <= Len(s) THEN s[i] ELSE t[i - Len(s)]
    BY ConcatProperties
<1>3. l \in Seq(Byte) /\ Len(l) = n /\ \A i \in 1..n : l[i] = s[Len(s) - n + i]
    BY LastOfProperties
<1> HIDE DEF u, l
<1>4. l \o t \in Seq(Byte) /\ Len(l \o t) = n + Len(t)
      /\ \A i \in 1..(n + Len(t)) : (l \o t)[i] = IF i <= n THEN l[i] ELSE t[i - n]
    BY <1>3, ConcatProperties
<1>5. n + Len(t) \in 0..Len(u)
    BY <1>1, <1>2
<1>6. LastOf(u, n + Len(t)) \in Seq(Byte) /\ Len(LastOf(u, n + Len(t))) = n + Len(t)
      /\ \A i \in 1..(n + Len(t)) : LastOf(u, n + Len(t))[i] = u[Len(u) - (n + Len(t)) + i]
    BY <1>2, <1>5, LastOfProperties
<1>7. ASSUME NEW i \in 1..(n + Len(t)) PROVE LastOf(u, n + Len(t))[i] = (l \o t)[i]
    <2>1. Len(u) - (n + Len(t)) + i = Len(s) - n + i /\ Len(s) - n + i \in 1..(Len(s) + Len(t))
        BY <1>1, <1>2
    <2>2. Len(s) - n + i <= Len(s) <=> i <= n
        BY <1>1
    <2>3. Len(s) - n + i - Len(s) = i - n
        BY <1>1
    <2>4. i <= n => i \in 1..n
        BY <1>1
    <2>5. LastOf(u, n + Len(t))[i] = u[Len(s) - n + i]
        BY <1>6, <2>1
    <2>6. CASE i <= n
        <3>1. u[Len(s) - n + i] = s[Len(s) - n + i]
            BY <1>2, <2>1, <2>2, <2>6
        <3>2. (l \o t)[i] = s[Len(s) - n + i]
            BY <1>3, <1>4, <2>4, <2>6
        <3> QED BY <2>5, <3>1, <3>2
    <2>7. CASE ~(i <= n)
        <3>1. u[Len(s) - n + i] = t[i - n]
            BY <1>2, <2>1, <2>2, <2>3, <2>7
        <3>2. (l \o t)[i] = t[i - n]
            BY <1>4, <2>7
        <3> QED BY <2>5, <3>1, <3>2
    <2> QED BY <2>6, <2>7
<1> QED BY <1>4, <1>6, <1>7, SeqEqual DEF u, l

(* FromStart drops bytes from the front, up to the first start byte.         *)
LEMMA FromStartProperties ==
    ASSUME NEW s \in Seq(Byte)
    PROVE  /\ FromStart(s) \in Seq(Byte)
           /\ Len(FromStart(s)) \in 0..Len(s)
           /\ FromStart(s) = LastOf(s, Len(FromStart(s)))
           /\ FromStart(s) # <<>> => FromStart(s)[1] = FrameStart
           /\ \A j \in 1..(Len(s) - Len(FromStart(s))) : s[j] # FrameStart
<1> DEFINE At == {k \in 1..Len(s) : s[k] = FrameStart}
           isFirst(k) == s[k] = FrameStart /\ \A j \in 1..(k - 1) : s[j] # FrameStart
<1>1. Len(s) \in Nat
    BY LenProperties
<1>2. CASE At = {}
    <2>1. FromStart(s) = <<>>
        BY <1>2 DEF FromStart
    <2>2. LastOf(s, 0) = <<>>
        BY <1>1, SubSeqEmpty DEF LastOf
    <2>3. Len(s) - Len(FromStart(s)) = Len(s) /\ \A k \in 1..Len(s) : s[k] # FrameStart
        BY <1>1, <1>2, <2>1, EmptySeq
    <2> QED BY <1>1, <2>1, <2>2, <2>3, EmptySeq
<1>3. CASE At # {}
    <2>1. At \in SUBSET Nat
        OBVIOUS
    <2>2. PICK k \in At : \A j \in At : k <= j
        BY <1>3, <2>1, LeastOf
    <2>3. k \in 1..Len(s) /\ isFirst(k)
        <3>1. ASSUME NEW j \in 1..(k - 1), s[j] = FrameStart PROVE FALSE
            <4>1. k \in 1..Len(s) /\ j \in 1..Len(s) /\ ~(k <= j)
                BY <1>1
            <4> QED BY <2>2, <3>1, <4>1
        <3> QED BY <3>1
    <2> DEFINE f == CHOOSE i \in 1..Len(s) : isFirst(i)
    <2>4. f \in 1..Len(s) /\ isFirst(f)
        BY <2>3
    <2>5. FromStart(s) = SubSeq(s, f, Len(s))
        BY <2>3 DEF FromStart
    <2> HIDE DEF f
    <2> DEFINE n == Len(s) - f + 1
    <2>6. n \in 0..Len(s) /\ n >= 1 /\ f = Len(s) - n + 1
        BY <1>1, <2>4
    <2>7. FromStart(s) = LastOf(s, n)
        BY <2>5, <2>6 DEF LastOf
    <2> HIDE DEF n
    <2>8. /\ LastOf(s, n) \in Seq(Byte) /\ Len(LastOf(s, n)) = n
          /\ LastOf(s, n)[1] = s[Len(s) - n + 1]
        BY <2>6, LastOfProperties
    <2>9. Len(s) - Len(FromStart(s)) = f - 1
        BY <1>1, <2>6, <2>7, <2>8
    <2>10. \A j \in 1..(Len(s) - Len(FromStart(s))) : s[j] # FrameStart
        BY <2>4, <2>9
    <2> QED BY <2>4, <2>6, <2>7, <2>8, <2>10
<1> QED BY <1>2, <1>3

(* A frame's total length is a number once its header is there.              *)
LEMMA TotalLenNat ==
    ASSUME NEW s \in Seq(Byte), Len(s) >= HeaderLen
    PROVE  TotalLen(s) \in HeaderLen..(HeaderLen + 255 + CrcLen)
<1>1. Len(s) \in Nat /\ Len(s) >= 8
    BY LenProperties DEF HeaderLen
<1>2. 6 \in 1..Len(s)
    BY <1>1
<1>3. s[6] \in Byte
    BY <1>2, ElementOfSeq
<1>4. s[6] \in 0..255
    BY <1>3 DEF Byte
<1> DEFINE length == s[6]
           crcLen == IF HasCrc(s) THEN 2 ELSE 0
<1>5. crcLen \in {0, 2} /\ length \in 0..255
    BY <1>4
<1>6. TotalLen(s) = 8 + length + crcLen
    BY DEF TotalLen, HeaderLen, CrcLen
<1> HIDE DEF length, crcLen
<1>7. 8 + length + crcLen \in 8..(8 + 255 + 2)
    BY <1>5
<1> QED BY <1>6, <1>7 DEF HeaderLen, CrcLen

LEMMA TotalLenOfWhole ==
    ASSUME NEW s \in Seq(Byte), Whole(s)
    PROVE  Len(s) \in Nat /\ TotalLen(s) \in 0..Len(s)
<1>1. Len(s) \in Nat /\ Len(s) >= HeaderLen /\ TotalLen(s) <= Len(s)
    BY LenProperties DEF Whole
<1>2. TotalLen(s) \in HeaderLen..(HeaderLen + 255 + CrcLen)
    BY <1>1, TotalLenNat
<1> DEFINE l == Len(s)
           t == TotalLen(s)
<1>3. l \in Nat /\ t <= l /\ t \in 8..(8 + 255 + 2)
    BY <1>1, <1>2 DEF HeaderLen, CrcLen
<1> HIDE DEF l, t
<1>4. t \in 0..l
    BY <1>3
<1> QED BY <1>3, <1>4 DEF l, t

LEMMA ReceivedProperties ==
    ASSUME NEW s \in Seq(Byte), NEW n \in 0..Len(s)
    PROVE  /\ SubSeq(s, 1, n) \in Seq(Byte)
           /\ Len(SubSeq(s, 1, n)) = n
           /\ \A i \in 1..n : SubSeq(s, 1, n)[i] = s[i]
<1>1. Len(s) \in Nat /\ n \in Int /\ 1 \in Int /\ n - 1 + 1 = n
    BY LenProperties
<1>2. \A i \in 1..n : s[i] \in Byte
    BY <1>1, ElementOfSeq
<1>3. /\ SubSeq(s, 1, n) \in Seq(Byte)
      /\ Len(SubSeq(s, 1, n)) = IF 1 <= n THEN n - 1 + 1 ELSE 0
      /\ \A i \in 1..(n - 1 + 1) : SubSeq(s, 1, n)[i] = s[1 + i - 1]
    BY <1>1, <1>2, SubSeqProperties
<1> QED BY <1>1, <1>3

(* What was read stays read as more is sent.                                 *)
LEMMA ReceivedOfLonger ==
    ASSUME NEW s \in Seq(Byte), NEW t \in Seq(Byte), NEW n \in 0..Len(s)
    PROVE  /\ s \o t \in Seq(Byte) /\ n \in 0..Len(s \o t)
           /\ SubSeq(s \o t, 1, n) = SubSeq(s, 1, n)
<1>1. Len(s) \in Nat /\ Len(t) \in Nat
    BY LenProperties
<1>2. s \o t \in Seq(Byte) /\ Len(s \o t) = Len(s) + Len(t)
      /\ \A i \in 1..(Len(s) + Len(t)) : (s \o t)[i] = IF i <= Len(s) THEN s[i] ELSE t[i - Len(s)]
    BY ConcatProperties
<1> DEFINE u == s \o t
<1> HIDE DEF u
<1>3. u \in Seq(Byte) /\ n \in 0..Len(u) /\ \A i \in 1..n : u[i] = s[i]
    BY <1>1, <1>2 DEF u
<1>4. /\ SubSeq(u, 1, n) \in Seq(Byte) /\ Len(SubSeq(u, 1, n)) = n
      /\ \A i \in 1..n : SubSeq(u, 1, n)[i] = u[i]
    BY <1>3, ReceivedProperties
<1>5. /\ SubSeq(s, 1, n) \in Seq(Byte) /\ Len(SubSeq(s, 1, n)) = n
      /\ \A i \in 1..n : SubSeq(s, 1, n)[i] = s[i]
    BY ReceivedProperties
<1>6. SubSeq(u, 1, n) = SubSeq(s, 1, n)
    BY <1>3, <1>4, <1>5, SeqEqual
<1> QED BY <1>3, <1>6 DEF u

-----------------------------------------------------------------------------
LEMMA WordOfBytes ==
    ASSUME NEW c \in Word
    PROVE  /\ c \in Nat /\ c % 256 \in Byte /\ c \div 256 \in Byte
           /\ (c % 256) + 256 * (c \div 256) = c
<1>1. c \in Nat /\ c < 256 * 256
    BY DEF Word
<1>2. c % 256 \in Byte /\ (c % 256) + 256 * (c \div 256) = c
    BY <1>1 DEF Byte
<1>3. c \div 256 \in 0..255
    BY <1>1
<1> QED BY <1>1, <1>2, <1>3 DEF Byte

(* Where the bytes of each part are.                                         *)
LEMMA ConcatAt ==
    ASSUME NEW S, NEW s \in Seq(S), NEW t \in Seq(S)
    PROVE  /\ s \o t \in Seq(S) /\ Len(s \o t) = Len(s) + Len(t)
           /\ \A i \in 1..Len(s) : (s \o t)[i] = s[i]
           /\ \A i \in 1..Len(t) : (s \o t)[Len(s) + i] = t[i]
<1>1. /\ s \o t \in Seq(S) /\ Len(s \o t) = Len(s) + Len(t)
      /\ \A i \in 1..(Len(s) + Len(t)) : (s \o t)[i] = IF i <= Len(s) THEN s[i] ELSE t[i - Len(s)]
      /\ Len(s) \in Nat /\ Len(t) \in Nat
    BY ConcatProperties, LenProperties
<1> DEFINE m == Len(s)
           n == Len(t)
<1> HIDE DEF m, n
<1>2. ASSUME NEW i \in 1..m PROVE (s \o t)[i] = s[i]
    BY <1>1 DEF m, n
<1>3. ASSUME NEW i \in 1..n PROVE (s \o t)[m + i] = t[i]
    <2>1. m + i \in 1..(m + n) /\ ~(m + i <= m) /\ m + i - m = i
        BY <1>1 DEF m, n
    <2> QED BY <1>1, <2>1 DEF m, n
<1> QED BY <1>1, <1>2, <1>3 DEF m, n

(* What build makes is read back as what was built (protocol.rs:31, 84).     *)
LEMMA BuildProperties ==
    ASSUME NEW f \in Sends
    PROVE  /\ Build(f) \in Seq(Byte) /\ f.payload \in Seq(Byte) /\ Body(f) \in Seq(Byte)
           /\ Len(f.payload) \in Nat /\ Len(Body(f)) = HeaderLen + Len(f.payload)
           /\ Len(Build(f)) = HeaderLen + Len(f.payload) + CrcLen
           /\ Build(f)[1] = FrameStart /\ HasCrc(Build(f))
           /\ Build(f)[4] = f.command % 256 /\ Build(f)[5] = f.command \div 256
           /\ Build(f)[6] = Len(f.payload) /\ Build(f)[8] = f.operation_id
           /\ \A i \in 1..Len(f.payload) : Build(f)[HeaderLen + i] = f.payload[i]
           /\ \A i \in 1..(HeaderLen + Len(f.payload)) : Build(f)[i] = Body(f)[i]
           /\ Build(f)[HeaderLen + Len(f.payload) + 1] = Crc(Body(f)) % 256
           /\ Build(f)[HeaderLen + Len(f.payload) + 2] = Crc(Body(f)) \div 256
<1> DEFINE p == f.payload
           l == Len(p)
           c == f.command
           o == f.operation_id
           hd == <<FrameStart, FrameKind, FrameVersion, c % 256, c \div 256, l, 0, o>>
           sum == Crc(Body(f))
           tl == <<sum % 256, sum \div 256>>
           bd == Body(f)
           b == Build(f)
<1>1. p \in Seq(Byte) /\ l \in Nat /\ l \in Byte /\ c \in Word /\ o \in Byte /\ sum \in Word
    BY LenProperties, SendsAssumption, CrcAssumption DEF Frame
<1>2. bd = hd \o p /\ b = bd \o tl
    BY DEF Body, Build
<1> HIDE DEF p, l, c, o, sum, bd, b
<1>3. c % 256 \in Byte /\ c \div 256 \in Byte /\ sum % 256 \in Byte /\ sum \div 256 \in Byte
    BY <1>1, WordOfBytes
<1>4. hd \in Seq(Byte) /\ Len(hd) = 8 /\ tl \in Seq(Byte) /\ Len(tl) = 2
    <2>1. FrameStart \in Byte /\ FrameKind \in Byte /\ FrameVersion \in Byte /\ 0 \in Byte
        BY DEF FrameStart, FrameKind, FrameVersion, Byte
    <2> QED BY <1>1, <1>3, <2>1
<1>5. /\ hd[1] = FrameStart /\ hd[2] = FrameKind /\ hd[3] = FrameVersion
      /\ hd[4] = c % 256 /\ hd[5] = c \div 256 /\ hd[6] = l /\ hd[8] = o
      /\ tl[1] = sum % 256 /\ tl[2] = sum \div 256
    OBVIOUS
<1> HIDE DEF hd, tl
<1>6. /\ bd \in Seq(Byte) /\ Len(bd) = 8 + l
      /\ \A i \in 1..8 : bd[i] = hd[i]
      /\ \A i \in 1..l : bd[8 + i] = p[i]
    <2>1. /\ hd \o p \in Seq(Byte) /\ Len(hd \o p) = Len(hd) + Len(p)
          /\ \A i \in 1..Len(hd) : (hd \o p)[i] = hd[i]
          /\ \A i \in 1..Len(p) : (hd \o p)[Len(hd) + i] = p[i]
        <3>1. hd \in Seq(Byte) /\ p \in Seq(Byte)
            BY <1>1, <1>4
        <3> QED BY <3>1, ConcatAt
    <2> QED BY <1>2, <1>4, <2>1 DEF l
<1>7. /\ b \in Seq(Byte) /\ Len(b) = 8 + l + 2
      /\ \A i \in 1..(8 + l) : b[i] = bd[i]
      /\ \A i \in 1..2 : b[8 + l + i] = tl[i]
    <2>1. /\ bd \o tl \in Seq(Byte) /\ Len(bd \o tl) = Len(bd) + Len(tl)
          /\ \A i \in 1..Len(bd) : (bd \o tl)[i] = bd[i]
          /\ \A i \in 1..Len(tl) : (bd \o tl)[Len(bd) + i] = tl[i]
        <3>1. bd \in Seq(Byte) /\ tl \in Seq(Byte)
            BY <1>4, <1>6
        <3> QED BY <3>1, ConcatAt
    <2> QED BY <1>2, <1>4, <1>6, <2>1
<1>8. \A i \in 1..8 : b[i] = hd[i]
    BY <1>1, <1>6, <1>7
<1>9. ASSUME NEW i \in 1..l PROVE b[8 + i] = p[i]
    <2>1. 8 + i \in 1..(8 + l)
        BY <1>1
    <2>2. b[8 + i] = bd[8 + i]
        BY <1>7, <2>1
    <2> QED BY <1>6, <2>2
<1>10. b[8 + l + 1] = tl[1] /\ b[8 + l + 2] = tl[2]
    BY <1>7
<1>11. b[1] = FrameStart /\ HasCrc(b)
    BY <1>5, <1>8 DEF HasCrc
<1> QED BY <1>1, <1>5, <1>6, <1>7, <1>8, <1>9, <1>10, <1>11 DEF p, l, c, o, sum, bd, b, HeaderLen, CrcLen

LEMMA BuildSound ==
    ASSUME NEW f \in Sends
    PROVE  Sound(Build(f)) /\ FrameOf(Build(f)) = f
<1> DEFINE b == Build(f)
           l == Len(f.payload)
           sum == Crc(Body(f))
<1>1. /\ b \in Seq(Byte) /\ f.payload \in Seq(Byte) /\ l \in Nat /\ Len(b) = 8 + l + 2
      /\ b[4] = f.command % 256 /\ b[5] = f.command \div 256 /\ b[6] = l /\ b[8] = f.operation_id
      /\ \A i \in 1..l : b[8 + i] = f.payload[i]
      /\ \A i \in 1..(8 + l) : b[i] = Body(f)[i]
      /\ Body(f) \in Seq(Byte) /\ Len(Body(f)) = 8 + l
      /\ b[8 + l + 1] = sum % 256 /\ b[8 + l + 2] = sum \div 256
    BY BuildProperties DEF HeaderLen, CrcLen
<1>2. sum \in Word /\ f.command \in Word /\ f \in Frame
    BY SendsAssumption, CrcAssumption DEF Frame
<1> HIDE DEF b, l, sum
<1>3. SubSeq(b, 1, Len(b) - CrcLen) = Body(f)
    <2>1. Len(b) - CrcLen = 8 + l /\ 8 + l \in 0..Len(b)
        BY <1>1 DEF CrcLen
    <2>2. /\ SubSeq(b, 1, 8 + l) \in Seq(Byte) /\ Len(SubSeq(b, 1, 8 + l)) = 8 + l
          /\ \A i \in 1..(8 + l) : SubSeq(b, 1, 8 + l)[i] = b[i]
        BY <1>1, <2>1, ReceivedProperties
    <2>3. SubSeq(b, 1, 8 + l) = Body(f)
        BY <1>1, <2>2, SeqEqual
    <2> QED BY <2>1, <2>3
<1>4. b[Len(b) - 1] + 256 * b[Len(b)] = sum
    <2>1. Len(b) - 1 = 8 + l + 1 /\ Len(b) = 8 + l + 2
        BY <1>1
    <2>2. (sum % 256) + 256 * (sum \div 256) = sum
        BY <1>2, WordOfBytes
    <2> QED BY <1>1, <2>1, <2>2
<1>5. Sound(b)
    BY <1>3, <1>4 DEF Sound, sum
<1>6. SubSeq(b, 9, 8 + l) = f.payload
    <2>1. \A i \in 9..(8 + l) : b[i] \in Byte
        BY <1>1, ElementOfSeq
    <2>2. /\ SubSeq(b, 9, 8 + l) \in Seq(Byte)
          /\ Len(SubSeq(b, 9, 8 + l)) = IF 9 <= 8 + l THEN 8 + l - 9 + 1 ELSE 0
          /\ \A i \in 1..(8 + l - 9 + 1) : SubSeq(b, 9, 8 + l)[i] = b[9 + i - 1]
        BY <1>1, <2>1, SubSeqProperties
    <2>3. Len(SubSeq(b, 9, 8 + l)) = l /\ 8 + l - 9 + 1 = l /\ \A i \in 1..l : 9 + i - 1 = 8 + i
        BY <1>1, <2>2
    <2>4. \A i \in 1..l : SubSeq(b, 9, 8 + l)[i] = f.payload[i]
        BY <1>1, <2>2, <2>3
    <2> QED BY <1>1, <2>2, <2>3, <2>4, SeqEqual DEF l
<1>7. b[4] + 256 * b[5] = f.command
    BY <1>1, <1>2, WordOfBytes
<1>8. FrameOf(b) = f
    BY <1>1, <1>2, <1>6, <1>7 DEF FrameOf, Frame, HeaderLen
<1> QED BY <1>5, <1>8 DEF b

(* The bytes of a frame that was sent, intact or damaged after its header.   *)
Shaped(s) ==
    /\ s \in Seq(Byte) /\ s[1] = FrameStart /\ HasCrc(s)
    /\ Len(s) = HeaderLen + s[6] + CrcLen /\ Len(s) >= HeaderLen

LEMMA BuildShaped ==
    ASSUME NEW f \in Sends PROVE Shaped(Build(f))
<1> DEFINE l == Len(f.payload)
           b == Build(f)
<1>1. b \in Seq(Byte) /\ l \in Nat /\ Len(b) = 8 + l + 2 /\ b[6] = l /\ b[1] = FrameStart /\ HasCrc(b)
    BY BuildProperties DEF HeaderLen, CrcLen
<1> HIDE DEF l, b
<1>2. Len(b) >= 8 /\ Len(b) = 8 + b[6] + 2
    BY <1>1
<1> QED BY <1>1, <1>2 DEF Shaped, b, HeaderLen, CrcLen

LEMMA DamagedShaped ==
    ASSUME NEW f \in Sends, NEW k \in 1..Len(Build(f)), k > HeaderLen
    PROVE  Shaped(Damaged(f, k)) /\ ~Sound(Damaged(f, k))
<1> DEFINE b == Build(f)
           d == Damaged(f, k)
<1>1. Shaped(b)
    BY BuildShaped
<1>2. d = [b EXCEPT ![k] = (b[k] + 1) % 256]
    BY DEF Damaged
<1> HIDE DEF b, d
<1>3. b \in Seq(Byte) /\ k \in 1..Len(b) /\ k > 8 /\ Len(b) \in Nat
    BY <1>1, LenProperties DEF Shaped, b, HeaderLen
<1>4. (b[k] + 1) % 256 \in Byte
    <2> DEFINE x == b[k]
    <2>1. x \in 0..255
        BY <1>3, ElementOfSeq DEF Byte
    <2> HIDE DEF x
    <2>2. (x + 1) % 256 \in 0..255
        BY <2>1
    <2> QED BY <2>2 DEF x, Byte
<1>5. /\ d \in Seq(Byte) /\ Len(d) = Len(b)
      /\ \A j \in 1..Len(b) : d[j] = IF j = k THEN (b[k] + 1) % 256 ELSE b[j]
    BY <1>2, <1>3, <1>4, ExceptSeq
<1>6. d[1] = b[1] /\ d[2] = b[2] /\ d[3] = b[3] /\ d[6] = b[6]
    BY <1>3, <1>5
<1>7. Shaped(d)
    BY <1>1, <1>5, <1>6 DEF Shaped, HasCrc
<1>8. ~Sound(d)
    <2>1. k \in (HeaderLen + 1)..Len(Build(f))
        BY <1>3 DEF b, HeaderLen
    <2> QED BY <2>1, DamageAssumption DEF d
<1> QED BY <1>7, <1>8 DEF d

(* What begins like a frame that was sent is as long.                        *)
LEMMA SameHeader ==
    ASSUME NEW s, Shaped(s), NEW t, \A i \in 1..HeaderLen : t[i] = s[i]
    PROVE  TotalLen(t) = Len(s)
<1>1. t[2] = s[2] /\ t[3] = s[3] /\ t[6] = s[6]
    BY DEF HeaderLen
<1> QED BY <1>1 DEF Shaped, TotalLen, HasCrc

-----------------------------------------------------------------------------
LEMMA InitFramerInv == Init => FramerInv
<1> SUFFICES ASSUME Init PROVE FramerInv
    OBVIOUS
<1>1. wire = <<>> /\ got = 0 /\ buf = <<>> /\ busy = FALSE
    BY DEF Init
<1>2. <<>> \in Seq(Byte) /\ Len(<<>>) = 0
    BY EmptySeq
<1>3. SubSeq(<<>>, 1, 0) = <<>> /\ SubSeq(<<>>, 0 - 0 + 1, 0) = <<>>
    BY SubSeqEmpty
<1>4. LastOf(Received, Len(buf)) = <<>>
    BY <1>1, <1>2, <1>3 DEF LastOf, Received
<1>5. wire \in Seq(Byte) /\ buf \in Seq(Byte) /\ Len(wire) = 0 /\ Len(buf) = 0
    BY <1>1, <1>2
<1>6. got \in 0..Len(wire) /\ Len(buf) <= got
    BY <1>1, <1>5
<1>7. NothingHeldBack
    BY <1>1 DEF NothingHeldBack
<1>8. buf = LastOf(Received, Len(buf))
    BY <1>1, <1>4
<1> QED BY <1>1, <1>5, <1>6, <1>7, <1>8 DEF FramerInv

(* The bytes a step sends are bytes.                                         *)
LEMMA SentBytes ==
    ASSUME Next, ~Read, ~Await, ~Take
    PROVE  \E bytes \in Seq(Byte) : Send(bytes)
<1>1. ASSUME NEW f \in Sends, SendFrame(f) PROVE \E bytes \in Seq(Byte) : Send(bytes)
    BY <1>1, BuildProperties DEF SendFrame
<1>2. ASSUME NEW noise \in Noise, SendNoise(noise) PROVE \E bytes \in Seq(Byte) : Send(bytes)
    BY <1>2, NoiseAssumption DEF SendNoise
<1>3. ASSUME NEW f \in Sends, SendDamaged(f) PROVE \E bytes \in Seq(Byte) : Send(bytes)
    <2> DEFINE b == Build(f)
    <2>1. b \in Seq(Byte)
        BY BuildProperties
    <2>2. PICK k \in 1..Len(b) : Send([b EXCEPT ![k] = (@ + 1) % 256])
        BY <1>3 DEF SendDamaged, Damaged
    <2> HIDE DEF b
    <2>3. b[k] \in 0..255
        BY <2>1, ElementOfSeq DEF Byte
    <2>4. (b[k] + 1) % 256 \in Byte
        <3> DEFINE x == b[k]
        <3>1. x \in 0..255
            BY <2>3
        <3> HIDE DEF x
        <3>2. (x + 1) % 256 \in 0..255
            BY <3>1
        <3> QED BY <3>2 DEF x, Byte
    <2>5. [b EXCEPT ![k] = (b[k] + 1) % 256] \in Seq(Byte)
        BY <2>1, <2>4, ExceptSeq
    <2> QED BY <2>2, <2>5
<1> QED BY <1>1, <1>2, <1>3 DEF Next

LEMMA SendKeepsInv ==
    ASSUME FramerInv, NEW bytes \in Seq(Byte), Send(bytes)
    PROVE  FramerInv' /\ Received' = Received
<1>1. wire' = wire \o bytes /\ got' = got /\ buf' = buf /\ busy' = busy
    BY DEF Send
<1>2. wire' \in Seq(Byte) /\ got \in 0..Len(wire') /\ SubSeq(wire', 1, got) = SubSeq(wire, 1, got)
    BY <1>1, ReceivedOfLonger DEF FramerInv
<1>3. Received' = Received
    BY <1>1, <1>2 DEF Received
<1> QED BY <1>1, <1>2, <1>3 DEF FramerInv, NothingHeldBack

LEMMA ReadKeepsInv ==
    ASSUME FramerInv, Read
    PROVE  FramerInv'
<1>1. PICK n \in (got + 1)..Len(wire) : got' = n /\ buf' = buf \o SubSeq(wire, got + 1, n)
    BY DEF Read
<1>2. wire' = wire /\ busy' = TRUE
    BY DEF Read
<1>3. /\ wire \in Seq(Byte) /\ Len(wire) \in Nat /\ got \in 0..Len(wire) /\ n \in Nat
      /\ buf \in Seq(Byte) /\ Len(buf) \in 0..got
    BY LenProperties DEF FramerInv
<1> DEFINE t == SubSeq(wire, got + 1, n)
<1>4. t \in Seq(Byte) /\ Len(t) = n - got
    <2>1. \A i \in (got + 1)..n : wire[i] \in Byte
        BY <1>3, ElementOfSeq
    <2>2. /\ SubSeq(wire, got + 1, n) \in Seq(Byte)
          /\ Len(SubSeq(wire, got + 1, n)) = IF got + 1 <= n THEN n - (got + 1) + 1 ELSE 0
        BY <1>3, <2>1, SubSeqProperties
    <2> QED BY <1>1, <1>3, <2>2
<1>5. Received \in Seq(Byte) /\ Len(Received) = got
    BY <1>3, ReceivedProperties DEF Received
<1>6. Received' = Received \o t
    <2>1. SubSeq(wire, 1, got) \o SubSeq(wire, got + 1, n) = SubSeq(wire, 1, n)
        BY <1>1, <1>3, ConcatAdjacentSubSeq
    <2> QED BY <1>1, <1>2, <2>1 DEF Received
<1> HIDE DEF t
<1>7. LastOf(Received \o t, Len(buf) + Len(t)) = LastOf(Received, Len(buf)) \o t
    BY <1>3, <1>4, <1>5, LastOfConcat
<1>8. buf' = buf \o t
    BY <1>1 DEF t
<1>9. buf' \in Seq(Byte) /\ Len(buf') = Len(buf) + Len(t)
    BY <1>3, <1>4, <1>8, ConcatProperties
<1>10. buf' = LastOf(Received', Len(buf'))
    BY <1>6, <1>7, <1>8, <1>9 DEF FramerInv
<1>11. n \in 0..Len(wire) /\ Len(buf') <= n
    BY <1>1, <1>3, <1>4, <1>9
<1> QED BY <1>1, <1>2, <1>3, <1>9, <1>10, <1>11 DEF FramerInv, NothingHeldBack

(* The start byte and what follows it are an end of what was read too.       *)
LEMMA FromStartOfBuffer ==
    ASSUME FramerInv
    PROVE  /\ FromStart(buf) \in Seq(Byte)
           /\ Len(FromStart(buf)) \in 0..Len(buf)
           /\ FromStart(buf) = LastOf(Received, Len(FromStart(buf)))
<1>1. /\ wire \in Seq(Byte) /\ got \in 0..Len(wire)
      /\ buf \in Seq(Byte) /\ Len(buf) \in 0..got /\ buf = LastOf(Received, Len(buf))
    BY LenProperties DEF FramerInv
<1>2. Received \in Seq(Byte) /\ Len(Received) = got
    BY <1>1, ReceivedProperties DEF Received
<1>3. /\ FromStart(buf) \in Seq(Byte) /\ Len(FromStart(buf)) \in 0..Len(buf)
      /\ FromStart(buf) = LastOf(buf, Len(FromStart(buf)))
    BY <1>1, FromStartProperties
<1>4. LastOf(LastOf(Received, Len(buf)), Len(FromStart(buf))) = LastOf(Received, Len(FromStart(buf)))
    BY <1>1, <1>2, <1>3, LastOfLast
<1> QED BY <1>1, <1>3, <1>4

LEMMA AwaitKeepsInv ==
    ASSUME FramerInv, Await
    PROVE  FramerInv'
<1> DEFINE s == FromStart(buf)
<1>1. ~Whole(s) /\ buf' = s /\ busy' = FALSE /\ wire' = wire /\ got' = got
    BY DEF Await
<1>2. s \in Seq(Byte) /\ Len(s) \in 0..Len(buf) /\ s = LastOf(Received, Len(s))
    BY FromStartOfBuffer
<1>3. s # <<>> => s[1] = FrameStart
    BY FromStartProperties DEF FramerInv
<1> HIDE DEF s
<1>4. Len(s) < HeaderLen + 255 + CrcLen
    <2>1. CASE Len(s) >= HeaderLen
        <3>1. TotalLen(s) \in HeaderLen..(HeaderLen + 255 + CrcLen)
            BY <1>2, <2>1, TotalLenNat
        <3>2. Len(s) \in Nat /\ ~(Len(s) >= TotalLen(s))
            BY <1>1, <1>2, <2>1, LenProperties DEF Whole
        <3> DEFINE l == Len(s)
                   t == TotalLen(s)
        <3>3. l \in Nat /\ ~(l >= t) /\ t \in 8..(8 + 255 + 2)
            BY <3>1, <3>2 DEF HeaderLen, CrcLen
        <3> HIDE DEF l, t
        <3>4. l < 8 + 255 + 2
            BY <3>3
        <3> QED BY <3>4 DEF l, HeaderLen, CrcLen
    <2>2. CASE ~(Len(s) >= HeaderLen)
        BY <1>2, <2>2, LenProperties DEF HeaderLen, CrcLen
    <2> QED BY <2>1, <2>2
<1>5. Received' = Received
    BY <1>1 DEF Received
<1>6. Len(s) <= got
    BY <1>2, LenProperties DEF FramerInv
<1> QED BY <1>1, <1>2, <1>3, <1>4, <1>5, <1>6 DEF FramerInv, NothingHeldBack

LEMMA TakeKeepsInv ==
    ASSUME FramerInv, Take
    PROVE  FramerInv'
           /\ Len(buf') = Len(FromStart(buf)) - TotalLen(FromStart(buf))
<1> DEFINE s == FromStart(buf)
           n == Len(s) - TotalLen(s)
<1>1. /\ Whole(s) /\ buf' = SubSeq(s, TotalLen(s) + 1, Len(s))
      /\ busy = TRUE /\ busy' = busy /\ wire' = wire /\ got' = got
    BY DEF Take, FramerInv
<1>2. s \in Seq(Byte) /\ Len(s) \in 0..Len(buf) /\ s = LastOf(Received, Len(s))
    BY FromStartOfBuffer
<1> HIDE DEF s
<1>3. Len(s) \in Nat /\ TotalLen(s) \in 0..Len(s)
    BY <1>1, <1>2, TotalLenOfWhole
<1>4. n \in 0..Len(s) /\ TotalLen(s) + 1 = Len(s) - n + 1
    BY <1>3
<1>5. buf' = LastOf(s, n)
    BY <1>1, <1>4 DEF LastOf
<1> HIDE DEF n
<1>6. buf' \in Seq(Byte) /\ Len(buf') = n
    BY <1>2, <1>4, <1>5, LastOfProperties
<1>7. /\ wire \in Seq(Byte) /\ got \in 0..Len(wire) /\ Len(s) \in 0..got
    BY <1>2, LenProperties DEF FramerInv
<1>8. Received \in Seq(Byte) /\ Len(Received) = got /\ Received' = Received
    BY <1>1, <1>7, ReceivedProperties DEF Received
<1>9. LastOf(LastOf(Received, Len(s)), n) = LastOf(Received, n)
    BY <1>4, <1>7, <1>8, LastOfLast
<1>10. buf' = LastOf(Received', Len(buf'))
    BY <1>2, <1>5, <1>6, <1>8, <1>9
<1>11. Len(buf') <= got
    BY <1>3, <1>4, <1>6, <1>7
<1>12. FramerInv'
    BY <1>1, <1>6, <1>7, <1>10, <1>11 DEF FramerInv, NothingHeldBack
<1> QED BY <1>6, <1>12 DEF s, n

(* The buffer is always the end of what was read.                            *)
LEMMA FramerInvariant == Spec => []FramerInv
<1>1. Init => FramerInv
    BY InitFramerInv
<1>2. FramerInv /\ [Next]_vars => FramerInv'
    <2> SUFFICES ASSUME FramerInv, [Next]_vars PROVE FramerInv'
        OBVIOUS
    <2>1. CASE Read
        BY <2>1, ReadKeepsInv
    <2>2. CASE Await
        BY <2>2, AwaitKeepsInv
    <2>3. CASE Take
        BY <2>3, TakeKeepsInv
    <2>4. CASE Next /\ ~Read /\ ~Await /\ ~Take
        BY <2>4, SentBytes, SendKeepsInv
    <2>5. CASE UNCHANGED vars
        BY <2>5 DEF vars, FramerInv, NothingHeldBack, Received, LastOf
    <2> QED BY <2>1, <2>2, <2>3, <2>4, <2>5
<1> QED BY <1>1, <1>2, PTL DEF Spec

(* Between reads no complete frame is held back, and the buffer stays below  *)
(* the size of one frame, for any frames, noise, checksum and cuts           *)
(* (protocol.rs:50, 57).                                                     *)
THEOREM AlwaysNothingHeldBack == Spec => []NothingHeldBack
<1>1. FramerInv => NothingHeldBack
    BY DEF FramerInv
<1> QED BY <1>1, FramerInvariant, PTL

-----------------------------------------------------------------------------
(* Both modules read frames alike.                                           *)
LEMMA SameFormat ==
    ASSUME NEW s
    PROVE  /\ Stream!FromStart(s) = FromStart(s)
           /\ Stream!TotalLen(s) = TotalLen(s)
           /\ Stream!Whole(s) <=> Whole(s)
           /\ Stream!Sound(s) <=> Sound(s)
           /\ Stream!FrameOf(s) = FrameOf(s)
<1>1. Stream!HeaderLen = HeaderLen /\ Stream!CrcLen = CrcLen
    BY DEF Stream!HeaderLen, HeaderLen, Stream!CrcLen, CrcLen
<1>2. Stream!HasCrc(s) <=> HasCrc(s)
    BY DEF Stream!HasCrc, HasCrc, Stream!FrameKind, FrameKind, Stream!FrameVersion, FrameVersion
<1>3. Stream!TotalLen(s) = TotalLen(s)
    BY <1>1, <1>2 DEF Stream!TotalLen, TotalLen
<1>4. Stream!Whole(s) <=> Whole(s)
    BY <1>1, <1>3 DEF Stream!Whole, Whole
<1>5. Stream!Sound(s) <=> Sound(s)
    BY <1>1, <1>2 DEF Stream!Sound, Sound
<1>6. Stream!FrameOf(s) = FrameOf(s)
    BY <1>1 DEF Stream!FrameOf, FrameOf
<1>7. Stream!FromStart(s) = FromStart(s)
    BY DEF Stream!FromStart, FromStart, Stream!FrameStart, FrameStart
<1> QED BY <1>3, <1>4, <1>5, <1>6, <1>7

LEMMA RestIsBuffer ==
    ASSUME FramerInv
    PROVE  /\ Stream!Rest = buf
           /\ Received \in Seq(Byte) /\ Len(Received) = got
           /\ Len(buf) \in 0..got
<1>1. /\ wire \in Seq(Byte) /\ got \in 0..Len(wire)
      /\ Len(buf) \in 0..got /\ buf = LastOf(Received, Len(buf))
    BY LenProperties DEF FramerInv
<1>2. Received \in Seq(Byte) /\ Len(Received) = got
    BY <1>1, ReceivedProperties DEF Received
<1>3. Stream!Rest = SubSeq(Received, got - Len(buf) + 1, Len(Received))
    BY DEF Stream!Rest, Received
<1> QED BY <1>1, <1>2, <1>3 DEF LastOf

(* push() cuts the stream as its bytes say, wherever the reads cut it: a     *)
(* frame across two reads, or two in one, are found alike (protocol.rs:31).  *)
THEOREM FramerImplementsStream == Spec => RefinesStream
<1>1. Init => Stream!StreamInit
    <2> SUFFICES ASSUME Init PROVE Stream!StreamInit
        OBVIOUS
    <2>1. wire = <<>> /\ got = 0 /\ buf = <<>> /\ frames = <<>> /\ Len(<<>>) = 0
        BY EmptySeq DEF Init
    <2>2. SubSeq(<<>>, 1, 0) = <<>>
        BY SubSeqEmpty
    <2>3. SubSeq(wire, 1, got) = <<>> /\ Len(buf) = 0
        BY <2>1, <2>2
    <2> DEFINE held == Len(buf)
    <2>4. got = 0 /\ held = 0
        BY <2>1, <2>3
    <2> HIDE DEF held
    <2>5. got - held = 0
        BY <2>4
    <2> USE DEF held
    <2> QED BY <2>1, <2>3, <2>5 DEF Stream!StreamInit
<1>2. FramerInv /\ [Next]_vars => [Stream!StreamNext]_(Stream!streamVars)
    <2> SUFFICES ASSUME FramerInv, [Next]_vars
                 PROVE  Stream!StreamNext \/ UNCHANGED Stream!streamVars
        BY DEF Stream!streamVars
    <2>1. CASE Read
        <3>1. PICK n \in (got + 1)..Len(wire) : got' = n /\ buf' = buf \o SubSeq(wire, got + 1, n)
            BY <2>1 DEF Read
        <3>2. wire' = wire /\ frames' = frames
            BY <2>1 DEF Read
        <3>3. /\ wire \in Seq(Byte) /\ Len(wire) \in Nat /\ got \in 0..Len(wire) /\ n \in 0..Len(wire)
              /\ buf \in Seq(Byte) /\ Len(buf) \in Nat /\ n >= got
            BY <3>1, LenProperties DEF FramerInv
        <3>4. Len(Received) = got /\ Received' = SubSeq(wire, 1, n) /\ Len(Received') = n
            BY <3>1, <3>2, <3>3, ReceivedProperties DEF Received
        <3>5. SubSeq(Received', 1, got) = Received
            <4>1. CASE got = 0
                BY <3>4, <4>1, SubSeqEmpty DEF Received
            <4>2. CASE got # 0
                <5>1. /\ 1 \in 1..Len(wire) /\ n \in 1..Len(wire)
                      /\ 1 \in 1..(n - 1 + 1) /\ got \in 1..(n - 1 + 1)
                      /\ 1 + 1 - 1 = 1 /\ 1 + got - 1 = got
                    BY <3>3, <4>2
                <5>2. SubSeq(SubSeq(wire, 1, n), 1, got) = SubSeq(wire, 1 + 1 - 1, 1 + got - 1)
                    BY <3>3, <5>1, SubSeqOfSubSeq
                <5> QED BY <3>4, <5>1, <5>2 DEF Received
            <4> QED BY <4>1, <4>2
        <3>6. got' - Len(buf') = got - Len(buf)
            <4>1. \A i \in (got + 1)..n : wire[i] \in Byte
                BY <3>3, ElementOfSeq
            <4>2. /\ SubSeq(wire, got + 1, n) \in Seq(Byte)
                  /\ Len(SubSeq(wire, got + 1, n)) = IF got + 1 <= n THEN n - (got + 1) + 1 ELSE 0
                BY <3>3, <4>1, SubSeqProperties
            <4>3. Len(buf') = Len(buf) + (n - got)
                BY <3>1, <3>3, <4>2, ConcatProperties
            <4> QED BY <3>1, <3>3, <4>3
        <3>7. Stream!Receive
            BY <3>2, <3>3, <3>4, <3>5, <3>6 DEF Stream!Receive, Received
        <3> QED BY <3>7 DEF Stream!StreamNext
    <2>2. CASE Await
        <3>1. buf' = FromStart(buf) /\ wire' = wire /\ got' = got /\ frames' = frames
            BY <2>2 DEF Await
        <3>2. Stream!Skip
            <4>1. Stream!FromStart(Stream!Rest) = FromStart(buf) /\ Len(SubSeq(wire, 1, got)) = got
                BY RestIsBuffer, SameFormat DEF Received
            <4> QED BY <3>1, <4>1 DEF Stream!Skip
        <3> QED BY <3>2 DEF Stream!StreamNext
    <2>3. CASE Take
        <3> DEFINE s == FromStart(buf)
                   raw == SubSeq(s, 1, TotalLen(s))
        <3>1. /\ Whole(s) /\ wire' = wire /\ got' = got
              /\ frames' = IF Sound(raw) THEN Append(frames, FrameOf(raw)) ELSE frames
            BY <2>3 DEF Take
        <3>2. Len(buf') = Len(s) - TotalLen(s)
            BY <2>3, TakeKeepsInv
        <3>3. s \in Seq(Byte) /\ Len(s) \in Nat /\ TotalLen(s) \in Nat
            BY <3>1, FromStartOfBuffer, TotalLenOfWhole
        <3>4. Stream!Rest = buf /\ Len(Received) = got /\ got \in Nat
            BY RestIsBuffer, LenProperties DEF FramerInv
        <3>5. got' - Len(buf') = Len(Received) - Len(s) + TotalLen(s)
            <4> HIDE DEF s
            <4> QED BY <3>1, <3>2, <3>3, <3>4
        <3>6. Stream!Take
            <4>1. Stream!FromStart(Stream!Rest) = s
                BY <3>4, SameFormat
            <4>2. /\ Stream!Whole(s) <=> Whole(s)
                  /\ Stream!TotalLen(s) = TotalLen(s)
                BY SameFormat
            <4>3. Stream!Sound(raw) <=> Sound(raw)
                BY SameFormat
            <4>4. Stream!FrameOf(raw) = FrameOf(raw)
                BY SameFormat
            <4>5. (got - Len(buf))' = Len(SubSeq(wire, 1, got)) - Len(s) + TotalLen(s)
                BY <3>5 DEF Received
            <4> HIDE DEF s
            <4> QED BY <3>1, <4>1, <4>2, <4>3, <4>4, <4>5 DEF Stream!Take
        <3> QED BY <3>6 DEF Stream!StreamNext
    <2>4. CASE Next /\ ~Read /\ ~Await /\ ~Take
        <3>1. PICK bytes \in Seq(Byte) : Send(bytes)
            BY <2>4, SentBytes
        <3>2. Received' = Received /\ got' = got /\ buf' = buf /\ frames' = frames
            BY <3>1, SendKeepsInv DEF Send
        <3> QED BY <3>2 DEF Stream!streamVars, Received
    <2>5. CASE UNCHANGED vars
        BY <2>5 DEF vars, Stream!streamVars
    <2> QED BY <2>1, <2>2, <2>3, <2>4, <2>5
<1> QED BY <1>1, <1>2, FramerInvariant, PTL DEF Spec, RefinesStream, Stream!StreamSpec

-----------------------------------------------------------------------------
(* Where the frames that were sent lie in the wire: x.n counts the intact    *)
(* ones, and is 0 for one that was damaged.                                  *)
Item == [at : Nat, s : Seq(Byte), n : Nat]
End(x) == x.at + Len(x.s)

Carries(x, sent) ==
    /\ Shaped(x.s)
    /\ x.n = 0 => ~Sound(x.s)
    /\ x.n > 0 => x.n \in 1..Len(sent) /\ x.s = Build(sent[x.n])

Lies(x, w) == End(x) <= Len(w) /\ \A i \in 1..Len(x.s) : w[x.at + i] = x.s[i]

Layout(L, w, sent) ==
    /\ \A x \in L : Carries(x, sent) /\ Lies(x, w)
    /\ \A j \in 1..Len(w) : w[j] = FrameStart => \E x \in L : x.at < j /\ j <= End(x)
    /\ \A x, y \in L : x = y \/ End(x) <= y.at \/ End(y) <= x.at
    /\ \A x, y \in L : x.n > 0 /\ y.n > 0 /\ x.at < y.at => x.n < y.n
    /\ \A n \in 1..Len(sent) : \E x \in L : x.n = n

\* Nothing lies across p, and k intact ones lie before it.
Placed(L, p, k) ==
    \A x \in L : /\ End(x) <= p \/ p <= x.at
                 /\ x.n > 0 => (x.n <= k <=> x.at < p)

LEMMA ItemFacts ==
    ASSUME NEW x \in Item, Shaped(x.s)
    PROVE  /\ x.at \in Nat /\ x.n \in Nat /\ Len(x.s) \in Nat /\ Len(x.s) >= 8
           /\ x.s[1] = FrameStart
           /\ End(x) \in Nat /\ End(x) = x.at + Len(x.s) /\ End(x) >= x.at + 8
<1>1. x.at \in Nat /\ x.n \in Nat /\ x.s \in Seq(Byte)
    BY DEF Item
<1>2. Len(x.s) \in Nat /\ Len(x.s) >= 8 /\ x.s[1] = FrameStart
    BY <1>1, LenProperties DEF Shaped, HeaderLen
<1> QED BY <1>1, <1>2 DEF End

LEMMA LayoutItem ==
    ASSUME NEW L \in SUBSET Item, NEW w, NEW sent, Layout(L, w, sent), NEW x \in L
    PROVE  /\ x \in Item /\ Carries(x, sent) /\ Shaped(x.s) /\ w[x.at + 1] = FrameStart
           /\ End(x) <= Len(w) /\ \A i \in 1..Len(x.s) : w[x.at + i] = x.s[i]
<1>1. Carries(x, sent) /\ Lies(x, w) /\ Shaped(x.s)
    BY DEF Layout, Carries
<1>2. 1 \in 1..Len(x.s) /\ x.s[1] = FrameStart
    BY <1>1, ItemFacts
<1> QED BY <1>1, <1>2 DEF Lies

LEMMA LayoutStarts ==
    ASSUME NEW L \in SUBSET Item, NEW w, NEW sent, Layout(L, w, sent)
    PROVE  \A x \in L : w[x.at + 1] = FrameStart
BY LayoutItem

(* Noise without a start byte leaves the layout as it is.                    *)
LEMMA LayoutGrows ==
    ASSUME NEW L \in SUBSET Item, NEW w \in Seq(Byte), NEW sent, Layout(L, w, sent),
           NEW t \in Seq(Byte), \A j \in 1..Len(t) : t[j] # FrameStart
    PROVE  Layout(L, w \o t, sent)
<1> DEFINE u == w \o t
<1>1. /\ Len(w) \in Nat /\ Len(t) \in Nat /\ Len(u) = Len(w) + Len(t)
      /\ \A i \in 1..Len(w) : u[i] = w[i]
      /\ \A i \in 1..Len(t) : u[Len(w) + i] = t[i]
    BY LenProperties, ConcatAt
<1> HIDE DEF u
<1>2. ASSUME NEW x \in L PROVE Carries(x, sent) /\ Lies(x, u)
    <2>1. /\ x.at \in Nat /\ Len(x.s) \in Nat /\ End(x) = x.at + Len(x.s) /\ End(x) <= Len(w)
          /\ Carries(x, sent) /\ \A i \in 1..Len(x.s) : w[x.at + i] = x.s[i]
        BY LayoutItem, ItemFacts
    <2>2. ASSUME NEW i \in 1..Len(x.s) PROVE u[x.at + i] = x.s[i]
        <3>1. x.at + i \in 1..Len(w)
            BY <1>1, <2>1
        <3> QED BY <1>1, <2>1, <3>1
    <2>3. End(x) <= Len(u)
        BY <1>1, <2>1
    <2> QED BY <2>1, <2>2, <2>3 DEF Lies
<1>3. ASSUME NEW j \in 1..Len(u), u[j] = FrameStart PROVE \E x \in L : x.at < j /\ j <= End(x)
    <2>1. CASE j \in 1..Len(w)
        BY <1>1, <1>3, <2>1 DEF Layout
    <2>2. CASE ~(j \in 1..Len(w))
        <3>1. j - Len(w) \in 1..Len(t) /\ Len(w) + (j - Len(w)) = j
            BY <1>1, <2>2
        <3>2. u[j] = t[j - Len(w)]
            BY <1>1, <3>1
        <3> QED BY <1>3, <3>1, <3>2
    <2> QED BY <2>1, <2>2
<1> QED BY <1>2, <1>3 DEF Layout, u

\* One more frame, intact or damaged.
Adds(s, n, sent, more) ==
    \/ n = 0 /\ ~Sound(s) /\ more = sent
    \/ \E f \in Sends : s = Build(f) /\ n = Len(sent) + 1 /\ more = Append(sent, f)

LEMMA LayoutExtends ==
    ASSUME NEW L \in SUBSET Item, NEW w \in Seq(Byte), NEW sent \in Seq(Sends), Layout(L, w, sent),
           NEW s, Shaped(s), NEW n \in Nat, NEW more \in Seq(Sends), Adds(s, n, sent, more)
    PROVE  \E x \in Item :
              /\ x.at = Len(w) /\ x.n = n
              /\ Layout(L \cup {x}, w \o s, more)
<1> DEFINE u == w \o s
           x == [at |-> Len(w), s |-> s, n |-> n]
           M == L \cup {x}
<1>1. /\ s \in Seq(Byte) /\ Len(s) \in Nat /\ Len(s) >= 8 /\ Len(sent) \in Nat
      /\ Len(w) \in Nat /\ Len(u) = Len(w) + Len(s)
      /\ \A i \in 1..Len(w) : u[i] = w[i]
      /\ \A i \in 1..Len(s) : u[Len(w) + i] = s[i]
    <2>1. s \in Seq(Byte)
        BY DEF Shaped
    <2>2. Len(s) \in Nat /\ Len(s) >= 8 /\ Len(sent) \in Nat /\ Len(w) \in Nat
        BY <2>1, LenProperties DEF Shaped, HeaderLen
    <2>3. /\ Len(u) = Len(w) + Len(s)
          /\ \A i \in 1..Len(w) : u[i] = w[i]
          /\ \A i \in 1..Len(s) : u[Len(w) + i] = s[i]
        BY <2>1, ConcatAt
    <2> QED BY <2>1, <2>2, <2>3
<1>2. /\ x \in Item /\ x.at = Len(w) /\ x.s = s /\ x.n = n
      /\ End(x) = Len(w) + Len(s) /\ End(x) >= x.at
    BY <1>1 DEF Item, End
<1>3. /\ Len(sent) <= Len(more) /\ Len(more) \in Nat
      /\ \A i \in 1..Len(sent) : more[i] = sent[i]
      /\ n = 0 => ~Sound(s) /\ Len(more) = Len(sent)
      /\ n > 0 => n = Len(sent) + 1 /\ Len(more) = n /\ s = Build(more[n])
    <2>1. CASE n = 0 /\ ~Sound(s) /\ more = sent
        BY <1>1, <2>1
    <2>2. CASE \E f \in Sends : s = Build(f) /\ n = Len(sent) + 1 /\ more = Append(sent, f)
        <3>1. PICK f \in Sends : s = Build(f) /\ n = Len(sent) + 1 /\ more = Append(sent, f)
            BY <2>2
        <3>2. /\ Len(more) = Len(sent) + 1 /\ \A i \in 1..Len(sent) : more[i] = sent[i]
              /\ more[Len(sent) + 1] = f
            BY <3>1, AppendProperties
        <3> QED BY <1>1, <3>1, <3>2
    <2> QED BY <2>1, <2>2 DEF Adds
<1> HIDE DEF u, x, M
<1>4. M \in SUBSET Item /\ \A y \in M : y = x \/ y \in L
    BY <1>2 DEF M
<1>5. ASSUME NEW y \in L
      PROVE  /\ y.at \in Nat /\ y.n \in Nat /\ Len(y.s) \in Nat
             /\ End(y) = y.at + Len(y.s) /\ End(y) >= y.at + 8 /\ End(y) <= Len(w)
             /\ y.n > 0 => y.n \in 1..Len(sent)
             /\ Carries(y, sent) /\ \A i \in 1..Len(y.s) : w[y.at + i] = y.s[i]
    <2>1. /\ y \in Item /\ Carries(y, sent) /\ Shaped(y.s) /\ End(y) <= Len(w)
          /\ \A i \in 1..Len(y.s) : w[y.at + i] = y.s[i]
        BY LayoutItem
    <2> QED BY <2>1, ItemFacts DEF Carries
<1>6. ASSUME NEW y \in M PROVE Carries(y, more) /\ Lies(y, u)
    <2>1. CASE y = x
        <3>1. Lies(x, u)
            BY <1>1, <1>2 DEF Lies
        <3>2. n > 0 => n \in 1..Len(more)
            BY <1>3
        <3>3. Carries(y, more)
            BY <1>2, <1>3, <2>1, <3>2 DEF Carries
        <3> QED BY <2>1, <3>1, <3>3
    <2>2. CASE y \in L
        <3>1. ASSUME NEW i \in 1..Len(y.s) PROVE u[y.at + i] = y.s[i]
            <4>1. y.at + i \in 1..Len(w)
                BY <1>1, <1>5, <2>2
            <4> QED BY <1>1, <1>5, <2>2, <4>1
        <3>2. End(y) <= Len(u)
            <4>1. End(y) <= Len(w) /\ y.at \in Nat /\ Len(y.s) \in Nat /\ End(y) = y.at + Len(y.s)
                BY <1>5, <2>2
            <4> QED BY <1>1, <4>1
        <3>3. y.n > 0 => y.n \in 1..Len(more) /\ more[y.n] = sent[y.n]
            BY <1>1, <1>3, <1>5, <2>2
        <3>4. Carries(y, more)
            BY <1>5, <2>2, <3>3 DEF Carries
        <3> QED BY <3>1, <3>2, <3>4 DEF Lies
    <2> QED BY <1>4, <2>1, <2>2
<1>7. ASSUME NEW j \in 1..Len(u), u[j] = FrameStart PROVE \E y \in M : y.at < j /\ j <= End(y)
    <2>1. CASE j \in 1..Len(w)
        <3>1. \E y \in L : y.at < j /\ j <= End(y)
            BY <1>1, <1>7, <2>1 DEF Layout
        <3> QED BY <3>1 DEF M
    <2>2. CASE ~(j \in 1..Len(w))
        <3>1. x.at < j /\ j <= End(x)
            BY <1>1, <1>2, <2>2
        <3> QED BY <3>1 DEF M
    <2> QED BY <2>1, <2>2
<1>8. ASSUME NEW y \in M, NEW z \in M PROVE y = z \/ End(y) <= z.at \/ End(z) <= y.at
    BY <1>2, <1>4, <1>5 DEF Layout
<1>9. ASSUME NEW y \in M, NEW z \in M, y.n > 0, z.n > 0, y.at < z.at PROVE y.n < z.n
    <2>1. CASE y \in L /\ z \in L
        BY <1>9, <2>1 DEF Layout
    <2>2. CASE y \in L /\ z = x
        BY <1>1, <1>2, <1>3, <1>5, <1>9, <2>2
    <2>3. CASE y = x /\ z \in L
        BY <1>1, <1>2, <1>5, <1>9, <2>3
    <2>4. CASE y = x /\ z = x
        BY <1>1, <1>2, <1>9, <2>4
    <2> QED BY <1>4, <2>1, <2>2, <2>3, <2>4
<1>10. ASSUME NEW i \in 1..Len(more) PROVE \E y \in M : y.n = i
    <2>1. CASE i \in 1..Len(sent)
        <3>1. \E y \in L : y.n = i
            BY <2>1 DEF Layout
        <3> QED BY <3>1 DEF M
    <2>2. CASE ~(i \in 1..Len(sent))
        <3>1. i = n
            BY <1>1, <1>3, <2>2
        <3> QED BY <1>2, <3>1 DEF M
    <2> QED BY <2>1, <2>2
<1>11. Layout(M, u, more)
    BY <1>6, <1>7, <1>8, <1>9, <1>10 DEF Layout
<1> QED BY <1>2, <1>11 DEF M, u

(* What is sent later is placed later.                                       *)
LEMMA PlacedExtends ==
    ASSUME NEW L \in SUBSET Item, NEW p \in Nat, NEW k \in Nat, Placed(L, p, k),
           NEW x \in Item, p <= x.at, x.n > 0 => k < x.n
    PROVE  Placed(L \cup {x}, p, k)
<1>1. x.at \in Nat /\ x.n \in Nat
    BY DEF Item
<1>2. x.n > 0 => (x.n <= k <=> x.at < p)
    BY <1>1
<1> QED BY <1>2 DEF Placed

(* Moving over bytes that start nothing passes over no frame.                *)
LEMMA PlacedSkips ==
    ASSUME NEW L \in SUBSET Item, NEW w \in Seq(Byte), NEW sent, Layout(L, w, sent),
           NEW p \in Nat, NEW q \in Nat, p <= q, q <= Len(w), NEW k \in Nat, Placed(L, p, k),
           \A j \in (p + 1)..q : w[j] # FrameStart
    PROVE  Placed(L, q, k)
<1> SUFFICES ASSUME NEW x \in L
             PROVE  /\ End(x) <= q \/ q <= x.at
                    /\ x.n > 0 => (x.n <= k <=> x.at < q)
    BY DEF Placed
<1>1. /\ x.at \in Nat /\ x.n \in Nat /\ End(x) \in Nat /\ End(x) >= x.at + 8
      /\ w[x.at + 1] = FrameStart
    <2>1. x \in Item /\ Shaped(x.s)
        BY LayoutItem
    <2>2. w[x.at + 1] = FrameStart
        BY LayoutStarts
    <2> QED BY <2>1, <2>2, ItemFacts
<1>2. /\ End(x) <= p \/ p <= x.at
      /\ x.n > 0 => (x.n <= k <=> x.at < p)
    BY DEF Placed
<1>3. ~(p <= x.at /\ x.at < q)
    <2>1. SUFFICES ASSUME p <= x.at, x.at < q PROVE FALSE
        OBVIOUS
    <2>2. x.at + 1 \in (p + 1)..q
        BY <1>1, <2>1
    <2> QED BY <1>1, <2>2
<1>4. x.at < q <=> x.at < p
    BY <1>1, <1>2, <1>3
<1> QED BY <1>1, <1>2, <1>3, <1>4

(* A start byte that no frame lies across is the first of a frame.           *)
LEMMA FrameAt ==
    ASSUME NEW L \in SUBSET Item, NEW w \in Seq(Byte), NEW sent, Layout(L, w, sent),
           NEW q \in Nat, NEW k \in Nat, Placed(L, q, k),
           q < Len(w), w[q + 1] = FrameStart
    PROVE  \E x \in L : x.at = q
<1>1. q + 1 \in 1..Len(w)
    BY LenProperties
<1>2. PICK x \in L : x.at < q + 1 /\ q + 1 <= End(x)
    BY <1>1 DEF Layout
<1>3. x.at \in Nat /\ End(x) \in Nat
    <2>1. x \in Item /\ Shaped(x.s)
        BY LayoutItem
    <2> QED BY <2>1, ItemFacts
<1>4. End(x) <= q \/ q <= x.at
    BY DEF Placed
<1>5. x.at = q
    BY <1>2, <1>3, <1>4
<1> QED BY <1>5

(* Moving over a frame passes over that one, the next of the intact ones if  *)
(* it is intact.                                                             *)
LEMMA PlacedTakes ==
    ASSUME NEW L \in SUBSET Item, NEW w \in Seq(Byte), NEW sent \in Seq(Sends), Layout(L, w, sent),
           NEW k \in 0..Len(sent), NEW x \in L, Placed(L, x.at, k)
    PROVE  /\ x.n = 0 => Placed(L, End(x), k)
           /\ x.n > 0 => x.n = k + 1 /\ x.n \in 1..Len(sent) /\ Placed(L, End(x), k + 1)
<1> DEFINE q == x.at
           e == End(x)
<1>1. /\ q \in Nat /\ x.n \in Nat /\ e \in Nat /\ e >= q + 8 /\ k \in Nat
      /\ x.n > 0 => x.n \in 1..Len(sent)
    <2>1. x \in Item /\ Shaped(x.s) /\ Carries(x, sent)
        BY LayoutItem
    <2>2. k \in Nat
        BY LenProperties
    <2> QED BY <2>1, <2>2, ItemFacts DEF Carries
<1>2. ASSUME NEW y \in L
      PROVE  /\ y.at \in Nat /\ y.n \in Nat /\ End(y) \in Nat /\ End(y) >= y.at + 8
             /\ End(y) <= q \/ q <= y.at
             /\ y.n > 0 => (y.n <= k <=> y.at < q)
             /\ y = x \/ e <= y.at \/ End(y) <= q
    <2>1. y \in Item /\ Shaped(y.s)
        BY LayoutItem
    <2>2. /\ End(y) <= q \/ q <= y.at
          /\ y.n > 0 => (y.n <= k <=> y.at < q)
        BY DEF Placed
    <2>3. y = x \/ e <= y.at \/ End(y) <= q
        BY DEF Layout
    <2> QED BY <2>1, <2>2, <2>3, ItemFacts
<1>3. ASSUME x.n > 0 PROVE x.n = k + 1
    <2>1. k + 1 \in 1..Len(sent)
        BY <1>1, <1>2, <1>3, LenProperties
    <2>2. PICK y \in L : y.n = k + 1
        BY <2>1 DEF Layout
    <2>3. q <= y.at /\ y.n > 0 /\ x.n > k
        BY <1>1, <1>2, <1>3, <2>2
    <2>4. x = y \/ q < y.at
        BY <1>1, <1>2, <2>3
    <2>5. q < y.at => x.n < y.n
        BY <1>3, <2>3 DEF Layout
    <2> QED BY <1>1, <2>2, <2>3, <2>4, <2>5
<1> DEFINE m == IF x.n = 0 THEN k ELSE k + 1
<1>4. ASSUME NEW y \in L
      PROVE  /\ End(y) <= e \/ e <= y.at
             /\ y.n > 0 => (y.n <= m <=> y.at < e)
    <2>1. CASE y = x
        BY <1>1, <1>3, <2>1
    <2>2. CASE e <= y.at
        <3>1. ~(y.at < q) /\ ~(y.at < e)
            BY <1>1, <1>2, <2>2
        <3>2. y.n > 0 /\ x.n > 0 => x.n < y.n
            BY <1>1, <1>2, <2>2 DEF Layout
        <3> QED BY <1>1, <1>2, <1>3, <2>2, <3>1, <3>2
    <2>3. CASE End(y) <= q
        BY <1>1, <1>2, <2>3
    <2> QED BY <1>2, <2>1, <2>2, <2>3
<1>5. Placed(L, e, m)
    BY <1>4 DEF Placed
<1> QED BY <1>1, <1>3, <1>5

-----------------------------------------------------------------------------
(* The buffer holds the bytes of the wire from the position to what was read,*)
(* and so does what is left of it from its first start byte.                 *)
LEMMA BufferBytes ==
    ASSUME FramerInv
    PROVE  /\ wire \in Seq(Byte) /\ Len(wire) \in Nat /\ got \in Nat /\ got <= Len(wire)
           /\ buf \in Seq(Byte) /\ Len(buf) \in 0..got
           /\ \A i \in 1..Len(buf) : buf[i] = wire[got - Len(buf) + i]
<1>1. /\ wire \in Seq(Byte) /\ Len(wire) \in Nat /\ got \in 0..Len(wire)
      /\ buf \in Seq(Byte) /\ Len(buf) \in 0..got /\ buf = LastOf(Received, Len(buf))
    BY LenProperties DEF FramerInv
<1>2. /\ Received \in Seq(Byte) /\ Len(Received) = got
      /\ \A i \in 1..got : Received[i] = wire[i]
    BY <1>1, ReceivedProperties DEF Received
<1>3. \A i \in 1..Len(buf) : LastOf(Received, Len(buf))[i] = Received[Len(Received) - Len(buf) + i]
    BY <1>1, <1>2, LastOfProperties
<1>4. ASSUME NEW i \in 1..Len(buf) PROVE buf[i] = wire[got - Len(buf) + i]
    <2>1. got - Len(buf) + i \in 1..got
        BY <1>1
    <2>2. buf[i] = Received[got - Len(buf) + i]
        BY <1>1, <1>2, <1>3
    <2> QED BY <1>2, <2>1, <2>2
<1> QED BY <1>1, <1>4

LEMMA SearchBytes ==
    ASSUME FramerInv
    PROVE  /\ FromStart(buf) \in Seq(Byte) /\ Len(FromStart(buf)) \in 0..Len(buf)
           /\ \A i \in 1..Len(FromStart(buf)) :
                 FromStart(buf)[i] = wire[got - Len(FromStart(buf)) + i]
           /\ Len(FromStart(buf)) > 0 => FromStart(buf)[1] = FrameStart
           /\ \A j \in (got - Len(buf) + 1)..(got - Len(FromStart(buf))) : wire[j] # FrameStart
<1> DEFINE s == FromStart(buf)
           l == Len(buf)
           n == Len(s)
<1>1. /\ got \in Nat /\ buf \in Seq(Byte) /\ l \in 0..got /\ l \in Nat
      /\ \A i \in 1..l : buf[i] = wire[got - l + i]
    BY BufferBytes
<1>2. /\ s \in Seq(Byte) /\ n \in 0..l /\ s = LastOf(buf, n)
      /\ s # <<>> => s[1] = FrameStart
    BY <1>1, FromStartProperties
<1>3. \A j \in 1..(l - n) : buf[j] # FrameStart
    BY <1>1, FromStartProperties
<1>4. \A i \in 1..n : LastOf(buf, n)[i] = buf[l - n + i]
    BY <1>1, <1>2, LastOfProperties
<1>5. n > 0 => s[1] = FrameStart
    BY <1>2, EmptySeq
<1> HIDE DEF l, n, s
<1>6. ASSUME NEW i \in 1..n PROVE s[i] = wire[got - n + i]
    <2>1. l - n + i \in 1..l /\ got - l + (l - n + i) = got - n + i
        BY <1>1, <1>2
    <2>2. s[i] = buf[l - n + i]
        BY <1>2, <1>4
    <2> QED BY <1>1, <2>1, <2>2
<1>7. ASSUME NEW j \in (got - l + 1)..(got - n) PROVE wire[j] # FrameStart
    <2>1. j - (got - l) \in 1..(l - n) /\ j - (got - l) \in 1..l /\ got - l + (j - (got - l)) = j
        BY <1>1, <1>2
    <2>2. buf[j - (got - l)] = wire[j]
        BY <1>1, <2>1
    <2> QED BY <1>3, <2>1, <2>2
<1> QED BY <1>2, <1>5, <1>6, <1>7 DEF l, n, s

-----------------------------------------------------------------------------
(* What was returned is what was sent intact before the position, and the    *)
(* position lies between frames.                                             *)
ParseInv ==
    /\ intact \in Seq(Sends)
    /\ clean =>
          /\ frames \in Seq(Sends) /\ Len(frames) <= Len(intact)
          /\ \A i \in 1..Len(frames) : frames[i] = intact[i]
          /\ \E L \in SUBSET Item :
                Layout(L, wire, intact) /\ Placed(L, got - Len(buf), Len(frames))

LEMMA InitParse == Init => ParseInv
<1> SUFFICES ASSUME Init PROVE ParseInv
    OBVIOUS
<1>1. wire = <<>> /\ frames = <<>> /\ intact = <<>> /\ Len(<<>>) = 0
    BY EmptySeq DEF Init
<1>2. <<>> \in Seq(Sends)
    BY EmptySeq
<1>3. Layout({}, <<>>, <<>>)
    BY <1>1 DEF Layout
<1>4. \A p, k : Placed({}, p, k)
    BY DEF Placed
<1>5. {} \in SUBSET Item
    OBVIOUS
<1> QED BY <1>1, <1>2, <1>3, <1>4, <1>5 DEF ParseInv

(* One more frame at the end of the wire.                                    *)
LEMMA SentOne ==
    ASSUME FramerInv, ParseInv, clean, NEW s, Shaped(s), Send(s), NEW n \in Nat,
           Adds(s, n, intact, intact')
    PROVE  \E M \in SUBSET Item :
              Layout(M, wire', intact') /\ Placed(M, (got - Len(buf))', Len(frames'))
<1>1. PICK L \in SUBSET Item : Layout(L, wire, intact) /\ Placed(L, got - Len(buf), Len(frames))
    BY DEF ParseInv
<1>2. wire' = wire \o s /\ got' = got /\ buf' = buf /\ frames' = frames
    BY DEF Send
<1>3. wire \in Seq(Byte) /\ Len(wire) \in Nat /\ got - Len(buf) \in Nat /\ got - Len(buf) <= Len(wire)
    BY BufferBytes
<1>4. intact \in Seq(Sends) /\ Len(frames) \in Nat /\ Len(intact) \in Nat /\ Len(frames) <= Len(intact)
    BY LenProperties DEF ParseInv
<1> DEFINE more == intact'
           p == got - Len(buf)
           k == Len(frames)
<1>5. more \in Seq(Sends) /\ Adds(s, n, intact, more) /\ (n > 0 => n = Len(intact) + 1)
    BY <1>4, AppendProperties DEF Adds
<1> HIDE DEF more
<1>6. PICK x \in Item : x.at = Len(wire) /\ x.n = n /\ Layout(L \cup {x}, wire \o s, more)
    <2>1. wire \in Seq(Byte) /\ intact \in Seq(Sends) /\ Layout(L, wire, intact)
        BY <1>1, <1>3, <1>4
    <2> QED BY <1>5, <2>1, LayoutExtends
<1>7. p <= x.at /\ (x.n > 0 => k < x.n)
    BY <1>3, <1>4, <1>5, <1>6
<1>8. Placed(L \cup {x}, p, k)
    BY <1>1, <1>3, <1>4, <1>7, PlacedExtends
<1>9. L \cup {x} \in SUBSET Item
    BY <1>6
<1> QED BY <1>2, <1>6, <1>8, <1>9 DEF more

LEMMA SendFrameKeepsParse ==
    ASSUME FramerInv, ParseInv, NEW f \in Sends, SendFrame(f)
    PROVE  ParseInv'
<1>1. Send(Build(f)) /\ intact' = Append(intact, f) /\ clean' = clean /\ frames' = frames
    BY DEF SendFrame, Send
<1>2. /\ intact \in Seq(Sends) /\ Len(intact) \in Nat
      /\ intact' \in Seq(Sends) /\ Len(intact') = Len(intact) + 1
      /\ \A i \in 1..Len(intact) : intact'[i] = intact[i]
    BY <1>1, AppendProperties, LenProperties DEF ParseInv
<1>3. SUFFICES ASSUME clean
               PROVE  /\ frames' \in Seq(Sends) /\ Len(frames') <= Len(intact')
                      /\ \A i \in 1..Len(frames') : frames'[i] = intact'[i]
                      /\ \E L \in SUBSET Item :
                            Layout(L, wire', intact') /\ Placed(L, (got - Len(buf))', Len(frames'))
    BY <1>1, <1>2 DEF ParseInv
<1>4. /\ frames \in Seq(Sends) /\ Len(frames) \in Nat /\ Len(frames) <= Len(intact)
      /\ \A i \in 1..Len(frames) : frames[i] = intact[i]
    BY <1>3, LenProperties DEF ParseInv
<1>5. Shaped(Build(f)) /\ Len(intact) + 1 \in Nat
    BY <1>2, BuildShaped
<1>6. \E L \in SUBSET Item :
         Layout(L, wire', intact') /\ Placed(L, (got - Len(buf))', Len(frames'))
    <2>1. Adds(Build(f), Len(intact) + 1, intact, intact')
        BY <1>1 DEF Adds
    <2> QED BY <1>1, <1>3, <1>5, <2>1, SentOne
<1>7. Len(frames') <= Len(intact')
    BY <1>1, <1>2, <1>4
<1>8. ASSUME NEW i \in 1..Len(frames) PROVE frames[i] = intact'[i]
    <2>1. i \in 1..Len(intact)
        BY <1>2, <1>4
    <2> QED BY <1>2, <1>4, <2>1
<1> QED BY <1>1, <1>4, <1>6, <1>7, <1>8

LEMMA SendDamagedKeepsParse ==
    ASSUME FramerInv, ParseInv, NEW f \in Sends, SendDamaged(f)
    PROVE  ParseInv'
<1>1. PICK k \in 1..Len(Build(f)) : Send(Damaged(f, k)) /\ clean' = (clean /\ k > HeaderLen)
    BY DEF SendDamaged
<1>2. intact' = intact /\ frames' = frames
    BY <1>1 DEF SendDamaged, Send
<1>3. SUFFICES ASSUME clean'
               PROVE  \E L \in SUBSET Item :
                         Layout(L, wire', intact') /\ Placed(L, (got - Len(buf))', Len(frames'))
    BY <1>1, <1>2 DEF ParseInv
<1>4. clean /\ k > HeaderLen
    BY <1>1, <1>3
<1>5. Shaped(Damaged(f, k)) /\ ~Sound(Damaged(f, k))
    BY <1>4, DamagedShaped
<1>6. 0 \in Nat /\ Adds(Damaged(f, k), 0, intact, intact')
    BY <1>2, <1>5 DEF Adds
<1> QED BY <1>1, <1>2, <1>4, <1>5, <1>6, SentOne

LEMMA SendNoiseKeepsParse ==
    ASSUME FramerInv, ParseInv, NEW noise \in Noise, SendNoise(noise)
    PROVE  ParseInv'
<1>1. /\ wire' = wire \o noise /\ got' = got /\ buf' = buf /\ frames' = frames /\ intact' = intact
      /\ clean' = (clean /\ FromStart(noise) = <<>>)
    BY DEF SendNoise, Send
<1>2. SUFFICES ASSUME clean'
               PROVE  \E L \in SUBSET Item :
                         Layout(L, wire', intact') /\ Placed(L, (got - Len(buf))', Len(frames'))
    BY <1>1 DEF ParseInv
<1>3. PICK L \in SUBSET Item : Layout(L, wire, intact) /\ Placed(L, got - Len(buf), Len(frames))
    BY <1>1, <1>2 DEF ParseInv
<1>4. wire \in Seq(Byte) /\ noise \in Seq(Byte)
    BY BufferBytes, NoiseAssumption
<1>5. \A j \in 1..Len(noise) : noise[j] # FrameStart
    <2>1. FromStart(noise) = <<>> /\ Len(<<>>) = 0 /\ Len(noise) \in Nat
        BY <1>1, <1>2, <1>4, EmptySeq, LenProperties
    <2>2. Len(noise) - Len(FromStart(noise)) = Len(noise)
        BY <2>1
    <2> QED BY <1>4, <2>2, FromStartProperties
<1>6. Layout(L, wire \o noise, intact)
    BY <1>3, <1>4, <1>5, LayoutGrows
<1> QED BY <1>1, <1>3, <1>6

LEMMA ReadKeepsParse ==
    ASSUME FramerInv, ParseInv, Read
    PROVE  ParseInv'
<1>1. PICK n \in (got + 1)..Len(wire) : got' = n /\ buf' = buf \o SubSeq(wire, got + 1, n)
    BY DEF Read
<1>2. wire' = wire /\ frames' = frames /\ intact' = intact /\ clean' = clean
    BY DEF Read
<1>3. /\ wire \in Seq(Byte) /\ Len(wire) \in Nat /\ got \in Nat /\ got <= Len(wire) /\ n \in Nat
      /\ buf \in Seq(Byte) /\ Len(buf) \in Nat /\ n >= got + 1 /\ n <= Len(wire)
    BY BufferBytes
<1>4. got' - Len(buf') = got - Len(buf)
    <2>1. \A i \in (got + 1)..n : wire[i] \in Byte
        BY <1>3, ElementOfSeq
    <2>2. /\ SubSeq(wire, got + 1, n) \in Seq(Byte)
          /\ Len(SubSeq(wire, got + 1, n)) = IF got + 1 <= n THEN n - (got + 1) + 1 ELSE 0
        BY <1>3, <2>1, SubSeqProperties
    <2>3. Len(buf') = Len(buf) + (n - got)
        BY <1>1, <1>3, <2>2, ConcatProperties
    <2> QED BY <1>1, <1>3, <2>3
<1> QED BY <1>2, <1>4 DEF ParseInv

(* Past bytes that start nothing, to what is left from the first start byte. *)
LEMMA PlacedAtStart ==
    ASSUME FramerInv, NEW L \in SUBSET Item, NEW k \in Nat,
           Layout(L, wire, intact), Placed(L, got - Len(buf), k)
    PROVE  Placed(L, got - Len(FromStart(buf)), k)
<1> DEFINE p == got - Len(buf)
           q == got - Len(FromStart(buf))
<1>1. /\ wire \in Seq(Byte) /\ Len(wire) \in Nat /\ got \in Nat /\ got <= Len(wire)
      /\ Len(buf) \in 0..got /\ Len(FromStart(buf)) \in 0..Len(buf)
      /\ \A j \in (p + 1)..q : wire[j] # FrameStart
    BY BufferBytes, SearchBytes
<1>2. p \in Nat /\ q \in Nat /\ p <= q /\ q <= Len(wire)
    BY <1>1
<1> HIDE DEF p, q
<1>3. Placed(L, p, k)
    BY DEF p
<1>4. Placed(L, q, k)
    BY <1>1, <1>2, <1>3, PlacedSkips
<1> QED BY <1>4 DEF q

LEMMA AwaitKeepsParse ==
    ASSUME FramerInv, ParseInv, Await
    PROVE  ParseInv'
<1>1. /\ buf' = FromStart(buf) /\ wire' = wire /\ got' = got /\ frames' = frames
      /\ intact' = intact /\ clean' = clean
    BY DEF Await
<1>2. SUFFICES ASSUME clean
               PROVE  \E L \in SUBSET Item :
                         Layout(L, wire', intact') /\ Placed(L, (got - Len(buf))', Len(frames'))
    BY <1>1 DEF ParseInv
<1>3. PICK L \in SUBSET Item : Layout(L, wire, intact) /\ Placed(L, got - Len(buf), Len(frames))
    BY <1>2 DEF ParseInv
<1>4. Len(frames) \in Nat
    BY <1>2, LenProperties DEF ParseInv
<1>5. Placed(L, got - Len(FromStart(buf)), Len(frames))
    BY <1>3, <1>4, PlacedAtStart
<1> QED BY <1>1, <1>3, <1>5

(* Bytes that lie in the wire from a frame on are read as that frame.        *)
LEMMA FoundFrame ==
    ASSUME NEW L \in SUBSET Item, NEW w \in Seq(Byte), NEW sent, Layout(L, w, sent), NEW x \in L,
           NEW t \in Seq(Byte), Len(t) >= HeaderLen, \A i \in 1..Len(t) : t[i] = w[x.at + i]
    PROVE  /\ TotalLen(t) = Len(x.s)
           /\ Len(x.s) <= Len(t) => SubSeq(t, 1, TotalLen(t)) = x.s
<1>1. /\ x \in Item /\ Shaped(x.s)
      /\ \A i \in 1..Len(x.s) : w[x.at + i] = x.s[i]
    BY LayoutItem
<1>2. Len(x.s) \in Nat /\ Len(x.s) >= 8 /\ x.s \in Seq(Byte) /\ Len(t) \in Nat /\ Len(t) >= 8
    BY <1>1, ItemFacts, LenProperties DEF Item, HeaderLen
<1>3. ASSUME NEW i \in 1..Len(x.s), i <= Len(t) PROVE t[i] = x.s[i]
    <2>1. i \in 1..Len(t)
        BY <1>2, <1>3
    <2> QED BY <1>1, <2>1
<1>4. TotalLen(t) = Len(x.s)
    <2>1. ASSUME NEW i \in 1..HeaderLen PROVE t[i] = x.s[i]
        <3>1. i \in 1..Len(x.s) /\ i <= Len(t)
            BY <1>2 DEF HeaderLen
        <3> QED BY <1>3, <3>1
    <2> QED BY <1>1, <2>1, SameHeader
<1>5. ASSUME Len(x.s) <= Len(t) PROVE SubSeq(t, 1, Len(x.s)) = x.s
    <2>1. Len(x.s) \in 0..Len(t)
        BY <1>2, <1>5
    <2>2. /\ SubSeq(t, 1, Len(x.s)) \in Seq(Byte) /\ Len(SubSeq(t, 1, Len(x.s))) = Len(x.s)
          /\ \A i \in 1..Len(x.s) : SubSeq(t, 1, Len(x.s))[i] = t[i]
        BY <2>1, ReceivedProperties
    <2>3. \A i \in 1..Len(x.s) : SubSeq(t, 1, Len(x.s))[i] = x.s[i]
        BY <1>2, <1>3, <1>5, <2>2
    <2> QED BY <1>2, <2>2, <2>3, SeqEqual
<1> QED BY <1>4, <1>5

LEMMA TakeKeepsParse ==
    ASSUME FramerInv, ParseInv, Take
    PROVE  ParseInv'
<1> DEFINE s == FromStart(buf)
           q == got - Len(s)
           k == Len(frames)
           raw == SubSeq(s, 1, TotalLen(s))
<1>1. /\ Whole(s) /\ wire' = wire /\ got' = got /\ intact' = intact /\ clean' = clean
      /\ frames' = IF Sound(raw) THEN Append(frames, FrameOf(raw)) ELSE frames
      /\ Len(buf') = Len(s) - TotalLen(s)
    BY TakeKeepsInv DEF Take
<1>2. intact \in Seq(Sends) /\ Len(intact) \in Nat
    BY LenProperties DEF ParseInv
<1>3. SUFFICES ASSUME clean
               PROVE  /\ frames' \in Seq(Sends) /\ Len(frames') <= Len(intact)
                      /\ \A i \in 1..Len(frames') : frames'[i] = intact[i]
                      /\ \E L \in SUBSET Item :
                            Layout(L, wire, intact) /\ Placed(L, got - Len(buf'), Len(frames'))
    BY <1>1, <1>2 DEF ParseInv
<1>4. /\ frames \in Seq(Sends) /\ k \in 0..Len(intact)
      /\ \A i \in 1..k : frames[i] = intact[i]
    BY <1>3, LenProperties DEF ParseInv
<1>5. PICK L \in SUBSET Item : Layout(L, wire, intact) /\ Placed(L, got - Len(buf), Len(frames))
    BY <1>3 DEF ParseInv
<1>6. /\ wire \in Seq(Byte) /\ Len(wire) \in Nat /\ got \in Nat /\ got <= Len(wire)
      /\ s \in Seq(Byte) /\ Len(s) \in 0..got /\ Len(s) \in Nat
      /\ \A i \in 1..Len(s) : s[i] = wire[q + i]
      /\ Len(s) > 0 => s[1] = FrameStart
    BY BufferBytes, SearchBytes
<1>7. Placed(L, q, k)
    BY <1>2, <1>4, <1>5, PlacedAtStart
<1> HIDE DEF s, q, k, raw
<1>8. Len(s) >= HeaderLen /\ Len(s) >= TotalLen(s) /\ Len(s) >= 8
    BY <1>1 DEF Whole, HeaderLen
<1>9. q \in Nat /\ q < Len(wire) /\ wire[q + 1] = FrameStart
    <2>1. 1 \in 1..Len(s)
        BY <1>6, <1>8
    <2>2. wire[q + 1] = FrameStart
        BY <1>6, <1>8, <2>1
    <2> QED BY <1>6, <1>8, <2>2 DEF q
<1>10. k \in Nat
    BY <1>4
<1>11. PICK x \in L : x.at = q
    BY <1>5, <1>6, <1>7, <1>9, <1>10, FrameAt
<1>12. TotalLen(s) = Len(x.s) /\ raw = x.s
    <2>1. /\ TotalLen(s) = Len(x.s)
          /\ Len(x.s) <= Len(s) => SubSeq(s, 1, TotalLen(s)) = x.s
        BY <1>5, <1>6, <1>8, <1>11, FoundFrame
    <2> QED BY <1>8, <2>1 DEF raw
<1>13. x \in Item /\ Shaped(x.s) /\ Carries(x, intact)
    BY <1>5, LayoutItem
<1>14. got - Len(buf') = End(x)
    <2>1. x.at \in Nat /\ Len(x.s) \in Nat /\ End(x) = x.at + Len(x.s)
        BY <1>13, ItemFacts
    <2> QED BY <1>1, <1>6, <1>11, <1>12, <2>1 DEF q
<1>15. /\ x.n = 0 => Placed(L, End(x), k)
       /\ x.n > 0 => x.n = k + 1 /\ x.n \in 1..Len(intact) /\ Placed(L, End(x), k + 1)
    BY <1>2, <1>4, <1>5, <1>6, <1>7, <1>11, PlacedTakes
<1>16. CASE x.n = 0
    <2>1. frames' = frames
        BY <1>1, <1>12, <1>13, <1>16 DEF Carries
    <2> QED BY <1>2, <1>4, <1>5, <1>14, <1>15, <1>16, <2>1 DEF k
<1>17. CASE x.n > 0
    <2> DEFINE f == intact[x.n]
    <2>1. f \in Sends /\ raw = Build(f)
        BY <1>2, <1>12, <1>13, <1>15, <1>17, ElementOfSeq DEF Carries
    <2>2. Sound(raw) /\ FrameOf(raw) = f
        BY <2>1, BuildSound
    <2>3. frames' = Append(frames, f)
        BY <1>1, <2>2
    <2>4. /\ frames' \in Seq(Sends) /\ Len(frames') = k + 1 /\ frames'[k + 1] = f
          /\ \A i \in 1..k : frames'[i] = frames[i]
        <3> HIDE DEF f
        <3> QED BY <1>4, <2>1, <2>3, AppendProperties DEF k
    <2>5. Len(frames') <= Len(intact)
        BY <1>2, <1>10, <1>15, <1>17, <2>4
    <2>6. ASSUME NEW i \in 1..(k + 1) PROVE frames'[i] = intact[i]
        <3>1. CASE i = k + 1
            BY <1>15, <1>17, <2>4, <3>1
        <3>2. CASE i # k + 1
            <4>1. i \in 1..k
                BY <1>10, <3>2
            <4> QED BY <1>4, <2>4, <4>1
        <3> QED BY <3>1, <3>2
    <2> QED BY <1>5, <1>14, <1>15, <1>17, <2>4, <2>5, <2>6
<1>18. x.n = 0 \/ x.n > 0
    BY <1>13, ItemFacts
<1> QED BY <1>16, <1>17, <1>18

LEMMA ParseInvariant == Spec => [](FramerInv /\ ParseInv)
<1>1. Init => ParseInv
    BY InitParse
<1>2. FramerInv /\ ParseInv /\ [Next]_vars => ParseInv'
    <2> SUFFICES ASSUME FramerInv, ParseInv, [Next]_vars PROVE ParseInv'
        OBVIOUS
    <2>1. ASSUME NEW f \in Sends, SendFrame(f) PROVE ParseInv'
        BY <2>1, SendFrameKeepsParse
    <2>2. ASSUME NEW f \in Sends, SendDamaged(f) PROVE ParseInv'
        BY <2>2, SendDamagedKeepsParse
    <2>3. ASSUME NEW noise \in Noise, SendNoise(noise) PROVE ParseInv'
        BY <2>3, SendNoiseKeepsParse
    <2>4. CASE Read
        BY <2>4, ReadKeepsParse
    <2>5. CASE Await
        BY <2>5, AwaitKeepsParse
    <2>6. CASE Take
        BY <2>6, TakeKeepsParse
    <2>7. CASE UNCHANGED vars
        BY <2>7 DEF vars, ParseInv
    <2> QED BY <2>1, <2>2, <2>3, <2>4, <2>5, <2>6, <2>7 DEF Next
<1> QED BY <1>1, <1>2, FramerInvariant, PTL DEF Spec

LEMMA ParsedAll == FramerInv /\ ParseInv => IntactReturned
<1> SUFFICES ASSUME FramerInv, ParseInv, ~busy, got = Len(wire), clean
             PROVE  frames = intact
    BY DEF IntactReturned
<1> DEFINE k == Len(frames)
           l == Len(buf)
           p == got - l
<1>1. /\ frames \in Seq(Sends) /\ intact \in Seq(Sends) /\ k \in Nat /\ Len(intact) \in Nat
      /\ k <= Len(intact) /\ \A i \in 1..k : frames[i] = intact[i]
    BY LenProperties DEF ParseInv
<1>2. PICK L \in SUBSET Item : Layout(L, wire, intact) /\ Placed(L, p, k)
    BY DEF ParseInv
<1>3. /\ wire \in Seq(Byte) /\ Len(wire) \in Nat /\ got \in Nat /\ buf \in Seq(Byte) /\ l \in 0..got
      /\ \A i \in 1..l : buf[i] = wire[p + i]
    BY BufferBytes
<1> HIDE DEF k, l, p
<1>4. ASSUME k < Len(intact) PROVE FALSE
    <2>1. k + 1 \in 1..Len(intact)
        BY <1>1, <1>4
    <2>2. PICK x \in L : x.n = k + 1
        BY <1>2, <2>1 DEF Layout
    <2>3. x \in Item /\ Shaped(x.s) /\ End(x) <= Len(wire)
        BY <1>2, LayoutItem
    <2>4. x.at \in Nat /\ End(x) \in Nat /\ End(x) >= x.at + 8
        BY <2>3, ItemFacts
    <2>5. ~(x.at < p)
        BY <1>1, <1>2, <2>2 DEF Placed
    <2>6. l >= 8 /\ p \in Nat /\ p < Len(wire)
        BY <1>3, <2>3, <2>4, <2>5 DEF p
    <2>7. buf[1] = FrameStart /\ ~Whole(buf)
        <3>1. buf # <<>>
            BY <2>6, EmptySeq DEF l
        <3> QED BY <3>1 DEF FramerInv, NothingHeldBack
    <2>8. wire[p + 1] = FrameStart
        <3>1. 1 \in 1..l
            BY <1>3, <2>6
        <3> QED BY <1>3, <2>7, <3>1
    <2>9. PICK y \in L : y.at = p
        BY <1>1, <1>2, <1>3, <2>6, <2>8, FrameAt
    <2>10. TotalLen(buf) = Len(y.s)
        <3>1. Len(buf) >= HeaderLen /\ \A i \in 1..Len(buf) : buf[i] = wire[y.at + i]
            BY <1>3, <2>6, <2>9 DEF l, HeaderLen
        <3> QED BY <1>2, <1>3, <3>1, FoundFrame
    <2>11. y \in Item /\ Shaped(y.s) /\ End(y) <= Len(wire)
        BY <1>2, LayoutItem
    <2>12. Len(y.s) \in Nat /\ End(y) = y.at + Len(y.s)
        BY <2>11, ItemFacts
    <2>13. Len(buf) >= HeaderLen /\ Len(buf) >= TotalLen(buf)
        BY <1>3, <2>6, <2>9, <2>10, <2>11, <2>12 DEF p, l, HeaderLen
    <2> QED BY <2>7, <2>13 DEF Whole
<1>5. k = Len(intact)
    BY <1>1, <1>4
<1> QED BY <1>1, <1>5, SeqEqual DEF k

(* Once everything sent was read, exactly the frames that arrived intact     *)
(* were returned, in their order, for any frames, noise and cuts, as long as *)
(* the checksum tells a damaged frame (protocol.rs:31-81).                   *)
THEOREM AlwaysIntactReturned == Spec => []IntactReturned
<1>1. FramerInv /\ ParseInv => IntactReturned
    BY ParsedAll
<1> QED BY <1>1, ParseInvariant, PTL

-----------------------------------------------------------------------------
(* What is drained is a frame, whatever the bytes (protocol.rs:74).          *)
LEMMA FrameOfTyped ==
    ASSUME NEW s \in Seq(Byte), Whole(s)
    PROVE  FrameOf(SubSeq(s, 1, TotalLen(s))) \in Frame
<1> DEFINE n == TotalLen(s)
           raw == SubSeq(s, 1, n)
           l == s[6]
<1>1. Len(s) \in Nat /\ Len(s) >= 8 /\ n \in 0..Len(s)
    BY TotalLenOfWhole DEF Whole, HeaderLen
<1>2. \A i \in 1..Len(s) : s[i] \in Nat /\ s[i] <= 255
    <2> SUFFICES ASSUME NEW i \in 1..Len(s) PROVE s[i] \in Nat /\ s[i] <= 255
        OBVIOUS
    <2>1. s[i] \in Byte
        BY <1>1, ElementOfSeq
    <2>2. \A x \in Byte : x \in Nat /\ x <= 255
        BY DEF Byte
    <2> QED BY <2>1, <2>2
<1>3. l \in Nat /\ l <= 255
    BY <1>1, <1>2
<1>4. n \in Nat /\ n >= 8 + l
    <2> DEFINE crcLen == IF HasCrc(s) THEN 2 ELSE 0
    <2>1. n = 8 + l + crcLen /\ crcLen \in {0, 2}
        BY DEF TotalLen, HeaderLen, CrcLen
    <2> HIDE DEF crcLen, l, n
    <2> QED BY <1>3, <2>1
<1>5. raw \in Seq(Byte) /\ Len(raw) = n /\ \A i \in 1..n : raw[i] = s[i]
    <2> HIDE DEF n
    <2> QED BY <1>1, ReceivedProperties
<1> HIDE DEF n, raw, l
<1>6. raw[4] = s[4] /\ raw[5] = s[5] /\ raw[6] = l /\ raw[8] = s[8]
    BY <1>3, <1>4, <1>5 DEF l
<1>7. raw[4] + 256 * raw[5] \in Word
    <2> DEFINE a == raw[4]
               b == raw[5]
    <2>1. a \in Nat /\ a <= 255 /\ b \in Nat /\ b <= 255
        BY <1>1, <1>2, <1>6
    <2> HIDE DEF a, b
    <2>2. a + 256 * b \in Word
        BY <2>1 DEF Word
    <2> QED BY <2>2 DEF a, b
<1>8. raw[8] \in Byte
    <2>1. 8 \in 1..Len(s)
        BY <1>1
    <2> QED BY <1>6, <2>1, ElementOfSeq
<1>9. SubSeq(raw, 9, 8 + l) \in Seq(Byte)
    <2>1. ASSUME NEW i \in 9..(8 + l) PROVE raw[i] \in Byte
        <3>1. i \in 1..Len(raw)
            BY <1>3, <1>4, <1>5
        <3> QED BY <1>5, <3>1, ElementOfSeq
    <2> QED BY <1>3, <1>4, <2>1, SubSeqProperties
<1>10. FrameOf(raw) \in Frame
    BY <1>6, <1>7, <1>8, <1>9 DEF FrameOf, Frame, HeaderLen
<1> QED BY <1>10 DEF raw, n

(* Bytes stay bytes and frames frames, for any frames, noise and checksum.   *)
THEOREM AlwaysTyped == Spec => []FramerTypeOK
<1>1. Init => FramerTypeOK
    <2> SUFFICES ASSUME Init PROVE FramerTypeOK
        OBVIOUS
    <2>1. <<>> \in Seq(Byte) /\ <<>> \in Seq(Frame) /\ <<>> \in Seq(Sends) /\ Len(<<>>) = 0
        BY EmptySeq
    <2>2. wire = <<>> /\ got = 0 /\ buf = <<>> /\ frames = <<>> /\ items = 0 /\ intact = <<>>
        BY DEF Init
    <2>3. busy \in BOOLEAN /\ clean \in BOOLEAN
        BY DEF Init
    <2>4. got \in 0..Len(wire) /\ items \in 0..MaxItems
        BY <2>1, <2>2, MaxItemsAssumption
    <2> QED BY <2>1, <2>2, <2>3, <2>4 DEF FramerTypeOK
<1>2. FramerInv /\ FramerTypeOK /\ FramerInv' /\ [Next]_vars => FramerTypeOK'
    <2> SUFFICES ASSUME FramerTypeOK, FramerInv, FramerInv', [Next]_vars PROVE FramerTypeOK'
        OBVIOUS
    <2>1. wire' \in Seq(Byte) /\ got' \in 0..Len(wire') /\ buf' \in Seq(Byte) /\ busy' \in BOOLEAN
        BY DEF FramerInv
    <2>2. ASSUME NEW s, Send(s) PROVE frames' = frames /\ items' \in 0..MaxItems
        BY <2>2, MaxItemsAssumption DEF Send, FramerTypeOK
    <2>3. ASSUME NEW f \in Sends, SendFrame(f) PROVE FramerTypeOK'
        <3>1. intact' \in Seq(Sends)
            BY <2>3, AppendProperties DEF SendFrame, FramerTypeOK
        <3> QED BY <2>1, <2>2, <2>3, <3>1 DEF SendFrame, FramerTypeOK
    <2>4. ASSUME NEW f \in Sends, SendDamaged(f) PROVE FramerTypeOK'
        <3>1. intact' = intact /\ frames' = frames /\ items' \in 0..MaxItems
            BY <2>2, <2>4 DEF SendDamaged
        <3>2. clean' \in BOOLEAN
            BY <2>4 DEF SendDamaged
        <3> QED BY <2>1, <3>1, <3>2 DEF FramerTypeOK
    <2>5. ASSUME NEW noise \in Noise, SendNoise(noise) PROVE FramerTypeOK'
        <3>1. intact' = intact /\ frames' = frames /\ items' \in 0..MaxItems
            BY <2>2, <2>5 DEF SendNoise
        <3>2. clean' \in BOOLEAN
            BY <2>5 DEF SendNoise
        <3> QED BY <2>1, <3>1, <3>2 DEF FramerTypeOK
    <2>6. CASE Read
        BY <2>1, <2>6 DEF Read, FramerTypeOK
    <2>7. CASE Await
        BY <2>1, <2>7 DEF Await, FramerTypeOK
    <2>8. CASE Take
        <3> DEFINE s == FromStart(buf)
                   raw == SubSeq(s, 1, TotalLen(s))
        <3>1. /\ Whole(s) /\ items' = items /\ intact' = intact /\ clean' = clean
              /\ frames' = IF Sound(raw) THEN Append(frames, FrameOf(raw)) ELSE frames
            BY <2>8 DEF Take
        <3>2. FrameOf(raw) \in Frame
            BY <3>1, SearchBytes, FrameOfTyped
        <3> HIDE DEF raw
        <3>3. frames \in Seq(Frame)
            BY DEF FramerTypeOK
        <3>4. frames' \in Seq(Frame)
            BY <3>1, <3>2, <3>3, AppendProperties
        <3> QED BY <2>1, <3>1, <3>4 DEF FramerTypeOK
    <2>9. CASE UNCHANGED vars
        BY <2>9 DEF vars, FramerTypeOK
    <2> QED BY <2>3, <2>4, <2>5, <2>6, <2>7, <2>8, <2>9 DEF Next
<1> QED BY <1>1, <1>2, FramerInvariant, PTL DEF Spec
===============================================================================
