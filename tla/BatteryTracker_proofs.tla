------------------------ MODULE BatteryTracker_proofs ------------------------
(* The drain histories stay single discharges, whatever the sizes and levels. *)
EXTENDS BatteryTracker, SequenceTheorems, TLAPS

History == [samples : Seq(Sample), tail : 0..(N + 1)]

LastLevel(h) == h.samples[Len(h.samples)].level

(* The report in flight is the one whose charging buds are known.            *)
ReportsSound == packet # NoPacket => charging = {s \in Side : packet[s] = Charging}

BatteryInv == BatteryTypeOK /\ OneDischarge /\ ChargingForgets /\ ReportsSound

-----------------------------------------------------------------------------
(* The sizes, one by one.                                                    *)
LEMMA Sizes == /\ N \in Nat /\ Keep \in Nat /\ MaxTime \in Nat /\ MinSamples \in Nat
               /\ 0 < Keep /\ Keep < N /\ 1 < MinSamples
BY SizeAssumption

(* A sample has a time and a level that are numbers.                         *)
LEMMA SampleParts ==
    ASSUME NEW s \in Seq(Sample)
    PROVE  /\ Len(s) \in Nat
           /\ \A k \in 1..Len(s) : s[k] \in Sample /\ s[k].time \in Nat /\ s[k].level \in Nat
<1>1. 0..MaxTime \subseteq Nat /\ Level \subseteq Nat
    BY Sizes, LevelAssumption
<1>2. \A k \in 1..Len(s) : s[k] \in [time : 0..MaxTime, level : Level, counted : BOOLEAN]
    BY ElementOfSeq DEF Sample
<1>3. \A k \in 1..Len(s) : s[k].time \in 0..MaxTime /\ s[k].level \in Level
    BY <1>2
<1> QED BY <1>1, <1>2, <1>3, LenProperties DEF Sample

(* The most recent samples are a sequence with their order kept.             *)
LEMMA NewestIsSuffix ==
    ASSUME NEW s \in Seq(Sample), NEW count \in Nat, 0 < count, count <= Len(s)
    PROVE  /\ Newest(count, s) \in Seq(Sample)
           /\ Len(Newest(count, s)) = count
           /\ \A i \in 1..count : Newest(count, s)[i] = s[Len(s) - count + i]
<1> DEFINE first == Len(s) - count + 1
<1>1. Len(s) \in Nat /\ first \in 1..Len(s)
    BY LenProperties
<1>2. \A i \in first..Len(s) : s[i] \in Sample
    BY <1>1, ElementOfSeq
<1>3. /\ SubSeq(s, first, Len(s)) \in Seq(Sample)
      /\ Len(SubSeq(s, first, Len(s))) = Len(s) - first + 1
      /\ \A i \in 1..(Len(s) - first + 1) : SubSeq(s, first, Len(s))[i] = s[first + i - 1]
    BY <1>1, <1>2, SubSeqProperties
<1> QED BY <1>1, <1>3 DEF Newest

(* Trimming keeps a discharge a discharge, and its newest level.             *)
LEMMA TrimKeepsDischarge ==
    ASSUME NEW h \in History, Discharge(h), now \in 0..MaxTime
    PROVE  /\ Trimmed(h) \in History
           /\ Discharge(Trimmed(h))
           /\ h.samples = <<>> => Trimmed(h).samples = <<>>
           /\ h.samples # <<>> => /\ Trimmed(h).samples # <<>>
                                  /\ LastLevel(Trimmed(h)) = LastLevel(h)
<1>1. h.samples \in Seq(Sample) /\ Len(h.samples) \in Nat
    BY LenProperties DEF History
<1>2. CASE Len(h.samples) <= Keep
    BY <1>2 DEF Trimmed
<1>3. CASE ~(Len(h.samples) <= Keep)
    <2> DEFINE s == h.samples
               n == Newest(Keep, s)
    <2>1. /\ n \in Seq(Sample) /\ Len(n) = Keep
          /\ \A i \in 1..Keep : n[i] = s[Len(s) - Keep + i]
        BY <1>1, <1>3, NewestIsSuffix, Sizes
    <2>2. Trimmed(h) = [samples |-> n, tail |-> Keep]
        BY <1>3 DEF Trimmed
    <2>3. Trimmed(h) \in History
        BY <2>1, <2>2, Sizes DEF History
    <2>4. Discharge(Trimmed(h))
        <3>1. \A i \in 1..Keep : Len(s) - Keep + i \in 1..Len(s)
            BY <1>1, <1>3, Sizes
        <3>2. \A k \in 1..Keep : n[k].time <= now
            BY <2>1, <3>1 DEF Discharge
        <3>3. ASSUME NEW i \in 1..Keep, NEW j \in 1..Keep, i < j
              PROVE  n[j].level < n[i].level /\ n[i].time <= n[j].time
            <4> DEFINE a == Len(s) - Keep + i
                       b == Len(s) - Keep + j
            <4>1. a \in 1..Len(s) /\ b \in 1..Len(s) /\ a < b
                BY <1>1, <3>1, <3>3, Sizes
            <4>2. n[i] = s[a] /\ n[j] = s[b]
                BY <2>1
            <4> HIDE DEF a, b, n
            <4> QED BY <4>1, <4>2 DEF Discharge
        <3> HIDE DEF n
        <3> QED BY <2>1, <2>2, <3>2, <3>3, Sizes DEF Discharge
    <2>5. s # <<>> /\ n # <<>>
        BY <1>1, <1>3, <2>1, EmptySeq, Sizes
    <2>6. n[Keep] = s[Len(s)]
        BY <1>1, <2>1, Sizes
    <2> QED BY <2>1, <2>2, <2>3, <2>4, <2>5, <2>6 DEF LastLevel
<1> QED BY <1>2, <1>3

(* Marking samples as counted changes neither times nor levels.              *)
LEMMA CountKeepsDischarge ==
    ASSUME NEW h \in History, Discharge(h), now \in 0..MaxTime
    PROVE  /\ Counted(h) \in History
           /\ Discharge(Counted(h))
           /\ h.samples = <<>> <=> Counted(h).samples = <<>>
           /\ h.samples # <<>> => LastLevel(Counted(h)) = LastLevel(h)
<1> DEFINE s == h.samples
           c == [k \in 1..Len(s) |-> [s[k] EXCEPT !.counted = TRUE]]
<1>1. s \in Seq(Sample) /\ Len(s) \in Nat
    BY LenProperties DEF History
<1>2. \A k \in 1..Len(s) : s[k] \in Sample
    BY <1>1, ElementOfSeq
<1>3. \A k \in 1..Len(s) : c[k] \in Sample /\ c[k].time = s[k].time /\ c[k].level = s[k].level
    BY <1>2 DEF Sample
<1>4. c \in [1..Len(s) -> Sample]
    BY <1>3
<1>5. c \in Seq(Sample) /\ Len(c) = Len(s)
    BY <1>1, <1>4
<1>6. Counted(h).samples = c /\ Counted(h) \in History
    BY <1>5 DEF Counted, History
<1>7. s = <<>> <=> c = <<>>
    BY <1>1, <1>5, EmptySeq
<1>8. Discharge(Counted(h))
    BY <1>1, <1>3, <1>5, <1>6 DEF Discharge
<1>9. s # <<>> => Len(s) \in 1..Len(s)
    BY <1>1, EmptySeq
<1> QED BY <1>3, <1>5, <1>6, <1>7, <1>8, <1>9 DEF LastLevel

(* A lower level, taken now, extends a discharge.                            *)
LEMMA PushKeepsDischarge ==
    ASSUME NEW h \in History, Discharge(h), now \in 0..MaxTime, NEW level \in Level,
           h.samples # <<>> => level < LastLevel(h)
    PROVE  LET p == Pushed(h, [time |-> now, level |-> level, counted |-> FALSE]) IN
           p \in History /\ Discharge(p) /\ p.samples # <<>> /\ LastLevel(p) = level
<1> DEFINE new == [time |-> now, level |-> level, counted |-> FALSE]
           s == h.samples
           kept == IF Len(s) = N THEN Tail(s) ELSE s
           off == IF Len(s) = N THEN 1 ELSE 0
           p == Pushed(h, new)
<1>1. s \in Seq(Sample) /\ Len(s) \in Nat /\ Len(s) <= N /\ new \in Sample
    BY LenProperties DEF History, Discharge, Sample
<1>2. /\ kept \in Seq(Sample) /\ Len(kept) = Len(s) - off
      /\ \A i \in 1..Len(kept) : kept[i] = s[i + off]
    <2>1. CASE Len(s) # N
        BY <1>1, <2>1, Sizes
    <2>2. CASE Len(s) = N
        <3>1. s # <<>>
            BY <1>1, <2>2, EmptySeq, Sizes
        <3> QED BY <1>1, <2>2, <3>1, HeadTailProperties
    <2> QED BY <2>1, <2>2
<1>3. /\ p.samples = Append(kept, new)
      /\ p.samples \in Seq(Sample)
      /\ Len(p.samples) = Len(kept) + 1
      /\ \A i \in 1..Len(kept) : p.samples[i] = kept[i]
      /\ p.samples[Len(kept) + 1] = new
    BY <1>1, <1>2 DEF Pushed
<1>4. p \in History
    BY <1>3, Sizes DEF Pushed, History
<1>10. new.time = now /\ new.level = level /\ now \in Nat /\ off \in {0, 1} /\ Len(kept) \in Nat
    BY <1>2, LenProperties
<1> HIDE DEF p, kept, off, new
<1>5. \A i \in 1..Len(kept) : /\ i + off \in 1..Len(s)
                              /\ p.samples[i] = s[i + off]
    <2> TAKE i \in 1..Len(kept)
    <2>1. Len(kept) = Len(s) - off /\ kept[i] = s[i + off]
        BY <1>2
    <2>2. i + off \in 1..Len(s)
        BY <1>1, <1>10, <2>1
    <2> QED BY <1>3, <2>1, <2>2
<1>6. \A k \in 1..Len(s) : level < s[k].level /\ s[k].time <= now
    <2> TAKE k \in 1..Len(s)
    <2>1. Len(s) \in 1..Len(s) /\ s[k].level \in Nat /\ s[Len(s)].level \in Nat
        BY <1>1, SampleParts
    <2>2. level < s[Len(s)].level
        BY <1>1, EmptySeq DEF LastLevel
    <2>3. k = Len(s) \/ s[Len(s)].level < s[k].level
        BY <1>1 DEF Discharge
    <2>4. s[k].time <= now
        BY DEF Discharge
    <2>5. level \in Nat
        BY LevelAssumption
    <2> QED BY <2>1, <2>2, <2>3, <2>4, <2>5
<1>7. Discharge(p)
    <2>1. Len(p.samples) <= N
        <3>1. Len(s) = N => off = 1
            BY DEF off
        <3> QED BY <1>1, <1>2, <1>3, <1>10, <3>1, Sizes
    <2>2. \A k \in 1..Len(p.samples) : p.samples[k].time <= now
        <3> TAKE k \in 1..Len(p.samples)
        <3>1. CASE k \in 1..Len(kept)
            BY <1>5, <1>6, <3>1
        <3>2. CASE k = Len(kept) + 1
            BY <1>3, <1>10, <3>2
        <3> QED BY <1>3, <1>10, <3>1, <3>2
    <2>3. ASSUME NEW i \in 1..Len(p.samples), NEW j \in 1..Len(p.samples), i < j
          PROVE  /\ p.samples[j].level < p.samples[i].level
                 /\ p.samples[i].time <= p.samples[j].time
        <3>1. i \in 1..Len(kept)
            BY <1>3, <1>10, <2>3
        <3>2. CASE j \in 1..Len(kept)
            <4>1. /\ i + off \in 1..Len(s) /\ p.samples[i] = s[i + off]
                  /\ j + off \in 1..Len(s) /\ p.samples[j] = s[j + off]
                BY <1>5, <3>1, <3>2
            <4>2. i + off < j + off
                BY <1>10, <2>3
            <4> QED BY <4>1, <4>2 DEF Discharge
        <3>3. CASE j = Len(kept) + 1
            <4>1. i + off \in 1..Len(s) /\ p.samples[i] = s[i + off] /\ p.samples[j] = new
                BY <1>3, <1>5, <3>1, <3>3
            <4> QED BY <1>6, <1>10, <4>1
        <3> QED BY <1>3, <1>10, <3>2, <3>3
    <2> QED BY <2>1, <2>2, <2>3 DEF Discharge
<1>8. p.samples # <<>> /\ LastLevel(p) = level
    BY <1>3, <1>10, EmptySeq DEF LastLevel
<1> QED BY <1>4, <1>7, <1>8 DEF p, new

-----------------------------------------------------------------------------
(* No report, and nothing recorded of it, takes a history out of a discharge *)
(* or raises its newest level.                                               *)
LEMMA RecordKeepsDischarge ==
    ASSUME NEW h \in History, Discharge(h), now \in 0..MaxTime, NEW report \in Report
    PROVE  LET r == Recorded(h, report) IN
           /\ r \in History
           /\ Discharge(r)
           /\ report = Charging => r.samples = <<>>
           /\ h.samples # <<>> /\ r.samples # <<>> => LastLevel(r) <= LastLevel(h)
<1>1. Empty \in History /\ Discharge(Empty) /\ Empty.samples = <<>>
    BY Sizes, EmptySeq DEF Empty, History, Discharge
<1>2. h.samples # <<>> => LastLevel(h) \in Nat
    BY SampleParts, EmptySeq DEF LastLevel, History
<1>3. CASE report = Absent
    BY <1>2, <1>3, ReportAssumption DEF Recorded
<1>4. CASE report = Charging
    BY <1>1, <1>4, ReportAssumption DEF Recorded
<1>5. CASE report \in Level
    <2>1. Recorded(h, report) = RecordDrop(h, report) /\ report # Charging /\ report \in Nat
        BY <1>5, ReportAssumption, LevelAssumption DEF Recorded
    <2>2. CASE h.samples # <<>> /\ report >= LastLevel(h)
        BY <1>2, <2>1, <2>2 DEF RecordDrop, LastLevel
    <2>3. CASE ~(h.samples # <<>> /\ report >= LastLevel(h))
        <3>1. h.samples # <<>> => report < LastLevel(h)
            BY <1>2, <2>1, <2>3
        <3>2. Recorded(h, report)
                = Pushed(h, [time |-> now, level |-> report, counted |-> FALSE])
            BY <2>1, <2>3 DEF RecordDrop, LastLevel
        <3> QED BY <1>2, <1>5, <2>1, <3>1, <3>2, PushKeepsDischarge
    <2> QED BY <2>2, <2>3
<1> QED BY <1>3, <1>4, <1>5 DEF Report

(* A save keeps both histories discharges with their newest levels.          *)
LEMMA SaveKeepsDischarge ==
    ASSUME hist \in [Side -> History], OneDischarge, now \in 0..MaxTime, SaveToStudy
    PROVE  /\ hist' \in [Side -> History]
           /\ \A s \in Side :
                 /\ Discharge(hist'[s])
                 /\ hist[s].samples = <<>> => hist'[s].samples = <<>>
                 /\ hist[s].samples # <<>> => /\ hist'[s].samples # <<>>
                                              /\ LastLevel(hist'[s]) = LastLevel(hist[s])
<1> DEFINE saved == IF studied THEN Rated ELSE {}
           marked(s) == IF s \in saved THEN Counted(hist[s]) ELSE hist[s]
<1>1. hist' = [s \in Side |-> Trimmed(marked(s))]
    BY DEF SaveToStudy
<1>2. \A s \in Side : /\ marked(s) \in History /\ Discharge(marked(s))
                      /\ hist[s].samples = <<>> <=> marked(s).samples = <<>>
                      /\ hist[s].samples # <<>> => LastLevel(marked(s)) = LastLevel(hist[s])
    BY CountKeepsDischarge DEF OneDischarge
<1> HIDE DEF marked
<1>3. \A s \in Side :
        /\ Trimmed(marked(s)) \in History /\ Discharge(Trimmed(marked(s)))
        /\ marked(s).samples = <<>> => Trimmed(marked(s)).samples = <<>>
        /\ marked(s).samples # <<>> => /\ Trimmed(marked(s)).samples # <<>>
                                       /\ LastLevel(Trimmed(marked(s))) = LastLevel(marked(s))
    BY <1>2, TrimKeepsDischarge
<1> QED BY <1>1, <1>2, <1>3

-----------------------------------------------------------------------------
(* The initial state satisfies the invariant.                                *)
LEMMA BatteryInitInv == Init => BatteryInv
<1> SUFFICES ASSUME Init PROVE BatteryInv
    OBVIOUS
<1>1. Empty \in History /\ Empty.samples = <<>> /\ Discharge(Empty)
    BY Sizes, EmptySeq DEF Empty, History, Discharge
<1>2. hist \in [Side -> History] /\ \A s \in Side : hist[s] = Empty
    BY <1>1 DEF Init
<1>3. BatteryTypeOK
    <2>1. {reading, connected, saveDue, opening, studied} \subseteq BOOLEAN
        BY DEF Init
    <2>2. now \in 0..MaxTime /\ charging \subseteq Side /\ packet = NoPacket
        BY Sizes DEF Init
    <2> QED BY <1>2, <2>1, <2>2 DEF BatteryTypeOK, History
<1>4. OneDischarge /\ ChargingForgets /\ ReportsSound
    BY <1>1, <1>2 DEF Init, OneDischarge, ChargingForgets, ReportsSound
<1> QED BY <1>3, <1>4 DEF BatteryInv

(* Every step preserves the invariant, and no step raises a newest level.    *)
LEMMA BatteryStep ==
    ASSUME BatteryInv, [Next]_vars
    PROVE  /\ BatteryInv'
           /\ \A s \in Side : hist[s].samples # <<>> /\ hist'[s].samples # <<>> =>
                                  LastLevel(hist'[s]) <= LastLevel(hist[s])
<1> DEFINE Falls == \A s \in Side : hist[s].samples # <<>> /\ hist'[s].samples # <<>> =>
                                       LastLevel(hist'[s]) <= LastLevel(hist[s])
<1>1. /\ hist \in [Side -> History] /\ now \in 0..MaxTime /\ now \in Nat
      /\ \A s \in Side : hist[s].samples # <<>> => LastLevel(hist[s]) \in Nat
    <2>1. hist \in [Side -> History] /\ now \in 0..MaxTime
        BY DEF BatteryInv, BatteryTypeOK, History
    <2>2. \A s \in Side : hist[s].samples \in Seq(Sample)
        BY <2>1 DEF History
    <2> QED BY <2>1, <2>2, SampleParts, EmptySeq, Sizes DEF LastLevel
<1>2. CASE hist' = hist /\ now' = now /\ charging' = charging /\ packet' = packet
           /\ {reading', connected', saveDue', opening', studied'} \subseteq BOOLEAN
    BY <1>1, <1>2 DEF BatteryInv, BatteryTypeOK, OneDischarge, Discharge, ChargingForgets, ReportsSound
<1>3. CASE UNCHANGED vars
    BY <1>2, <1>3 DEF vars, BatteryInv, BatteryTypeOK
<1>4. CASE Connect \/ InitSession
    BY <1>2, <1>4 DEF Connect, InitSession, BatteryInv, BatteryTypeOK
<1>5. CASE TickCheck
    BY <1>2, <1>5 DEF TickCheck, BatteryInv, BatteryTypeOK
<1>6. ASSUME NEW p \in Packet, Receive(p) PROVE BatteryInv' /\ Falls
    <2>1. packet' = p /\ p # NoPacket /\ charging' = {s \in Side : p[s] = Charging}
        BY <1>6, PacketAssumption DEF Receive
    <2> QED BY <1>1, <1>6, <2>1 DEF Receive, BatteryInv, BatteryTypeOK, OneDischarge, Discharge,
                                   ChargingForgets, ReportsSound
<1>7. CASE Record
    <2>1. packet \in Packet /\ \A s \in Side : packet[s] \in Report
        BY <1>7 DEF Record, BatteryInv, BatteryTypeOK, Packet
    <2>2. \A s \in Side : hist'[s] = Recorded(hist[s], packet[s])
        BY <1>7 DEF Record
    <2>3. \A s \in Side :
            /\ hist'[s] \in History /\ Discharge(hist'[s])
            /\ packet[s] = Charging => hist'[s].samples = <<>>
            /\ hist[s].samples # <<>> /\ hist'[s].samples # <<>> =>
                  LastLevel(hist'[s]) <= LastLevel(hist[s])
        BY <1>1, <2>1, <2>2, RecordKeepsDischarge DEF BatteryInv, OneDischarge
    <2>4. hist' \in [Side -> History]
        BY <1>7, <2>2, <2>3 DEF Record
    <2>5. charging' = {s \in Side : packet[s] = Charging}
        BY <1>7 DEF Record, BatteryInv, ReportsSound
    <2>6. BatteryTypeOK'
        BY <1>7, <2>4 DEF Record, BatteryInv, BatteryTypeOK, History
    <2>7. OneDischarge' /\ ChargingForgets'
        BY <1>7, <2>3, <2>5 DEF Record, OneDischarge, Discharge, ChargingForgets
    <2>8. ReportsSound'
        BY <1>7 DEF Record, BatteryInv, ReportsSound
    <2> QED BY <2>3, <2>6, <2>7, <2>8 DEF BatteryInv
<1>8. ASSUME SaveToStudy, charging' = charging, packet' = packet, studied' = studied, now' = now,
             opening' = opening, {reading', connected', saveDue'} \subseteq BOOLEAN
      PROVE  BatteryInv' /\ Falls
    <2>1. /\ hist' \in [Side -> History]
          /\ \A s \in Side :
                /\ Discharge(hist'[s])
                /\ hist[s].samples = <<>> => hist'[s].samples = <<>>
                /\ hist[s].samples # <<>> => LastLevel(hist'[s]) = LastLevel(hist[s])
        BY <1>1, <1>8, SaveKeepsDischarge DEF BatteryInv
    <2>3. BatteryTypeOK'
        BY <1>8, <2>1 DEF BatteryInv, BatteryTypeOK, History
    <2>4. OneDischarge' /\ ChargingForgets'
        BY <1>8, <2>1 DEF BatteryInv, OneDischarge, Discharge, ChargingForgets, BatteryTypeOK
    <2>5. ReportsSound'
        BY <1>8 DEF BatteryInv, ReportsSound
    <2> QED BY <1>1, <2>1, <2>3, <2>4, <2>5 DEF BatteryInv
<1>9. CASE TickSave
    BY <1>8, <1>9 DEF TickSave, BatteryInv, BatteryTypeOK
<1>10. CASE Disconnect
    BY <1>8, <1>10 DEF Disconnect, BatteryInv, BatteryTypeOK
<1>11. CASE TransportLost
    BY <1>8, <1>11 DEF TransportLost, BatteryInv, BatteryTypeOK
<1>12. CASE TimePasses
    <2>1. now' = now + 1 /\ now' \in 0..MaxTime /\ hist' = hist
        BY <1>1, <1>12, Sizes DEF TimePasses
    <2>2. \A s \in Side : \A k \in 1..Len(hist[s].samples) : hist[s].samples[k].time \in Nat
        BY <1>1, SampleParts DEF History
    <2>3. OneDischarge'
        BY <1>1, <2>1, <2>2 DEF BatteryInv, OneDischarge, Discharge
    <2> QED BY <1>1, <1>12, <2>1, <2>3 DEF TimePasses, BatteryInv, BatteryTypeOK, ChargingForgets,
                                          ReportsSound
<1> QED BY <1>3, <1>4, <1>5, <1>6, <1>7, <1>9, <1>10, <1>11, <1>12 DEF Next

-----------------------------------------------------------------------------
(* The inductive invariant of the tracker.                                   *)
THEOREM BatteryInvariant == Spec => []BatteryInv
<1>1. BatteryInv /\ [Next]_vars => BatteryInv'
    BY BatteryStep
<1> QED BY <1>1, BatteryInitInv, PTL DEF Spec

(* A history is always one discharge, for any sizes, levels and intervals.   *)
THEOREM AlwaysOneDischarge == Spec => []OneDischarge
<1>1. BatteryInv => OneDischarge
    BY DEF BatteryInv
<1> QED BY <1>1, BatteryInvariant, PTL

(* Nothing from before a charge is left once the report is recorded.         *)
THEOREM AlwaysChargingForgets == Spec => []ChargingForgets
<1>1. BatteryInv => ChargingForgets
    BY DEF BatteryInv
<1> QED BY <1>1, BatteryInvariant, PTL

(* The newest level only falls until a charge clears it.                     *)
THEOREM AlwaysNewestFalls == Spec => NewestFalls
<1> DEFINE Falls == \A s \in Side : hist[s].samples # <<>> /\ hist'[s].samples # <<>> =>
                                       hist'[s].samples[Len(hist'[s].samples)].level
                                          <= hist[s].samples[Len(hist[s].samples)].level
<1>1. BatteryInv /\ [Next]_vars => Falls
    BY BatteryStep DEF LastLevel
<1>2. BatteryInv /\ [Next]_vars => [Falls]_vars
    BY <1>1
<1> QED BY <1>2, BatteryInvariant, PTL DEF Spec, NewestFalls

-----------------------------------------------------------------------------
CountedLow(h) == \A k \in 1..Len(h.samples) : h.samples[k].counted => k <= Keep

(* A trimmed history has no room for a counted sample further up.            *)
LEMMA TrimBounds ==
    ASSUME NEW h \in History
    PROVE  Trimmed(h) \in History /\ Len(Trimmed(h).samples) <= Keep /\ CountedLow(Trimmed(h))
<1>1. h.samples \in Seq(Sample) /\ Len(h.samples) \in Nat
    BY LenProperties DEF History
<1>2. CASE Len(h.samples) <= Keep
    BY <1>1, <1>2, Sizes DEF Trimmed, CountedLow
<1>3. CASE ~(Len(h.samples) <= Keep)
    <2>1. Newest(Keep, h.samples) \in Seq(Sample) /\ Len(Newest(Keep, h.samples)) = Keep
        BY <1>1, <1>3, NewestIsSuffix, Sizes
    <2>2. Trimmed(h) = [samples |-> Newest(Keep, h.samples), tail |-> Keep]
        BY <1>3 DEF Trimmed
    <2> QED BY <2>1, <2>2, Sizes DEF CountedLow, History
<1> QED BY <1>2, <1>3

(* A new sample is not counted, and an eviction only moves the others down.  *)
LEMMA RecordKeepsLow ==
    ASSUME NEW h \in History, CountedLow(h), now \in 0..MaxTime, NEW report \in Report
    PROVE  CountedLow(Recorded(h, report))
<1>1. h.samples \in Seq(Sample) /\ Len(h.samples) \in Nat
    BY LenProperties DEF History
<1>2. CASE report \in {Absent, Charging}
    BY <1>2, ReportAssumption, EmptySeq DEF Recorded, CountedLow, Empty
<1>3. CASE report \in Level
    <2> DEFINE new == [time |-> now, level |-> report, counted |-> FALSE]
               s == h.samples
               kept == IF Len(s) = N THEN Tail(s) ELSE s
               off == IF Len(s) = N THEN 1 ELSE 0
    <2>1. Recorded(h, report) = RecordDrop(h, report)
        BY <1>3, ReportAssumption DEF Recorded
    <2>2. new \in Sample /\ new.counted = FALSE
        BY <1>3 DEF Sample
    <2>3. off \in {0, 1} /\ (off = 1 => s # <<>>)
        BY <1>1, Sizes, EmptySeq
    <2>4. /\ kept \in Seq(Sample) /\ Len(kept) = Len(s) - off
          /\ \A k \in 1..Len(kept) : kept[k] = s[k + off]
        <3>1. CASE Len(s) = N
            <4>1. s # <<>>
                BY <1>1, <3>1, Sizes, EmptySeq
            <4> QED BY <1>1, <3>1, <4>1, HeadTailProperties
        <3>2. CASE Len(s) # N
            BY <1>1, <3>2
        <3> QED BY <3>1, <3>2
    <2> HIDE DEF kept, new
    <2>5. /\ Append(kept, new) \in Seq(Sample)
          /\ Len(Append(kept, new)) = Len(kept) + 1
          /\ Append(kept, new)[Len(kept) + 1] = new
          /\ \A k \in 1..Len(kept) : Append(kept, new)[k] = kept[k]
        <3>1. /\ Append(kept, new) \in Seq(Sample)
              /\ Len(Append(kept, new)) = Len(kept) + 1
              /\ \A k \in 1..Len(kept) : Append(kept, new)[k] = kept[k]
            BY <2>2, <2>4, LenProperties
        <3>2. Append(kept, new)[Len(kept) + 1] = new
            BY <2>2, <2>4, AppendProperties, Zenon
        <3> QED BY <3>1, <3>2
    <2>6. Pushed(h, new).samples = Append(kept, new)
        BY DEF Pushed, kept
    <2>7. ASSUME NEW k \in 1..Len(Append(kept, new)), Append(kept, new)[k].counted
          PROVE  k <= Keep
        <3>1. Len(kept) \in Nat /\ k \in 1..(Len(kept) + 1)
            BY <2>4, <2>5, LenProperties
        <3>2. k # Len(kept) + 1
            BY <2>2, <2>5, <2>7
        <3>3. k \in 1..Len(kept)
            BY <3>1, <3>2
        <3>4. Append(kept, new)[k] = s[k + off]
            BY <2>4, <2>5, <3>3
        <3>5. k + off \in 1..Len(s)
            BY <1>1, <2>3, <2>4, <3>3
        <3>6. k + off <= Keep
            BY <2>7, <3>4, <3>5 DEF CountedLow
        <3> QED BY <2>3, <3>3, <3>6, Sizes
    <2>8. CountedLow(Pushed(h, new))
        BY <2>6, <2>7 DEF CountedLow
    <2> QED BY <2>1, <2>8 DEF RecordDrop, new
<1> QED BY <1>2, <1>3 DEF Report

(* What is counted a second time is bounded by what a save keeps.            *)
THEOREM AlwaysRecountBounded == Spec => []RecountBounded
<1>1. Init => RecountBounded
    BY EmptySeq DEF Init, RecountBounded, Empty
<1>2. ASSUME BatteryInv, RecountBounded, [Next]_vars PROVE RecountBounded'
    <2>1. hist \in [Side -> History] /\ now \in 0..MaxTime /\ \A s \in Side : CountedLow(hist[s])
        BY <1>2 DEF BatteryInv, BatteryTypeOK, History, RecountBounded, CountedLow
    <2>2. CASE hist' = hist
        BY <1>2, <2>2 DEF RecountBounded
    <2>3. CASE SaveToStudy
        <3> DEFINE saved == IF studied THEN Rated ELSE {}
                   from(s) == IF s \in saved THEN Counted(hist[s]) ELSE hist[s]
        <3>1. \A s \in Side : hist'[s] = Trimmed(from(s))
            BY <2>3 DEF SaveToStudy
        <3>2. \A s \in Side : from(s) \in History
            BY <1>2, <2>1, CountKeepsDischarge DEF BatteryInv, OneDischarge
        <3> HIDE DEF from
        <3>3. \A s \in Side : CountedLow(hist'[s])
            BY <3>1, <3>2, TrimBounds
        <3> QED BY <3>3 DEF RecountBounded, CountedLow
    <2>4. CASE Record
        <3>1. \A s \in Side : packet[s] \in Report /\ hist'[s] = Recorded(hist[s], packet[s])
            BY <1>2, <2>4 DEF Record, BatteryInv, BatteryTypeOK, Packet
        <3>2. \A s \in Side : CountedLow(hist'[s])
            BY <2>1, <3>1, RecordKeepsLow
        <3> QED BY <3>2 DEF RecountBounded, CountedLow
    <2> QED BY <1>2, <2>2, <2>3, <2>4 DEF Next, vars, Connect, InitSession, Receive,
                                          TickCheck, TickSave, Disconnect, TransportLost,
                                          TimePasses
<1> QED BY <1>1, <1>2, BatteryInvariant, PTL DEF Spec
=============================================================================
