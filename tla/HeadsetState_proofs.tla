-------------------------- MODULE HeadsetState_proofs --------------------------
(* When nothing is under way the cells are what the headset is, and clients   *)
(* have been shown what the service knows: for any headsets, calls, requests, *)
(* followed cells, and any number of changes and of connections lost or cut.  *)
EXTENDS HeadsetState, SequenceTheorems, TLAPS

Kind == {"nothing", "airpods"}
Level == 1..6
Status == 1..7

(* Everything a cell, a report or a setter may carry.                         *)
Values ==
    {None, TRUE, FALSE} \cup Level \cup DOMAIN ModeLevel \cup AncReport
    \cup {r.value : r \in Request}
    \cup {w.value : w \in Wear["nothing"] \cup Wear["airpods"]}
    \cup UNION {{h[a] : a \in DOMAIN h} : h \in First["nothing"] \cup First["airpods"]}

AskedBy(k) == {Asked[k][i] : i \in DOMAIN Asked[k]}

FrameOf(k) == {f \in [of : Has(k), value : Values] : f.of = "anc" => f.value \in AncReport}

AncCommand == {1, 2} \X Status

PacketOf(k) ==
    {p \in [of : Has(k) \cup {"read"}, value : Values \cup AncCommand \cup Has(k) \cup {"all"}] :
        /\ p.of = "read" => p.value \in AskedBy(k) \cup {"all"}
        /\ p.of = "anc" => p.value \in AncCommand
        /\ p.of \notin {"read", "anc"} => p.value \in Values}

(* What calls do, by the kind of headset.                                     *)
Anc(k, r) == k = "nothing" /\ r.of \in {"level", "mode"}

Askable(k) ==
    {r \in Request : IF k = "nothing"
                     THEN r.of \in {"mode", "eq", "ring"} \/ (r.of = "level" /\ r.value \in Level)
                     ELSE r.of \in {"mode", "feature"}}

CallOf(k) ==
    {c \in [pc : {"new", "sending", "storing", "telling", "done", "failed"},
            req : Request \cup {None}, n : {0, 1}] :
        /\ c.pc \in {"sending", "storing"} => c.req \in Askable(k)
        /\ c.pc = "sending" /\ c.n = 1 => Anc(k, c.req) /\ LevelAsked(c.req) \notin {1, 2}
        /\ c.pc = "storing" /\ c.n = 1 => Anc(k, c.req) \/ c.req.of = "feature"}

(* What a processor that outlives its connection has in hand.                *)
OldOf(k) ==
    {o \in [alive : BOOLEAN, rx : Seq(FrameOf(k)), n : 0..2, changed : BOOLEAN] :
        /\ o.n > 0 => o.rx # <<>> /\ o.n <= Len(Updates(Head(o.rx)))
        /\ o.n = 0 => ~o.changed
        /\ o.rx # <<>> => o.alive}

Typed ==
    /\ kind \in Kind /\ link \in {"up", "lost", "down"}
    /\ hw \in [Has(kind) -> Values] /\ (kind = "nothing" => hw["anc"] \in AncReport)
    /\ tx \in Seq(PacketOf(kind)) /\ rx \in Seq(FrameOf(kind))
    /\ proc \in [n : 0..2, changed : BOOLEAN]
    /\ proc.n > 0 => rx # <<>> /\ proc.n <= Len(Updates(Head(rx)))
    /\ proc.n = 0 => ~proc.changed
    /\ old \in OldOf(kind)
    /\ cache \in [Cells -> Values] /\ cache["level"] \in Level \cup {None}
    /\ events \in Nat
    /\ call \in [Caller -> CallOf(kind)]
    /\ disp \in {"idle", "waiting", "telling"}
    /\ view \in [Publisher -> Seq(Values)]
    /\ \A p \in Publisher : Len(view[p]) <= Len(Followed[kind])
    /\ shown \in Seq(Values) /\ Len(shown) = Len(Followed[kind])
    /\ chances \in 0..MaxChances[kind]
    /\ raced \subseteq Cells /\ silent \subseteq Cells /\ lapped \subseteq Publisher
    /\ crossed \in BOOLEAN

-----------------------------------------------------------------------------
(* Sequences.                                                                *)

LEMMA AppendFacts ==
    ASSUME NEW S, NEW s \in Seq(S), NEW e \in S
    PROVE  /\ Append(s, e) \in Seq(S)
           /\ Len(Append(s, e)) = Len(s) + 1
           /\ Append(s, e)[Len(s) + 1] = e
           /\ \A i \in 1..Len(s) : Append(s, e)[i] = s[i]
           /\ Append(s, e) # <<>>
           /\ s # <<>> => Head(Append(s, e)) = Head(s)
<1>1. /\ Append(s, e) \in Seq(S) /\ Len(Append(s, e)) = Len(s) + 1
      /\ Append(s, e)[Len(s) + 1] = e
      /\ \A i \in 1..Len(s) : Append(s, e)[i] = s[i]
      /\ Append(s, e) # <<>>
  OBVIOUS
<1>2. ASSUME s # <<>> PROVE Head(Append(s, e)) = Head(s)
  <2>1. 1 \in 1..Len(s) /\ Head(s) = s[1]
    BY <1>2
  <2>2. Head(Append(s, e)) = Append(s, e)[1]
    BY <1>1
  <2> QED BY <1>1, <2>1, <2>2
<1> QED BY <1>1, <1>2

LEMMA TailFacts ==
    ASSUME NEW S, NEW s \in Seq(S), s # <<>>
    PROVE  /\ Len(s) \in Nat \ {0} /\ Head(s) \in S /\ Head(s) = s[1]
           /\ Tail(s) \in Seq(S) /\ Len(Tail(s)) = Len(s) - 1
           /\ \A i \in 1..(Len(s) - 1) : Tail(s)[i] = s[i + 1]
OBVIOUS

LEMMA PrefixFacts ==
    ASSUME NEW S, NEW s \in Seq(S), NEW k \in 0..Len(s)
    PROVE  /\ SubSeq(s, 1, k) \in Seq(S)
           /\ k > 0 => SubSeq(s, 1, k) # <<>> /\ Head(SubSeq(s, 1, k)) = Head(s)
OBVIOUS

LEMMA ConcatFacts ==
    ASSUME NEW S, NEW s \in Seq(S), NEW t \in Seq(S)
    PROVE  /\ s \o t \in Seq(S) /\ Len(s \o t) = Len(s) + Len(t)
           /\ \A i \in 1..Len(s) : (s \o t)[i] = s[i]
           /\ \A i \in 1..Len(t) : (s \o t)[Len(s) + i] = t[i]
           /\ s # <<>> => s \o t # <<>> /\ Head(s \o t) = Head(s)
OBVIOUS

LEMMA EmptyFacts == ASSUME NEW S PROVE <<>> \in Seq(S) /\ Len(<<>>) = 0
OBVIOUS

-----------------------------------------------------------------------------
(* The protocols.                                                            *)

LEMMA ValueFacts ==
    /\ {None, TRUE, FALSE} \subseteq Values /\ Level \subseteq Values
    /\ DOMAIN ModeLevel \subseteq Values /\ AncReport \subseteq Values
    /\ \A r \in Request : r.value \in Values
    /\ \A k \in Kind : \A w \in Wear[k] : w.value \in Values
    /\ \A k \in Kind : \A h \in First[k] : \A a \in Has(k) : h[a] \in Values
<1>1. ASSUME NEW r \in Request PROVE r.value \in Values
  BY DEF Values
<1>2. ASSUME NEW k \in Kind, NEW w \in Wear[k] PROVE w.value \in Values
  <2>1. w \in Wear["nothing"] \cup Wear["airpods"]
    BY <1>2 DEF Kind
  <2> QED BY <2>1 DEF Values
<1>3. ASSUME NEW k \in Kind, NEW h \in First[k], NEW a \in Has(k) PROVE h[a] \in Values
  <2>1. h \in First["nothing"] \cup First["airpods"] /\ a \in DOMAIN h
    <3>1. h = [b \in Has(k) |-> h[b]]
      BY HeadsetAssumption DEF Kind
    <3> QED BY <1>3, <3>1 DEF Kind
  <2>2. h[a] \in UNION {{g[b] : b \in DOMAIN g} : g \in First["nothing"] \cup First["airpods"]}
    BY <2>1
  <2> QED BY <2>2 DEF Values
<1>4. {None, TRUE, FALSE} \subseteq Values /\ Level \subseteq Values
  BY DEF Values
<1>5. DOMAIN ModeLevel \subseteq Values /\ AncReport \subseteq Values
  BY DEF Values
<1> QED BY <1>1, <1>2, <1>3, <1>4, <1>5

LEMMA StatusTable == \A s \in Status : StatusLevel[s] \in 0..6
<1> SUFFICES ASSUME NEW s \in Status PROVE StatusLevel[s] \in 0..6
  OBVIOUS
<1>1. s = 1 \/ s = 2 \/ s = 3 \/ s = 4 \/ s = 5 \/ s = 6 \/ s = 7
  BY DEF Status
<1> QED BY <1>1 DEF StatusLevel

LEMMA LevelTable ==
    \A l \in Level : /\ LevelStatus[l] \in Status /\ StatusLevel[LevelStatus[l]] = l
                     /\ LevelStatus[l] \in {5, 7} <=> l \in {1, 2}
                     /\ LevelMode[l] \in DOMAIN ModeLevel
<1> SUFFICES ASSUME NEW l \in Level
             PROVE  /\ LevelStatus[l] \in Status /\ StatusLevel[LevelStatus[l]] = l
                    /\ LevelStatus[l] \in {5, 7} <=> l \in {1, 2}
                    /\ LevelMode[l] \in DOMAIN ModeLevel
  OBVIOUS
<1>1. l = 1 \/ l = 2 \/ l = 3 \/ l = 4 \/ l = 5 \/ l = 6
  BY DEF Level
<1>2. LevelStatus[l] \in Status /\ StatusLevel[LevelStatus[l]] = l
  BY <1>1 DEF LevelStatus, StatusLevel, Status
<1>3. LevelStatus[l] \in {5, 7} <=> l \in {1, 2}
  BY <1>1 DEF LevelStatus
<1>4. LevelMode[l] \in {"off", "transparency", "anc", "adaptive"}
  BY <1>1 DEF LevelMode
<1> QED BY <1>2, <1>3, <1>4 DEF ModeLevel

LEMMA ModeTable == \A m \in DOMAIN ModeLevel : ModeLevel[m] \in Level
BY DEF ModeLevel, Level

LEMMA ParseFacts ==
    ASSUME NEW w \in AncReport
    PROVE  /\ w[1] \in Status /\ w[2] \in Status \cup {None}
           /\ ParseAnc(w) \in 0..6
           /\ \A l \in Level : w[1] = LevelStatus[l] /\ (l \in {1, 2} \/ w[2] \in {None, LevelStatus[l]})
                 => ParseAnc(w) = l
<1>1. w[1] \in Status /\ w[2] \in Status \cup {None}
  BY DEF AncReport, Status
<1>2. ParseAnc(w) \in 0..6
  BY <1>1, StatusTable DEF ParseAnc
<1>3. ASSUME NEW l \in Level, w[1] = LevelStatus[l], l \in {1, 2} \/ w[2] \in {None, LevelStatus[l]}
      PROVE  ParseAnc(w) = l
  BY <1>3, LevelTable DEF ParseAnc
<1> QED BY <1>1, <1>2, <1>3

LEMMA KindFacts ==
    ASSUME NEW k \in Kind
    PROVE  /\ {"all", "read"} \cap Has(k) = {}
           /\ "anc" \in Has(k) <=> k = "nothing"
           /\ Asked[k] \in Seq(Has(k) \ {"ring"}) /\ AskedBy(k) \subseteq Has(k) \ {"ring"}
           /\ Followed[k] \in Seq(Cells)
<1>1. Asked[k] \in Seq(Has(k) \ {"ring"}) /\ Followed[k] \in Seq(Cells)
  BY HeadsetAssumption DEF Kind
<1>2. AskedBy(k) \subseteq Has(k) \ {"ring"}
  BY <1>1 DEF AskedBy
<1>3. {"all", "read"} \cap Has(k) = {} /\ ("anc" \in Has(k) <=> k = "nothing")
  BY HeadsetAssumption DEF Kind
<1> QED BY <1>1, <1>2, <1>3

(* What a report updates.                                                    *)
LEMMA UpdatesShape ==
    ASSUME NEW k \in Kind, NEW f \in FrameOf(k)
    PROVE  \/ f.of = "anc" /\ k = "nothing" /\ ParseAnc(f.value) = 0 /\ Updates(f) = <<>>
           \/ /\ f.of = "anc" /\ k = "nothing" /\ ParseAnc(f.value) \in Level
              /\ Updates(f) = <<Put("level", ParseAnc(f.value)), Put("mode", LevelMode[ParseAnc(f.value)])>>
           \/ /\ f.of = "feature" /\ k = "airpods"
              /\ Updates(f) = <<Put("present", TRUE), Put("feature", f.value)>>
           \/ /\ f.of \in Cells \ {"level", "present", "feature"} /\ (k = "nothing" => f.of # "mode")
              /\ Updates(f) = <<Put(f.of, f.value)>>
<1>1. f.of \in Has(k) /\ f.value \in Values /\ (f.of = "anc" => f.value \in AncReport)
  BY DEF FrameOf
<1>2. CASE f.of = "anc"
  <2>1. k = "nothing"
    BY <1>1, <1>2, HeadsetAssumption DEF Kind
  <2>2. ParseAnc(f.value) \in 0..6
    BY <1>1, <1>2, ParseFacts
  <2>3. CASE ParseAnc(f.value) = 0
    BY <1>2, <2>1, <2>3 DEF Updates
  <2>4. CASE ParseAnc(f.value) # 0
    BY <1>2, <2>1, <2>2, <2>4 DEF Updates, SetLevel, Level
  <2> QED BY <2>3, <2>4
<1>3. CASE f.of = "feature"
  <2>1. k = "airpods"
    BY <1>1, <1>3, HeadsetAssumption DEF Kind
  <2> QED BY <1>3, <2>1 DEF Updates, SetFeature
<1>4. CASE f.of \notin {"anc", "feature"}
  <2>1. f.of \in Cells \ {"level", "present", "feature"} /\ (k = "nothing" => f.of # "mode")
    BY <1>1, <1>4, HeadsetAssumption DEF Kind, Cells
  <2>2. Updates(f) = <<Put(f.of, f.value)>>
    BY <1>4 DEF Updates
  <2> QED BY <2>1, <2>2
<1> QED BY <1>2, <1>3, <1>4

LEMMA UpdatesTyped ==
    ASSUME NEW k \in Kind, NEW f \in FrameOf(k)
    PROVE  /\ Len(Updates(f)) \in 0..2
           /\ \A n \in 1..Len(Updates(f)) :
                 /\ Updates(f)[n].cell \in Cells /\ Updates(f)[n].value \in Values
                 /\ Updates(f)[n].cell = "level" => Updates(f)[n].value \in Level
<1>1. f.value \in Values
  BY DEF FrameOf
<1>2. CASE Updates(f) = <<>>
  BY <1>2
<1>3. CASE /\ ParseAnc(f.value) \in Level
           /\ Updates(f) = <<Put("level", ParseAnc(f.value)), Put("mode", LevelMode[ParseAnc(f.value)])>>
  <2> DEFINE l == ParseAnc(f.value)
  <2>1. l \in Level /\ LevelMode[l] \in DOMAIN ModeLevel
    BY <1>3, LevelTable
  <2>2. l \in Values /\ LevelMode[l] \in Values
    BY <2>1, ValueFacts
  <2>3. Updates(f) = <<Put("level", l), Put("mode", LevelMode[l])>>
    BY <1>3
  <2> HIDE DEF l
  <2>4. Len(Updates(f)) = 2 /\ Updates(f)[1] = Put("level", l) /\ Updates(f)[2] = Put("mode", LevelMode[l])
    BY <2>3
  <2> QED BY <2>1, <2>2, <2>4 DEF Put, Cells
<1>4. CASE Updates(f) = <<Put("present", TRUE), Put("feature", f.value)>>
  <2>1. TRUE \in Values
    BY ValueFacts, Zenon
  <2>2. /\ Len(Updates(f)) = 2 /\ Updates(f)[1] = Put("present", TRUE)
        /\ Updates(f)[2] = Put("feature", f.value)
    BY <1>4
  <2>3. Put("present", TRUE).value \in Values /\ Put("present", TRUE).cell = "present"
    BY <2>1 DEF Put
  <2>4. Put("feature", f.value).value \in Values /\ Put("feature", f.value).cell = "feature"
    BY <1>1 DEF Put
  <2>5. ASSUME NEW n \in 1..2
        PROVE  /\ Updates(f)[n].cell \in Cells \ {"level"}
               /\ Updates(f)[n].value \in Values
    <3>1. CASE n = 1
      BY <2>2, <2>3, <3>1 DEF Cells
    <3>2. CASE n = 2
      BY <2>2, <2>4, <3>2 DEF Cells
    <3> QED BY <3>1, <3>2
  <2> QED BY <2>2, <2>5
<1>5. CASE f.of \in Cells \ {"level", "present", "feature"} /\ Updates(f) = <<Put(f.of, f.value)>>
  BY <1>1, <1>5 DEF Put
<1> QED BY <1>2, <1>3, <1>4, <1>5, UpdatesShape

(* What a call sends and stores.                                             *)
LEMMA CallShape ==
    ASSUME kind \in Kind, NEW r \in Askable(kind)
    PROVE  /\ Supported(r) /\ r.value \in Values
           /\ IsAnc(r) <=> Anc(kind, r)
           /\ Anc(kind, r) =>
                 /\ LevelAsked(r) \in Level
                 /\ Commands(r) = AncPackets(LevelAsked(r))
                 /\ Stores(r) = <<Put("level", LevelAsked(r)), Put("mode", LevelMode[LevelAsked(r)])>>
           /\ ~Anc(kind, r) =>
                 /\ r.of \in Has(kind) /\ r.of \in {"eq", "ring", "mode", "feature"}
                 /\ r.of = "mode" => kind = "airpods"
                 /\ Commands(r) = <<Packet(r.of, r.value)>>
                 /\ r.of = "feature" => Stores(r) = <<Put("present", TRUE), Put("feature", r.value)>>
                 /\ r.of # "feature" => Stores(r) = <<Put(r.of, r.value)>>
<1>1. Supported(r) /\ (IsAnc(r) <=> Anc(kind, r))
  BY DEF Askable, Supported, IsAnc, Anc, Level, Kind
<1>2. r.value \in Values
  BY ValueFacts DEF Askable
<1>3. CASE Anc(kind, r)
  <2>1. LevelAsked(r) \in Level
    BY <1>3, RequestAssumption, ModeTable DEF Askable, Anc, LevelAsked
  <2> QED BY <1>1, <1>2, <1>3, <2>1 DEF Commands, Stores, SetLevel
<1>4. CASE ~Anc(kind, r)
  <2>1. r.of \in {"eq", "ring", "mode", "feature"} /\ (r.of = "mode" => kind = "airpods")
    BY <1>4 DEF Askable, Anc, Kind
  <2>2. r.of \in Has(kind)
    BY <1>4, <2>1, RequestAssumption DEF Askable, Anc, Kind
  <2>3. Commands(r) = <<Packet(r.of, r.value)>>
    BY <1>1, <1>4 DEF Commands
  <2>4. Stores(r) = IF r.of = "feature" THEN SetFeature(r.value) ELSE <<Put(r.of, r.value)>>
    BY <1>1, <1>4 DEF Stores
  <2> QED BY <1>1, <1>2, <1>4, <2>1, <2>2, <2>3, <2>4 DEF SetFeature
<1> QED BY <1>3, <1>4

LEMMA AncPacketsShape ==
    ASSUME NEW l \in Level
    PROVE  /\ l \in {1, 2} => AncPackets(l) = <<Packet("anc", <<1, LevelStatus[l]>>)>>
           /\ l \notin {1, 2} => AncPackets(l) = <<Packet("anc", <<1, LevelStatus[l]>>),
                                                   Packet("anc", <<2, LevelStatus[l]>>)>>
BY DEF AncPackets

(* What a read is answered with.                                             *)
LEMMA AnswersTyped ==
    ASSUME Typed, NEW v \in AskedBy(kind) \cup {"all"}
    PROVE  /\ Answers(v) \in Seq(Has(kind))
           /\ \A i \in 1..Len(Answers(v)) :
                 /\ Answers(v)[i] # "ring"
                 /\ Answers(v)[i] = v \/ (v = "all" /\ Answers(v)[i] \in AskedBy(kind))
           /\ v = "all" => Answers(v) = Asked[kind]
           /\ v # "all" => Answers(v) = <<v>>
           /\ [i \in DOMAIN Answers(v) |-> Frame(Answers(v)[i], hw[Answers(v)[i]])]
                 \in Seq(FrameOf(kind))
<1>1. /\ Asked[kind] \in Seq(Has(kind) \ {"ring"}) /\ "all" \notin Has(kind)
      /\ AskedBy(kind) \subseteq Has(kind) \ {"ring"}
  BY KindFacts DEF Typed
<1>2. /\ v = "all" => Answers(v) = Asked[kind]
      /\ v # "all" => Answers(v) = <<v>> /\ v \in Has(kind) \ {"ring"}
  BY <1>1 DEF Answers, Reported
<1>3. Answers(v) \in Seq(Has(kind) \ {"ring"})
  <2>1. CASE v = "all"
    BY <1>1, <1>2, <2>1
  <2>2. CASE v # "all"
    <3>1. v \in Has(kind) \ {"ring"} /\ Answers(v) = <<v>>
      BY <1>2, <2>2
    <3> QED BY <3>1
  <2> QED BY <2>1, <2>2
<1> DEFINE A == Answers(v)
<1>4. A \in Seq(Has(kind)) /\ \A i \in 1..Len(A) : A[i] \in Has(kind) \ {"ring"}
  BY <1>3
<1>5. \A i \in 1..Len(A) : A[i] = v \/ (v = "all" /\ A[i] \in AskedBy(kind))
  BY <1>1, <1>2 DEF AskedBy
<1>6. [i \in DOMAIN A |-> Frame(A[i], hw[A[i]])] \in Seq(FrameOf(kind))
  <2>1. DOMAIN A = 1..Len(A) /\ Len(A) \in Nat
    BY <1>4
  <2>2. ASSUME NEW i \in 1..Len(A) PROVE Frame(A[i], hw[A[i]]) \in FrameOf(kind)
    <3>1. A[i] \in Has(kind) /\ hw[A[i]] \in Values /\ (A[i] = "anc" => hw[A[i]] \in AncReport)
      BY <1>4, HeadsetAssumption DEF Typed, Kind
    <3> QED BY <3>1 DEF Frame, FrameOf
  <2> HIDE DEF A
  <2>3. [i \in 1..Len(A) |-> Frame(A[i], hw[A[i]])] \in [1..Len(A) -> FrameOf(kind)]
    BY <2>2
  <2> QED BY <2>1, <2>3
<1> QED BY <1>2, <1>4, <1>5, <1>6

-----------------------------------------------------------------------------
(* Types.                                                                    *)

LEMMA TypedInit == Init => Typed
<1> SUFFICES ASSUME Init PROVE Typed
  OBVIOUS
<1>1. kind \in Kind /\ hw \in First[kind]
  BY DEF Init, Kind
<1>2. hw \in [Has(kind) -> Values] /\ (kind = "nothing" => hw["anc"] \in AncReport)
  <2>1. hw = [a \in Has(kind) |-> hw[a]]
    BY <1>1, HeadsetAssumption DEF Kind
  <2>2. \A a \in Has(kind) : hw[a] \in Values
    BY <1>1, ValueFacts
  <2> QED BY <1>1, <2>1, <2>2, HeadsetAssumption
<1>3. FALSE \in Values /\ None \in Values
  BY ValueFacts, Zenon
<1>4. InitialCache \in [Cells -> Values] /\ InitialCache["level"] = None
  BY <1>3 DEF InitialCache, Cells
<1>5. Followed[kind] \in Seq(Cells)
  BY <1>1, HeadsetAssumption DEF Kind
<1>6. shown \in Seq(Values) /\ Len(shown) = Len(Followed[kind])
  <2>1. shown = [i \in 1..Len(Followed[kind]) |-> InitialCache[Followed[kind][i]]]
    BY <1>5 DEF Init, Devices
  <2>2. \A i \in 1..Len(Followed[kind]) : InitialCache[Followed[kind][i]] \in Values
    BY <1>4, <1>5
  <2>3. Len(Followed[kind]) \in Nat
    BY <1>5
  <2> QED BY <2>1, <2>2, <2>3
<1>7. [pc |-> "new", req |-> None, n |-> 0] \in CallOf(kind)
  BY DEF CallOf
<1>8. call \in [Caller -> CallOf(kind)]
  BY <1>7 DEF Init
<1>9. /\ view \in [Publisher -> Seq(Values)]
      /\ \A p \in Publisher : Len(view[p]) <= Len(Followed[kind])
  BY <1>5, EmptyFacts DEF Init
<1>10. tx \in Seq(PacketOf(kind)) /\ rx \in Seq(FrameOf(kind))
  BY EmptyFacts DEF Init
<1>11. /\ proc \in [n : 0..2, changed : BOOLEAN] /\ proc.n = 0 /\ ~proc.changed
       /\ events \in Nat /\ chances \in 0..MaxChances[kind]
  BY <1>1, HeadsetBounds DEF Init, Kind, Begun
<1>12. cache \in [Cells -> Values] /\ cache["level"] \in Level \cup {None}
  BY <1>4 DEF Init
<1>13. /\ link = "down" /\ disp = "idle" /\ raced = {} /\ silent = {} /\ lapped = {}
       /\ crossed = FALSE
  BY DEF Init
<1>14. proc.n > 0 => rx # <<>> /\ proc.n <= Len(Updates(Head(rx)))
  BY <1>11
<1>15. proc.n = 0 => ~proc.changed
  BY <1>11
<1>16. /\ link \in {"up", "lost", "down"} /\ disp \in {"idle", "waiting", "telling"}
       /\ raced \subseteq Cells /\ silent \subseteq Cells /\ lapped \subseteq Publisher
       /\ crossed \in BOOLEAN
  BY <1>13
<1>17. old \in OldOf(kind)
  BY EmptyFacts DEF Init, Gone, OldOf
<1> QED BY <1>1, <1>2, <1>6, <1>8, <1>9, <1>10, <1>11, <1>12, <1>14, <1>15, <1>16, <1>17 DEF Typed

(* What a chance costs is at most the bound.                                 *)
LEMMA ChanceFacts ==
    ASSUME Typed
    PROVE  MaxChances[kind] \in Nat /\ chances \in 0..MaxChances[kind]
BY HeadsetBounds DEF Typed, Kind

(* A report more, for a processor whose connection is gone.                  *)
LEMMA OldHears ==
    ASSUME NEW k, NEW o \in OldOf(k), o.alive, NEW f \in FrameOf(k),
           NEW o2, o2 = [o EXCEPT !.rx = Append(o.rx, f)]
    PROVE  /\ o2 \in OldOf(k) /\ o2.changed = o.changed
           /\ o.rx # <<>> => o2.rx # <<>> /\ Head(o2.rx) = Head(o.rx)
<1>1. /\ o \in [alive : BOOLEAN, rx : Seq(FrameOf(k)), n : 0..2, changed : BOOLEAN]
      /\ o.n > 0 => o.rx # <<>> /\ o.n <= Len(Updates(Head(o.rx)))
      /\ o.n = 0 => ~o.changed
  BY DEF OldOf
<1>2. /\ Append(o.rx, f) \in Seq(FrameOf(k)) /\ Append(o.rx, f) # <<>>
      /\ o.rx # <<>> => Head(Append(o.rx, f)) = Head(o.rx)
  <2>1. o.rx \in Seq(FrameOf(k))
    BY <1>1
  <2> QED BY <2>1, AppendFacts
<1> DEFINE t == Append(o.rx, f)
<1> HIDE DEF t
<1>3. o2 = [o EXCEPT !.rx = t]
  BY DEF t
<1>4. /\ o2.alive = o.alive /\ o2.rx = t /\ o2.n = o.n /\ o2.changed = o.changed
      /\ o2 \in [alive : BOOLEAN, rx : Seq(FrameOf(k)), n : 0..2, changed : BOOLEAN]
  BY <1>1, <1>2, <1>3 DEF t
<1>5. t # <<>> /\ (o.rx # <<>> => Head(t) = Head(o.rx))
  BY <1>2 DEF t
<1> QED BY <1>1, <1>4, <1>5 DEF OldOf

(* A change of the headset, reported or not.                                 *)
LEMMA BecomesTyped ==
    ASSUME Typed, NEW a \in Has(kind), NEW v \in Values, a = "anc" => v \in AncReport,
           Becomes(a, v)
    PROVE  /\ hw' \in [Has(kind) -> Values] /\ (kind = "nothing" => hw'["anc"] \in AncReport)
           /\ rx' \in Seq(FrameOf(kind))
           /\ rx # <<>> => rx' # <<>> /\ Head(rx') = Head(rx)
           /\ old' \in OldOf(kind) /\ old'.changed = old.changed
           /\ old.rx # <<>> => old'.rx # <<>> /\ Head(old'.rx) = Head(old.rx)
<1>1. hw' = [hw EXCEPT ![a] = v]
  BY DEF Becomes
<1>2. hw' \in [Has(kind) -> Values] /\ (kind = "nothing" => hw'["anc"] \in AncReport)
  BY <1>1, HeadsetAssumption DEF Typed
<1>3. Frame(a, v) \in FrameOf(kind)
  BY DEF Frame, FrameOf
<1>4. rx' = rx \/ rx' = Append(rx, Frame(a, v))
  BY DEF Becomes
<1>5. rx' \in Seq(FrameOf(kind)) /\ (rx # <<>> => rx' # <<>> /\ Head(rx') = Head(rx))
  <2>1. rx \in Seq(FrameOf(kind))
    BY DEF Typed
  <2>2. CASE rx' = Append(rx, Frame(a, v))
    BY <1>3, <2>1, <2>2, AppendFacts
  <2> QED BY <1>4, <2>1, <2>2
<1>6. /\ old' \in OldOf(kind) /\ old'.changed = old.changed
      /\ old.rx # <<>> => old'.rx # <<>> /\ Head(old'.rx) = Head(old.rx)
  <2>1. old \in OldOf(kind)
    BY DEF Typed
  <2>2. CASE UNCHANGED old
    BY <2>1, <2>2
  <2>3. CASE old.alive /\ old' = [old EXCEPT !.rx = Append(old.rx, Frame(a, v))]
    BY <1>3, <2>1, <2>3, OldHears
  <2> QED BY <2>2, <2>3 DEF Becomes
<1> QED BY <1>2, <1>5, <1>6

LEMMA AppliedTyped ==
    ASSUME Typed, NEW p \in PacketOf(kind), p.of # "read"
    PROVE  /\ p.of \in Has(kind) /\ Applied(p, hw[p.of]) \in Values
           /\ p.of = "anc" => Applied(p, hw[p.of]) \in AncReport
<1>1. p.of \in Has(kind)
  BY DEF PacketOf
<1>2. CASE p.of # "anc"
  BY <1>1, <1>2 DEF PacketOf, Applied
<1>3. CASE p.of = "anc"
  <2>1. kind = "nothing" /\ p.value \in AncCommand
    BY <1>1, <1>3, HeadsetAssumption DEF Typed, Kind, PacketOf
  <2>2. hw["anc"] \in AncReport
    BY <2>1 DEF Typed
  <2>3. \/ Applied(p, hw[p.of]) = <<p.value[2], hw["anc"][2]>>
        \/ Applied(p, hw[p.of]) = hw["anc"]
        \/ Applied(p, hw[p.of]) = <<hw["anc"][1], p.value[2]>>
    BY <1>3 DEF Applied
  <2>4. p.value[2] \in Status /\ hw["anc"][1] \in Status /\ hw["anc"][2] \in Status \cup {None}
    BY <2>1, <2>2, ParseFacts DEF AncCommand
  <2>5. Applied(p, hw[p.of]) \in AncReport
    BY <2>2, <2>3, <2>4 DEF AncReport, Status
  <2> QED BY <1>1, <2>5, ValueFacts
<1> QED BY <1>2, <1>3

(* The processor keeps its place when more arrives behind what it has.       *)
ProcKept == /\ UNCHANGED proc
            /\ rx' \in Seq(FrameOf(kind))
            /\ proc.n > 0 => rx' # <<>> /\ Head(rx') = Head(rx)

LEMMA ReceivedFacts ==
    ASSUME Typed, NEW got \in Received
    PROVE  /\ got \in Seq(FrameOf(kind))
           /\ proc.n > 0 => got # <<>> /\ Head(got) = Head(rx)
<1>1. PICK k \in (IF proc.n > 0 THEN 1 ELSE 0)..Len(rx) : got = SubSeq(rx, 1, k)
  BY DEF Received
<1>2. k \in 0..Len(rx) /\ (proc.n > 0 => k > 0)
  BY <1>1 DEF Typed
<1>3. rx \in Seq(FrameOf(kind))
  BY DEF Typed
<1> QED BY <1>1, <1>2, <1>3, PrefixFacts

(* The processor of a connection that is taken keeps its place.              *)
LEMMA TakenShape ==
    ASSUME Typed, Taken
    PROVE  /\ link' = "down" /\ tx' = <<>> /\ rx' = <<>> /\ proc'.n = 0 /\ ~proc'.changed
           /\ old' \in OldOf(kind) /\ old'.changed = proc.changed
           /\ proc.n > 0 => Head(old'.rx) = Head(rx)
           /\ \A c \in Caller : ~UsesConn(c)
           /\ UNCHANGED <<kind, hw, cache, events, call, tellVars, raced, silent>>
<1>1. PICK got \in Received :
         old' = [alive |-> TRUE, rx |-> got, n |-> proc.n, changed |-> proc.changed]
  BY DEF Taken
<1>2. /\ got \in Seq(FrameOf(kind))
      /\ proc.n > 0 => got # <<>> /\ Head(got) = Head(rx)
  BY ReceivedFacts
<1>3. /\ proc \in [n : 0..2, changed : BOOLEAN]
      /\ proc.n > 0 => proc.n <= Len(Updates(Head(rx)))
      /\ proc.n = 0 => ~proc.changed
  BY DEF Typed
<1>4. /\ old'.alive /\ old'.rx = got /\ old'.n = proc.n /\ old'.changed = proc.changed
      /\ old' \in [alive : BOOLEAN, rx : Seq(FrameOf(kind)), n : 0..2, changed : BOOLEAN]
  BY <1>1, <1>2, <1>3
<1>5. old' \in OldOf(kind)
  BY <1>2, <1>3, <1>4 DEF OldOf
<1> QED BY <1>2, <1>4, <1>5 DEF Taken, Begun

LEMMA TakenTyped ==
    ASSUME Typed, Taken, chances' \in 0..MaxChances[kind]
    PROVE  Typed'
<1>1. /\ link' = "down" /\ tx' = <<>> /\ rx' = <<>> /\ old' \in OldOf(kind)
      /\ UNCHANGED <<kind, hw, cache, events, call, tellVars, raced, silent>>
  BY TakenShape
<1>2. proc' \in [n : 0..2, changed : BOOLEAN] /\ proc'.n = 0 /\ ~proc'.changed
  BY DEF Taken, Begun
<1>3. tx' \in Seq(PacketOf(kind)) /\ rx' \in Seq(FrameOf(kind))
  BY <1>1, EmptyFacts
<1> QED BY <1>1, <1>2, <1>3 DEF Typed, tellVars

LEMMA LinkTyped ==
    ASSUME Typed, LinkStep
    PROVE  Typed'
<1>1. CASE Connect
  <2>1. tx' \in Seq(PacketOf(kind))
    <3>1. \A v \in AskedBy(kind) \cup {"all"} : Packet("read", v) \in PacketOf(kind)
      <4>1. AskedBy(kind) \subseteq Has(kind)
        BY KindFacts DEF Typed
      <4> QED BY <4>1 DEF Packet, PacketOf
    <3>2. CASE kind = "airpods"
      BY <1>1, <3>1, <3>2 DEF Connect
    <3>3. CASE kind # "airpods"
      <4>1. Asked[kind] \in Seq(Has(kind) \ {"ring"})
        BY HeadsetAssumption DEF Typed, Kind
      <4>2. tx' = [i \in 1..Len(Asked[kind]) |-> Packet("read", Asked[kind][i])]
        BY <1>1, <3>3, <4>1 DEF Connect, Reported
      <4>3. Len(Asked[kind]) \in Nat
            /\ \A i \in 1..Len(Asked[kind]) : Packet("read", Asked[kind][i]) \in PacketOf(kind)
        BY <3>1, <4>1 DEF AskedBy
      <4> QED BY <4>2, <4>3
    <3> QED BY <3>2, <3>3
  <2> QED BY <1>1, <2>1 DEF Connect, Typed, cacheVars, tellVars
<1>2. CASE Drop
  <2>1. rx' \in Received /\ UNCHANGED proc
    BY <1>2 DEF Drop
  <2>2. ProcKept
    BY <2>1, ReceivedFacts DEF ProcKept
  <2>3. tx' \in Seq(PacketOf(kind))
    BY <1>2, EmptyFacts DEF Drop
  <2>4. chances' \in 0..MaxChances[kind]
    BY <1>2, ChanceFacts DEF Drop
  <2> QED BY <1>2, <2>2, <2>3, <2>4 DEF Drop, ProcKept, Typed, tellVars
<1>3. CASE TearDown
  BY <1>3 DEF TearDown, Typed, headsetVars, cacheVars, tellVars
<1>4. CASE Disconnect
  <2>1. chances' \in 0..MaxChances[kind]
    BY <1>4, ChanceFacts DEF Disconnect
  <2> QED BY <1>4, <2>1, TakenTyped DEF Disconnect
<1> QED BY <1>1, <1>2, <1>3, <1>4 DEF LinkStep

LEMMA HeadsetTyped ==
    ASSUME Typed, HeadsetStep
    PROVE  Typed'
<1>1. CASE Obey
  <2> DEFINE p == Head(tx)
  <2>1. tx # <<>> /\ p \in PacketOf(kind) /\ tx' \in Seq(PacketOf(kind))
    BY <1>1, TailFacts DEF Obey, Typed
  <2>2. CASE p.of = "read"
    <3>1. p.value \in AskedBy(kind) \cup {"all"}
      BY <2>1, <2>2 DEF PacketOf
    <3> DEFINE t == [i \in DOMAIN Answers(p.value) |->
                       Frame(Answers(p.value)[i], hw[Answers(p.value)[i]])]
    <3>2. t \in Seq(FrameOf(kind)) /\ rx' = rx \o t /\ UNCHANGED <<hw, old, proc>>
      BY <1>1, <2>2, <3>1, AnswersTyped DEF Obey
    <3> HIDE DEF t
    <3>3. rx \in Seq(FrameOf(kind)) /\ (proc.n > 0 => rx # <<>>)
      BY DEF Typed
    <3>4. ProcKept
      BY <3>2, <3>3, ConcatFacts DEF ProcKept
    <3> QED BY <1>1, <2>1, <3>2, <3>4 DEF Obey, ProcKept, Typed, linkVars, tellVars
  <2>3. CASE p.of # "read"
    <3>1. Becomes(p.of, Applied(p, hw[p.of])) /\ UNCHANGED proc
      BY <1>1, <2>3 DEF Obey
    <3>2. /\ p.of \in Has(kind) /\ Applied(p, hw[p.of]) \in Values
          /\ p.of = "anc" => Applied(p, hw[p.of]) \in AncReport
      BY <2>1, <2>3, AppliedTyped
    <3>3. /\ hw' \in [Has(kind) -> Values] /\ (kind = "nothing" => hw'["anc"] \in AncReport)
          /\ ProcKept /\ old' \in OldOf(kind)
      BY <3>1, <3>2, BecomesTyped DEF ProcKept, Typed
    <3> QED BY <1>1, <2>1, <3>3 DEF Obey, ProcKept, Typed, linkVars, tellVars
  <2> QED BY <2>2, <2>3
<1>2. CASE Worn
  <2>1. PICK w \in Wear[kind] : Becomes(w.of, w.value)
    BY <1>2 DEF Worn
  <2>2. w.of \in Has(kind) /\ w.value \in Values /\ (w.of = "anc" => w.value \in AncReport)
    BY HeadsetAssumption, ValueFacts DEF Typed, Kind
  <2>3. /\ hw' \in [Has(kind) -> Values] /\ (kind = "nothing" => hw'["anc"] \in AncReport)
        /\ ProcKept /\ old' \in OldOf(kind)
    BY <1>2, <2>1, <2>2, BecomesTyped DEF Worn, ProcKept, Typed
  <2>4. chances' \in 0..MaxChances[kind]
    BY <1>2, ChanceFacts DEF Worn
  <2> QED BY <1>2, <2>3, <2>4 DEF Worn, ProcKept, Typed, tellVars
<1> QED BY <1>1, <1>2 DEF HeadsetStep

(* What the processor is about to write.                                     *)
LEMMA NextUpdate ==
    ASSUME Typed, rx # <<>>, proc.n < Len(Updates(Head(rx)))
    PROVE  /\ Head(rx) \in FrameOf(kind) /\ Head(rx) = rx[1]
           /\ proc.n \in 0..1 /\ proc.n + 1 \in 1..Len(Updates(Head(rx)))
           /\ Updates(Head(rx))[proc.n + 1].cell \in Cells
           /\ Updates(Head(rx))[proc.n + 1].value \in Values
           /\ Updates(Head(rx))[proc.n + 1].cell = "level"
                 => Updates(Head(rx))[proc.n + 1].value \in Level
<1>1. Head(rx) \in FrameOf(kind) /\ Head(rx) = rx[1] /\ proc.n \in 0..2 /\ kind \in Kind
  BY TailFacts DEF Typed
<1>2. Len(Updates(Head(rx))) \in 0..2
  BY <1>1, UpdatesTyped
<1>3. proc.n \in 0..1 /\ proc.n + 1 \in 1..Len(Updates(Head(rx)))
  <2> DEFINE m == Len(Updates(Head(rx)))
             n == proc.n
  <2>1. m \in 0..2 /\ n \in 0..2 /\ n < m
    BY <1>1, <1>2
  <2> HIDE DEF m, n
  <2>2. n \in 0..1 /\ n + 1 \in 1..m
    BY <2>1
  <2> QED BY <2>2 DEF m, n
<1> QED BY <1>1, <1>3, UpdatesTyped

LEMMA ProcTyped ==
    ASSUME Typed, ProcStep
    PROVE  Typed'
<1>1. CASE Update
  <2> DEFINE u == Updates(Head(rx))[proc.n + 1]
             new == cache[u.cell] # u.value
  <2>1. /\ rx # <<>> /\ proc.n < Len(Updates(Head(rx)))
        /\ cache' = [cache EXCEPT ![u.cell] = u.value]
        /\ proc' = [n |-> proc.n + 1, changed |-> proc.changed \/ new]
        /\ raced' = (IF Setting(u.cell) THEN raced \cup {u.cell} ELSE raced \ {u.cell})
        /\ silent' = (IF new /\ Head(rx).of = "feature" THEN silent \cup {u.cell} ELSE silent)
        /\ UNCHANGED <<linkVars, headsetVars, rx, events, call, tellVars>>
    BY <1>1 DEF Update
  <2>2. /\ proc.n \in 0..1 /\ proc.n + 1 \in 1..Len(Updates(Head(rx)))
        /\ u.cell \in Cells /\ u.value \in Values /\ (u.cell = "level" => u.value \in Level)
    BY <2>1, NextUpdate
  <2> HIDE DEF u
  <2>3. /\ cache' \in [Cells -> Values] /\ cache'["level"] \in Level \cup {None}
    BY <2>1, <2>2 DEF Typed, Cells
  <2>4. proc' \in [n : 0..2, changed : BOOLEAN] /\ proc'.n = proc.n + 1
    BY <2>1, <2>2 DEF Typed
  <2>5. raced' \subseteq Cells /\ silent' \subseteq Cells
    BY <2>1, <2>2 DEF Typed
  <2> HIDE DEF new
  <2>6. proc'.n > 0 /\ rx' # <<>> /\ proc'.n <= Len(Updates(Head(rx')))
    BY <2>1, <2>2, <2>4
  <2> QED BY <2>1, <2>2, <2>3, <2>4, <2>5, <2>6 DEF Typed, linkVars, headsetVars, tellVars
<1>2. CASE Processed
  <2>1. rx # <<>> /\ rx' = Tail(rx) /\ proc' = [n |-> 0, changed |-> FALSE]
    BY <1>2 DEF Processed, Begun
  <2>2. rx' \in Seq(FrameOf(kind))
    BY <2>1, TailFacts DEF Typed
  <2>3. events' \in Nat
    BY <1>2 DEF Processed, Told, Event, Typed
  <2>4. proc' \in [n : 0..2, changed : BOOLEAN] /\ proc'.n = 0 /\ ~proc'.changed
    BY <2>1
  <2> QED BY <1>2, <2>2, <2>3, <2>4 DEF Processed, Typed, linkVars, headsetVars, tellVars
<1> QED BY <1>1, <1>2 DEF ProcStep

(* What a processor that outlives its connection is about to write.          *)
LEMMA OldFacts ==
    ASSUME Typed
    PROVE  /\ kind \in Kind /\ old.alive \in BOOLEAN /\ old.rx \in Seq(FrameOf(kind))
           /\ old.n \in 0..2 /\ old.changed \in BOOLEAN
           /\ old = [alive |-> old.alive, rx |-> old.rx, n |-> old.n, changed |-> old.changed]
           /\ old.n > 0 => old.rx # <<>> /\ old.n <= Len(Updates(Head(old.rx)))
           /\ old.n = 0 => ~old.changed
           /\ old.rx # <<>> => old.alive
BY DEF Typed, OldOf

LEMMA OldNext ==
    ASSUME Typed, old.rx # <<>>, old.n < Len(Updates(Head(old.rx)))
    PROVE  /\ old.n \in 0..1 /\ old.n + 1 \in 1..Len(Updates(Head(old.rx)))
           /\ Updates(Head(old.rx))[old.n + 1].cell \in Cells
           /\ Updates(Head(old.rx))[old.n + 1].value \in Values
           /\ Updates(Head(old.rx))[old.n + 1].cell = "level"
                 => Updates(Head(old.rx))[old.n + 1].value \in Level
<1>1. Head(old.rx) \in FrameOf(kind) /\ old.n \in 0..2 /\ kind \in Kind
  <2>1. old.rx \in Seq(FrameOf(kind)) /\ old.n \in 0..2 /\ kind \in Kind
    BY OldFacts
  <2> QED BY <2>1, TailFacts
<1>2. Len(Updates(Head(old.rx))) \in 0..2
  BY <1>1, UpdatesTyped
<1>3. old.n \in 0..1 /\ old.n + 1 \in 1..Len(Updates(Head(old.rx)))
  <2> DEFINE m == Len(Updates(Head(old.rx)))
             n == old.n
  <2>1. m \in 0..2 /\ n \in 0..2 /\ n < m
    BY <1>1, <1>2
  <2> HIDE DEF m, n
  <2>2. n \in 0..1 /\ n + 1 \in 1..m
    BY <2>1
  <2> QED BY <2>2 DEF m, n
<1> QED BY <1>1, <1>3, UpdatesTyped

LEMMA OldTyped ==
    ASSUME Typed, OldStep
    PROVE  Typed'
<1>1. CASE OldUpdate
  <2> DEFINE u == Updates(Head(old.rx))[old.n + 1]
             new == cache[u.cell] # u.value
  <2>1. /\ old.rx # <<>> /\ old.n < Len(Updates(Head(old.rx)))
        /\ cache' = [cache EXCEPT ![u.cell] = u.value]
        /\ old' = [old EXCEPT !.n = old.n + 1, !.changed = old.changed \/ new]
        /\ raced' = raced \cup {u.cell}
        /\ silent' = (IF new /\ Head(old.rx).of = "feature" THEN silent \cup {u.cell} ELSE silent)
        /\ UNCHANGED <<kind, link, chances, headsetVars, rx, proc, events, call, tellVars>>
    BY <1>1 DEF OldUpdate
  <2>2. /\ old.n \in 0..1 /\ old.n + 1 \in 1..Len(Updates(Head(old.rx)))
        /\ u.cell \in Cells /\ u.value \in Values /\ (u.cell = "level" => u.value \in Level)
    BY <2>1, OldNext
  <2> HIDE DEF u
  <2>3. /\ cache' \in [Cells -> Values] /\ cache'["level"] \in Level \cup {None}
    BY <2>1, <2>2 DEF Typed, Cells
  <2>4. raced' \subseteq Cells /\ silent' \subseteq Cells
    BY <2>1, <2>2 DEF Typed
  <2> HIDE DEF new
  <2>5. /\ old'.alive = old.alive /\ old'.rx = old.rx /\ old'.n = old.n + 1
        /\ old' \in [alive : BOOLEAN, rx : Seq(FrameOf(kind)), n : 0..2, changed : BOOLEAN]
    <3>1. old' = [alive |-> old.alive, rx |-> old.rx, n |-> old.n + 1, changed |-> old.changed \/ new]
      BY <2>1, OldFacts
    <3>2. old.n + 1 \in 0..2 /\ (old.changed \/ new) \in BOOLEAN
      BY <2>2
    <3> QED BY <3>1, <3>2, OldFacts
  <2>6. old' \in OldOf(kind)
    <3>1. old'.n # 0 /\ old'.n <= Len(Updates(Head(old'.rx))) /\ old'.alive
      BY <2>1, <2>2, <2>5, OldFacts
    <3> QED BY <2>1, <2>5, <3>1 DEF OldOf
  <2> QED BY <2>1, <2>3, <2>4, <2>6 DEF Typed, headsetVars, tellVars
<1>2. CASE OldProcessed
  <2>1. /\ old.rx # <<>>
        /\ old' = [old EXCEPT !.rx = Tail(old.rx), !.n = 0, !.changed = FALSE]
    BY <1>2 DEF OldProcessed
  <2>2. Tail(old.rx) \in Seq(FrameOf(kind)) /\ old.alive
    <3>1. old.rx \in Seq(FrameOf(kind)) /\ old.alive
      BY <2>1, OldFacts
    <3> QED BY <2>1, <3>1, TailFacts
  <2>3. old' \in OldOf(kind)
    <3>1. old' = [alive |-> old.alive, rx |-> Tail(old.rx), n |-> 0, changed |-> FALSE]
      BY <2>1, OldFacts
    <3> QED BY <2>2, <3>1, OldFacts DEF OldOf
  <2>4. events' \in Nat
    BY <1>2 DEF OldProcessed, Event, Typed
  <2> QED BY <1>2, <2>3, <2>4 DEF OldProcessed, Typed, headsetVars, tellVars
<1>3. CASE OldEnds /\ link # "down"
  <2>1. Taken /\ UNCHANGED chances
    BY <1>3 DEF OldEnds
  <2> QED BY <2>1, ChanceFacts, TakenTyped
<1>4. CASE OldEnds /\ link = "down"
  <2>1. old' = Gone /\ UNCHANGED <<kind, link, chances, headsetVars, cacheVars, call, tellVars, raced, silent>>
    BY <1>4 DEF OldEnds
  <2>2. old' \in OldOf(kind)
    BY <2>1, EmptyFacts DEF Gone, OldOf
  <2> QED BY <2>1, <2>2 DEF Typed, headsetVars, cacheVars, tellVars
<1> QED BY <1>1, <1>2, <1>3, <1>4 DEF OldStep

-----------------------------------------------------------------------------
(* Calls.                                                                    *)

LEMMA CallFacts ==
    ASSUME Typed, NEW c \in Caller
    PROVE  /\ call[c] \in CallOf(kind)
           /\ call[c].pc \in {"new", "sending", "storing", "telling", "done", "failed"}
           /\ call[c].req \in Request \cup {None} /\ call[c].n \in {0, 1}
           /\ call[c].pc \in {"sending", "storing"} => call[c].req \in Askable(kind)
BY DEF Typed, CallOf

LEMMA GotoTyped ==
    ASSUME Typed, NEW c \in Caller, NEW pc, NEW n, Goto(c, pc, n),
           [pc |-> pc, req |-> call[c].req, n |-> n] \in CallOf(kind)
    PROVE  /\ call' = [call EXCEPT ![c] = [pc |-> pc, req |-> call[c].req, n |-> n]]
           /\ call' \in [Caller -> CallOf(kind)]
<1>1. call[c] = [pc |-> call[c].pc, req |-> call[c].req, n |-> call[c].n]
  BY DEF Typed, CallOf
<1>2. call' = [call EXCEPT ![c] = [pc |-> pc, req |-> call[c].req, n |-> n]]
  <2> DEFINE there == [pc |-> pc, req |-> call[c].req, n |-> n]
  <2>1. call' = [d \in Caller |-> call'[d]] /\ \A d \in Caller \ {c} : call'[d] = call[d]
    BY DEF Goto, Typed
  <2>2. call'[c] = there
    BY <1>1 DEF Goto, Typed
  <2>3. [call EXCEPT ![c] = there] = [d \in Caller |-> IF d = c THEN there ELSE call[d]]
    BY DEF Typed
  <2> HIDE DEF there
  <2> QED BY <2>1, <2>2, <2>3 DEF there
<1> QED BY <1>2 DEF Typed

LEMMA EndedTyped ==
    ASSUME Typed, NEW c \in Caller, NEW pc \in {"done", "failed"}, Ended(c, pc)
    PROVE  call' \in [Caller -> CallOf(kind)]
<1>1. [pc |-> pc, req |-> None, n |-> 0] \in CallOf(kind)
  BY DEF CallOf
<1> QED BY <1>1 DEF Ended, Typed

(* A packet that a call sends, and where it goes from there.                 *)
LEMMA SendShape ==
    ASSUME Typed, NEW c \in Caller, call[c].pc = "sending"
    PROVE  LET r == call[c].req
               cmds == Commands(r)
               n == call[c].n
           IN  /\ r \in Askable(kind) /\ cmds[n + 1] \in PacketOf(kind) /\ cmds[1] \in PacketOf(kind)
               /\ n + 1 # Len(cmds) => n = 0 /\ Anc(kind, r) /\ LevelAsked(r) \notin {1, 2}
               /\ Anc(kind, r) => /\ LevelAsked(r) \in Level
                                  /\ cmds[n + 1] = Packet("anc", <<n + 1, LevelStatus[LevelAsked(r)]>>)
               /\ ~Anc(kind, r) => /\ n = 0 /\ r.of \in Has(kind) \ {"anc"}
                                   /\ cmds = <<Packet(r.of, r.value)>>
<1> DEFINE r == call[c].req
           n == call[c].n
           l == LevelAsked(r)
<1>1. /\ kind \in Kind /\ r \in Askable(kind) /\ n \in {0, 1}
      /\ n = 1 => Anc(kind, r) /\ LevelAsked(r) \notin {1, 2}
  BY DEF Typed, CallOf
<1> HIDE DEF r, n
<1>2. CASE Anc(kind, r)
  <2>1. l \in Level /\ Commands(r) = AncPackets(l) /\ kind = "nothing"
    BY <1>1, <1>2, CallShape DEF Anc
  <2> HIDE DEF l
  <2>2. LevelStatus[l] \in Status
    BY <2>1, LevelTable
  <2>3. "anc" \in Has(kind)
    BY <2>1, KindFacts DEF Kind
  <2>4. \A i \in {1, 2} : Packet("anc", <<i, LevelStatus[l]>>) \in PacketOf(kind)
    BY <2>2, <2>3 DEF Packet, PacketOf, AncCommand
  <2>5. CASE l \in {1, 2}
    <3>1. AncPackets(l) = <<Packet("anc", <<1, LevelStatus[l]>>)>> /\ n = 0
      BY <1>1, <2>1, <2>5, AncPacketsShape DEF l
    <3> QED BY <1>1, <1>2, <2>1, <2>4, <3>1 DEF r, n, l
  <2>6. CASE l \notin {1, 2}
    <3>1. AncPackets(l) = <<Packet("anc", <<1, LevelStatus[l]>>), Packet("anc", <<2, LevelStatus[l]>>)>>
      BY <2>1, <2>6, AncPacketsShape
    <3>2. /\ Len(AncPackets(l)) = 2
          /\ AncPackets(l)[1] = Packet("anc", <<1, LevelStatus[l]>>)
          /\ AncPackets(l)[2] = Packet("anc", <<2, LevelStatus[l]>>)
      BY <3>1
    <3>3. CASE n = 0
      BY <1>1, <1>2, <2>1, <2>4, <2>6, <3>2, <3>3 DEF r, n, l
    <3>4. CASE n = 1
      BY <1>1, <1>2, <2>1, <2>4, <2>6, <3>2, <3>4 DEF r, n, l
    <3> QED BY <1>1, <3>3, <3>4
  <2> QED BY <2>5, <2>6
<1>3. CASE ~Anc(kind, r)
  <2>1. /\ n = 0 /\ r.of \in Has(kind) /\ r.of \in {"eq", "ring", "mode", "feature"}
        /\ Commands(r) = <<Packet(r.of, r.value)>> /\ r.value \in Values
    BY <1>1, <1>3, CallShape
  <2>2. Packet(r.of, r.value) \in PacketOf(kind)
    BY <2>1 DEF Packet, PacketOf
  <2> QED BY <1>1, <1>3, <2>1, <2>2 DEF r, n
<1> QED BY <1>2, <1>3

(* A cell that a call stores: the first of two, the second, or the only one. *)
LEMMA StoreShape ==
    ASSUME Typed, NEW c \in Caller, call[c].pc = "storing"
    PROVE  LET r == call[c].req
               s == Stores(r)
               n == call[c].n
           IN  /\ r \in Askable(kind) /\ n \in {0, 1}
               /\ Anc(kind, r) => /\ LevelAsked(r) \in Level /\ Len(s) = 2
                                  /\ s[1] = Put("level", LevelAsked(r))
                                  /\ s[2] = Put("mode", LevelMode[LevelAsked(r)])
               /\ ~Anc(kind, r) /\ r.of = "feature" =>
                     Len(s) = 2 /\ s[1] = Put("present", TRUE) /\ s[2] = Put("feature", r.value)
               /\ ~Anc(kind, r) /\ r.of # "feature" =>
                     /\ n = 0 /\ Len(s) = 1 /\ s[1] = Put(r.of, r.value)
                     /\ r.of \in {"eq", "ring", "mode"}
               /\ s[n + 1].cell \in Cells /\ s[n + 1].value \in Values
               /\ s[n + 1].cell = "level" => s[n + 1].value \in Level
<1> DEFINE r == call[c].req
           n == call[c].n
           s == Stores(r)
           l == LevelAsked(r)
<1>1. /\ kind \in Kind /\ r \in Askable(kind) /\ n \in {0, 1}
      /\ n = 1 => Anc(kind, r) \/ r.of = "feature"
  BY DEF Typed, CallOf
<1> HIDE DEF r, n
<1>2. CASE Anc(kind, r)
  <2>1. l \in Level /\ s = <<Put("level", l), Put("mode", LevelMode[l])>>
    BY <1>1, <1>2, CallShape
  <2> HIDE DEF l, s
  <2>2. Len(s) = 2 /\ s[1] = Put("level", l) /\ s[2] = Put("mode", LevelMode[l])
    BY <2>1
  <2>3. l \in Values /\ LevelMode[l] \in Values
    BY <2>1, LevelTable, ValueFacts
  <2>4. s[n + 1].cell \in Cells /\ s[n + 1].value \in Values
        /\ (s[n + 1].cell = "level" => s[n + 1].value \in Level)
    <3>1. CASE n = 0
      BY <2>1, <2>2, <2>3, <3>1 DEF Put, Cells
    <3>2. CASE n = 1
      BY <2>1, <2>2, <2>3, <3>2 DEF Put, Cells
    <3> QED BY <1>1, <3>1, <3>2
  <2> QED BY <1>1, <1>2, <2>1, <2>2, <2>4 DEF r, n, s, l
<1>3. CASE ~Anc(kind, r) /\ r.of = "feature"
  <2>1. s = <<Put("present", TRUE), Put("feature", r.value)>> /\ r.value \in Values
    BY <1>1, <1>3, CallShape
  <2> HIDE DEF s
  <2>2. Len(s) = 2 /\ s[1] = Put("present", TRUE) /\ s[2] = Put("feature", r.value)
    BY <2>1
  <2>3. TRUE \in Values
    BY ValueFacts, Zenon
  <2>4. s[n + 1].cell \in Cells \ {"level"} /\ s[n + 1].value \in Values
    <3>1. CASE n = 0
      <4>1. Put("present", TRUE).value \in Values /\ Put("present", TRUE).cell = "present"
        BY <2>3 DEF Put
      <4>2. n + 1 = 1
        BY <3>1
      <4>3. s[n + 1] = s[1]
        BY <4>2
      <4> QED BY <2>2, <4>1, <4>3 DEF Cells
    <3>2. CASE n = 1
      BY <2>1, <2>2, <3>2 DEF Put, Cells
    <3> QED BY <1>1, <3>1, <3>2
  <2> QED BY <1>1, <1>3, <2>2, <2>4 DEF r, n, s
<1>4. CASE ~Anc(kind, r) /\ r.of # "feature"
  <2>1. /\ n = 0 /\ s = <<Put(r.of, r.value)>> /\ r.value \in Values
        /\ r.of \in {"eq", "ring", "mode", "feature"}
    BY <1>1, <1>4, CallShape
  <2> HIDE DEF s
  <2>2. Len(s) = 1 /\ s[1] = Put(r.of, r.value)
    BY <2>1
  <2>3. s[n + 1].cell \in Cells \ {"level"} /\ s[n + 1].value \in Values
    BY <2>1, <2>2 DEF Put, Cells
  <2> QED BY <1>1, <1>4, <2>1, <2>2, <2>3 DEF r, n, s
<1> QED BY <1>2, <1>3, <1>4

LEMMA CallTyped ==
    ASSUME Typed, CallStep
    PROVE  Typed'
<1>1. ASSUME NEW c \in Caller, Begin(c) PROVE Typed'
  <2>0. chances' \in 0..MaxChances[kind]
    BY <1>1, ChanceFacts DEF Begin
  <2>1. PICK r \in Request :
           IF link # "down" /\ Supported(r)
           THEN call' = [call EXCEPT ![c] = [pc |-> "sending", req |-> r, n |-> 0]]
           ELSE Ended(c, "failed")
    BY <1>1 DEF Begin
  <2>2. CASE link # "down" /\ Supported(r)
    <3>1. r \in Askable(kind)
      BY <2>2 DEF Supported, Askable, Level, Typed, Kind
    <3>2. [pc |-> "sending", req |-> r, n |-> 0] \in CallOf(kind)
      BY <3>1 DEF CallOf
    <3>3. call' \in [Caller -> CallOf(kind)]
      BY <2>1, <2>2, <3>2 DEF Typed
    <3> QED BY <1>1, <2>0, <3>3 DEF Begin, Typed, headsetVars, cacheVars, tellVars
  <2>3. CASE ~(link # "down" /\ Supported(r))
    <3>1. call' \in [Caller -> CallOf(kind)]
      BY <2>1, <2>3, EndedTyped
    <3> QED BY <1>1, <2>0, <3>1 DEF Begin, Typed, headsetVars, cacheVars, tellVars
  <2> QED BY <2>2, <2>3
<1>2. ASSUME NEW c \in Caller, Send(c) PROVE Typed'
  <2> DEFINE r == call[c].req
             n == call[c].n
             cmds == Commands(r)
  <2>1. /\ call[c].pc = "sending"
        /\ tx' = (IF link = "up" THEN Append(tx, cmds[n + 1]) ELSE tx)
        /\ n + 1 = Len(cmds) => Goto(c, "storing", 0)
        /\ n + 1 # Len(cmds) => Goto(c, "sending", n + 1)
    BY <1>2 DEF Send
  <2>2. /\ r \in Askable(kind) /\ cmds[n + 1] \in PacketOf(kind)
        /\ n + 1 # Len(cmds) => n = 0 /\ Anc(kind, r) /\ LevelAsked(r) \notin {1, 2}
    BY <2>1, SendShape
  <2> HIDE DEF n, cmds
  <2>3. tx' \in Seq(PacketOf(kind))
    <3>1. tx \in Seq(PacketOf(kind))
      BY DEF Typed
    <3> QED BY <2>1, <2>2, <3>1, AppendFacts
  <2>4. call' \in [Caller -> CallOf(kind)]
    <3>1. CASE n + 1 = Len(cmds)
      <4>1. [pc |-> "storing", req |-> r, n |-> 0] \in CallOf(kind)
        BY <2>2 DEF CallOf, Askable
      <4> QED BY <2>1, <3>1, <4>1, GotoTyped
    <3>2. CASE n + 1 # Len(cmds)
      <4>1. [pc |-> "sending", req |-> r, n |-> 1] \in CallOf(kind) /\ n + 1 = 1
        BY <2>2, <3>2 DEF CallOf, Askable
      <4>2. Goto(c, "sending", 1)
        BY <2>1, <3>2, <4>1
      <4> QED BY <4>1, <4>2, GotoTyped
    <3> QED BY <3>1, <3>2
  <2> QED BY <1>2, <2>3, <2>4 DEF Send, Typed, linkVars, cacheVars, tellVars
<1>3. ASSUME NEW c \in Caller, SendFails(c) PROVE Typed'
  <2>1. call[c].pc = "sending" /\ Ended(c, "failed")
        /\ (tx' = tx \/ tx' = Append(tx, Commands(call[c].req)[call[c].n + 1]))
    BY <1>3 DEF SendFails
  <2>2. Commands(call[c].req)[call[c].n + 1] \in PacketOf(kind)
    BY <2>1, SendShape
  <2>3. tx' \in Seq(PacketOf(kind))
    <3>1. tx \in Seq(PacketOf(kind))
      BY DEF Typed
    <3> QED BY <2>1, <2>2, <3>1, AppendFacts
  <2>4. call' \in [Caller -> CallOf(kind)]
    BY <2>1, EndedTyped
  <2> QED BY <1>3, <2>3, <2>4 DEF SendFails, Typed, linkVars, cacheVars, tellVars
<1>4. ASSUME NEW c \in Caller, Store(c) PROVE Typed'
  <2> DEFINE r == call[c].req
             n == call[c].n
             s == Stores(r)
  <2>1. /\ call[c].pc = "storing"
        /\ cache' = [cache EXCEPT ![s[n + 1].cell] = s[n + 1].value]
        /\ n + 1 = Len(s) => Goto(c, "telling", 0)
        /\ n + 1 # Len(s) => Goto(c, "storing", n + 1)
    BY <1>4 DEF Store
  <2>2. /\ r \in Askable(kind) /\ n \in {0, 1}
        /\ s[n + 1].cell \in Cells /\ s[n + 1].value \in Values
        /\ s[n + 1].cell = "level" => s[n + 1].value \in Level
    BY <2>1, StoreShape
  <2>3. n + 1 # Len(s) => n = 0 /\ (Anc(kind, r) \/ r.of = "feature")
    <3>1. /\ Anc(kind, r) \/ r.of = "feature" => Len(s) = 2
          /\ ~Anc(kind, r) /\ r.of # "feature" => n = 0 /\ Len(s) = 1
      BY <2>1, StoreShape
    <3>2. CASE Anc(kind, r) \/ r.of = "feature"
      <4>1. CASE n = 0
        BY <3>2, <4>1
      <4>2. CASE n = 1
        BY <3>1, <3>2, <4>2
      <4> QED BY <2>2, <4>1, <4>2
    <3>3. CASE ~Anc(kind, r) /\ r.of # "feature"
      <4>1. n = 0 /\ Len(s) = 1
        BY <3>1, <3>3
      <4>2. n + 1 = 1
        BY <4>1
      <4> QED BY <4>1, <4>2
    <3> QED BY <3>2, <3>3
  <2> HIDE DEF n, s
  <2>4. cache' \in [Cells -> Values] /\ cache'["level"] \in Level \cup {None}
    BY <2>1, <2>2 DEF Typed, Cells
  <2>5. call' \in [Caller -> CallOf(kind)]
    <3>1. CASE n + 1 = Len(s)
      <4>1. [pc |-> "telling", req |-> r, n |-> 0] \in CallOf(kind)
        BY <2>2 DEF CallOf, Askable
      <4> QED BY <2>1, <3>1, <4>1, GotoTyped
    <3>2. CASE n + 1 # Len(s)
      <4>1. [pc |-> "storing", req |-> r, n |-> 1] \in CallOf(kind) /\ n + 1 = 1
        BY <2>2, <2>3, <3>2 DEF CallOf, Askable
      <4>2. Goto(c, "storing", 1)
        BY <2>1, <3>2, <4>1
      <4> QED BY <4>1, <4>2, GotoTyped
    <3> QED BY <3>1, <3>2
  <2> QED BY <1>4, <2>4, <2>5 DEF Store, Typed, linkVars, headsetVars, tellVars
<1> QED BY <1>1, <1>2, <1>3, <1>4 DEF CallStep

-----------------------------------------------------------------------------
(* Publishing.                                                               *)

LEMMA ReadShape ==
    ASSUME Typed, NEW p \in Publisher, Read(p)
    PROVE  /\ Telling(p) /\ Len(view[p]) + 1 \in 1..Len(Followed[kind])
           /\ Followed[kind][Len(view[p]) + 1] \in Cells
           /\ view' = [view EXCEPT ![p] = Append(view[p], cache[Followed[kind][Len(view[p]) + 1]])]
           /\ view[p] \in Seq(Values) /\ cache[Followed[kind][Len(view[p]) + 1]] \in Values
           /\ view' \in [Publisher -> Seq(Values)]
           /\ Len(view'[p]) = Len(view[p]) + 1
           /\ UNCHANGED <<linkVars, headsetVars, cacheVars, call, disp, shown, lapped, crossed,
                          raced, silent>>
<1>1. /\ view[p] \in Seq(Values) /\ Len(view[p]) \in Nat
      /\ Followed[kind] \in Seq(Cells) /\ Len(Followed[kind]) \in Nat
  <2>1. view[p] \in Seq(Values) /\ kind \in Kind
    BY DEF Typed
  <2>2. Followed[kind] \in Seq(Cells)
    BY <2>1, KindFacts
  <2> QED BY <2>1, <2>2
<1>2. Telling(p) /\ Len(view[p]) < Len(Followed[kind])
  BY DEF Read, Devices
<1>3. Len(view[p]) + 1 \in 1..Len(Followed[kind])
  BY <1>1, <1>2
<1>4. Followed[kind][Len(view[p]) + 1] \in Cells
  BY <1>1, <1>3
<1>5. view' = [view EXCEPT ![p] = Append(view[p], cache[Followed[kind][Len(view[p]) + 1]])]
  BY DEF Read, Devices
<1>6. cache[Followed[kind][Len(view[p]) + 1]] \in Values
  BY <1>4 DEF Typed
<1>7. view'[p] = Append(view[p], cache[Followed[kind][Len(view[p]) + 1]])
  BY <1>5 DEF Typed
<1>8. view'[p] \in Seq(Values) /\ Len(view'[p]) = Len(view[p]) + 1
  BY <1>1, <1>6, <1>7, AppendFacts
<1>9. view' \in [Publisher -> Seq(Values)]
  BY <1>5, <1>7, <1>8 DEF Typed
<1> QED BY <1>1, <1>2, <1>3, <1>4, <1>5, <1>6, <1>8, <1>9 DEF Read

LEMMA TellTyped ==
    ASSUME Typed, TellStep
    PROVE  Typed'
<1>1. CASE Take
  <2>1. events' \in Nat
    BY <1>1 DEF Take, Typed
  <2> QED BY <1>1, <2>1 DEF Take, Typed, linkVars, headsetVars
<1>2. CASE Enter
  BY <1>2 DEF Enter, Typed, linkVars, headsetVars, cacheVars
<1>3. ASSUME NEW p \in Publisher, Read(p) PROVE Typed'
  <2>1. /\ view' \in [Publisher -> Seq(Values)] /\ Len(view'[p]) <= Len(Followed[kind])
        /\ \A q \in Publisher \ {p} : view'[q] = view[q]
    <3>1. /\ view' \in [Publisher -> Seq(Values)] /\ Len(view'[p]) = Len(view[p]) + 1
          /\ Len(view[p]) + 1 \in 1..Len(Followed[kind])
      BY <1>3, ReadShape
    <3>2. \A q \in Publisher \ {p} : view'[q] = view[q]
      BY <1>3, ReadShape DEF Typed
    <3>3. Len(Followed[kind]) \in Nat
      BY KindFacts DEF Typed
    <3> QED BY <3>1, <3>2, <3>3
  <2> QED BY <1>3, <2>1 DEF Read, Typed, linkVars, headsetVars, cacheVars
<1>4. ASSUME NEW p \in Publisher, Emit(p) PROVE Typed'
  <2>1. /\ shown' = view[p] /\ view' = [view EXCEPT ![p] = <<>>] /\ Len(view[p]) = Len(Followed[kind])
        /\ crossed' = (p \in lapped) /\ lapped' = {q \in Publisher : q # p /\ view[q] # <<>>}
    BY <1>4 DEF Emit, Devices
  <2>2. shown' \in Seq(Values) /\ Len(shown') = Len(Followed[kind])
    BY <2>1 DEF Typed
  <2>3. view' \in [Publisher -> Seq(Values)]
        /\ \A q \in Publisher : Len(view'[q]) <= Len(Followed[kind])
    BY <2>1, EmptyFacts, KindFacts DEF Typed
  <2>4. call' \in [Caller -> CallOf(kind)] /\ disp' \in {"idle", "waiting", "telling"}
    <3>1. CASE p = Dispatcher
      BY <1>4, <3>1 DEF Emit, Typed
    <3>2. CASE p # Dispatcher
      <4>1. p \in Caller /\ Ended(p, "done") /\ UNCHANGED disp
        BY <1>4, <3>2 DEF Emit, Publisher
      <4> QED BY <4>1, EndedTyped DEF Typed
    <3> QED BY <3>1, <3>2
  <2>5. lapped' \subseteq Publisher /\ crossed' \in BOOLEAN
    BY <2>1
  <2> QED BY <1>4, <2>2, <2>3, <2>4, <2>5 DEF Emit, Typed, linkVars, headsetVars, cacheVars
<1> QED BY <1>1, <1>2, <1>3, <1>4 DEF TellStep

LEMMA TypedStep == Typed /\ [Next]_vars => Typed'
<1> SUFFICES ASSUME Typed, [Next]_vars PROVE Typed'
  OBVIOUS
<1>1. CASE UNCHANGED vars
  BY <1>1 DEF Typed, vars, linkVars, headsetVars, cacheVars, tellVars
<1> QED BY <1>1, LinkTyped, HeadsetTyped, ProcTyped, OldTyped, CallTyped, TellTyped DEF Next

LEMMA TypesFollow == Typed => HeadsetTypeOK
<1> SUFFICES ASSUME Typed PROVE HeadsetTypeOK
  OBVIOUS
<1>1. ASSUME NEW c \in Caller
      PROVE  call[c].pc \in {"new", "sending", "storing", "telling", "done", "failed"}
  BY CallFacts
<1>2. proc.n \in 0..2 /\ (proc.n > 0 => rx # <<>>)
  BY DEF Typed
<1>3. DOMAIN hw = Has(kind) /\ DOMAIN cache = Cells
  BY DEF Typed
<1>4. \A i \in DOMAIN rx : rx[i].of \in DOMAIN hw
  BY <1>3 DEF Typed, FrameOf
<1>5. /\ \A p \in Publisher : Len(view[p]) <= Len(Devices)
      /\ Len(shown) = Len(Devices)
  BY DEF Typed, Devices
<1>6. raced \cup silent \subseteq Cells /\ lapped \subseteq Publisher
  BY DEF Typed
<1>7. /\ \A i \in DOMAIN old.rx : old.rx[i].of \in DOMAIN hw
      /\ old.n \in 0..2 /\ (old.n > 0 => old.rx # <<>>) /\ (old.rx # <<>> => old.alive)
  <2>1. old.rx \in Seq(FrameOf(kind))
    BY OldFacts
  <2>2. \A i \in DOMAIN old.rx : old.rx[i].of \in DOMAIN hw
    BY <1>3, <2>1 DEF FrameOf
  <2> QED BY <2>2, OldFacts
<1>8. chances \in 0..MaxChances[kind]
  BY DEF Typed
<1> QED BY <1>1, <1>2, <1>3, <1>4, <1>5, <1>6, <1>7, <1>8 DEF Typed, HeadsetTypeOK, Kind, Level

LEMMA TypedInvariant == Spec => []Typed
BY TypedInit, TypedStep, PTL DEF Spec

(* Cells, reports, calls and publishers keep their types, for any headsets   *)
(* and requests; in particular no level outside 1..6 is ever shown.          *)
THEOREM AlwaysTyped == Spec => []HeadsetTypeOK
BY TypedInvariant, TypesFollow, PTL

-----------------------------------------------------------------------------
(* What clients are shown.                                                   *)

Cell(i) == Followed[kind][i]
Places == 1..Len(Followed[kind])

\* Whatever changed, somebody will yet publish.
Afoot ==
    \/ proc.changed /\ Head(rx).of # "feature"
    \/ old.changed /\ Head(old.rx).of # "feature"
    \/ events > 0 \/ disp = "waiting"
    \/ \E c \in Caller : call[c].pc = "storing"

\* A publisher at work has this cell still to read, or has read what it is.
Unread(i) == \E p \in Publisher : Telling(p) /\ Len(view[p]) < i
Carried(i) == \E p \in Publisher : i <= Len(view[p]) /\ view[p][i] = cache[Cell(i)]

\* What was shown is right, and whoever still carries something else was overtaken.
Settled(i) ==
    /\ crossed \/ shown[i] = cache[Cell(i)]
    /\ \A p \in Publisher : i <= Len(view[p]) => p \in lapped

Covered(i) == Cell(i) \in silent \/ Afoot \/ Unread(i) \/ Carried(i) \/ Settled(i)

ReadersTell == \A p \in Publisher : view[p] # <<>> => Telling(p)

TellInv == ReadersTell /\ \A i \in Places : Covered(i)

LEMMA PublisherFacts ==
    ASSUME NEW p \in Publisher, p # Dispatcher
    PROVE  p \in Caller
BY DEF Publisher

LEMMA PlaceFacts ==
    ASSUME Typed, NEW i \in Places
    PROVE  /\ i \in Nat \ {0} /\ Cell(i) \in Cells
           /\ Len(Followed[kind]) \in Nat /\ i <= Len(Followed[kind])
           /\ \A p \in Publisher : view[p] \in Seq(Values) /\ Len(view[p]) \in Nat
<1>1. Followed[kind] \in Seq(Cells)
  BY KindFacts DEF Typed
<1>2. \A p \in Publisher : view[p] \in Seq(Values)
  BY DEF Typed
<1> QED BY <1>1, <1>2 DEF Cell, Places

LEMMA TellInit == Init => TellInv
<1> SUFFICES ASSUME Init PROVE TellInv
  OBVIOUS
<1>1. \A p \in Publisher : view[p] = <<>>
  BY DEF Init
<1>2. ASSUME NEW i \in Places PROVE Settled(i)
  <2>1. i \in DOMAIN Devices /\ i \in Nat \ {0}
    <3>1. Followed[kind] \in Seq(Cells)
      BY KindFacts DEF Init, Kind
    <3> QED BY <3>1 DEF Places, Devices
  <2>2. shown[i] = cache[Cell(i)]
    BY <2>1 DEF Init, Cell, Devices
  <2>3. \A p \in Publisher : ~(i <= Len(view[p]))
    BY <1>1, <2>1
  <2> QED BY <2>2, <2>3 DEF Settled
<1> QED BY <1>1, <1>2 DEF TellInv, ReadersTell, Covered

(* A step that publishes nothing: each cell it changes is covered.           *)
LEMMA CoveredKept ==
    ASSUME Typed, TellInv, UNCHANGED <<kind, disp, view, shown, lapped, crossed>>, silent \subseteq silent',
           \A c \in Caller : call[c].pc = "telling" => call'[c].pc = "telling",
           \A i \in Places : \/ Cell(i) \in silent' \/ Afoot'
                             \/ cache'[Cell(i)] = cache[Cell(i)] /\ (Afoot => Afoot')
    PROVE  TellInv'
<1>1. \A p \in Publisher : Telling(p) => Telling(p)'
  BY PublisherFacts DEF Telling
<1>2. ReadersTell'
  BY <1>1 DEF TellInv, ReadersTell
<1>3. ASSUME NEW i \in Places PROVE Covered(i)'
  <2>1. Cell(i)' = Cell(i)
    BY DEF Cell
  <2>2. CASE Cell(i) \in silent' \/ Afoot'
    BY <2>1, <2>2 DEF Covered
  <2>3. CASE cache'[Cell(i)] = cache[Cell(i)] /\ (Afoot => Afoot')
    <3>1. Unread(i) => Unread(i)'
      BY <1>1 DEF Unread
    <3>2. Carried(i) => Carried(i)'
      BY <2>1, <2>3 DEF Carried
    <3>3. Settled(i) => Settled(i)'
      BY <2>1, <2>3 DEF Settled
    <3>4. Covered(i)
      BY DEF TellInv
    <3> QED BY <2>1, <2>3, <3>1, <3>2, <3>3, <3>4 DEF Covered
  <2> QED BY <2>2, <2>3
<1>4. Places' = Places
  BY DEF Places
<1> QED BY <1>2, <1>3, <1>4 DEF TellInv

(* What a processor has changed is still to be told after its connection is  *)
(* taken.                                                                    *)
LEMMA TellTaken ==
    ASSUME Typed, TellInv, Taken, ~old.changed
    PROVE  TellInv'
<1>1. /\ proc.n > 0 => Head(old'.rx) = Head(rx)
      /\ old'.changed = proc.changed
      /\ UNCHANGED <<kind, cache, events, call, tellVars, silent>>
  BY TakenShape
<1>2. proc.changed => proc.n > 0
  BY DEF Typed
<1>3. Afoot => Afoot'
  BY <1>1, <1>2 DEF Afoot, tellVars
<1> QED BY <1>1, <1>3, CoveredKept DEF tellVars

(* A change of the headset leaves both processors the report they are at.    *)
LEMMA TellBecomes ==
    ASSUME Typed, NEW a \in Has(kind), NEW v \in Values, a = "anc" => v \in AncReport,
           Becomes(a, v)
    PROVE  /\ rx # <<>> => Head(rx') = Head(rx)
           /\ old'.changed = old.changed /\ (old.changed => Head(old'.rx) = Head(old.rx))
<1>1. old.changed => old.rx # <<>>
  BY OldFacts
<1> QED BY <1>1, BecomesTyped

LEMMA TellLink ==
    ASSUME Typed, TellInv, LinkStep \/ HeadsetStep
    PROVE  TellInv'
<1>1. CASE Disconnect
  <2>1. ~old.alive => ~old.changed
    BY OldFacts
  <2> QED BY <1>1, <2>1, TellTaken DEF Disconnect
<1>2. CASE Connect \/ Drop \/ TearDown \/ Obey \/ Worn
  <2>1. UNCHANGED <<kind, cache, proc, events, call, tellVars, silent>>
    BY <1>2 DEF Connect, Drop, TearDown, Obey, Worn, linkVars, cacheVars
  <2>2. /\ proc.changed => Head(rx') = Head(rx)
        /\ old'.changed = old.changed /\ (old.changed => Head(old'.rx) = Head(old.rx))
    <3>1. proc.changed => proc.n > 0 /\ rx # <<>>
      BY DEF Typed
    <3>2. rx \in Seq(FrameOf(kind))
      BY DEF Typed
    <3>3. CASE Connect \/ TearDown
      BY <3>3 DEF Connect, TearDown, cacheVars
    <3>4. CASE Drop
      <4>1. rx' \in Received /\ UNCHANGED old
        BY <3>4 DEF Drop
      <4>2. proc.n > 0 => Head(rx') = Head(rx)
        BY <4>1, ReceivedFacts
      <4> QED BY <3>1, <4>1, <4>2
    <3>5. CASE Obey
      <4> DEFINE p == Head(tx)
      <4>1. tx # <<>> /\ p \in PacketOf(kind)
        BY <3>5, TailFacts DEF Obey, Typed
      <4>2. CASE p.of = "read"
        <5>1. p.value \in AskedBy(kind) \cup {"all"}
          BY <4>1, <4>2 DEF PacketOf
        <5> DEFINE t == [i \in DOMAIN Answers(p.value) |->
                           Frame(Answers(p.value)[i], hw[Answers(p.value)[i]])]
        <5>2. t \in Seq(FrameOf(kind)) /\ rx' = rx \o t /\ UNCHANGED old
          BY <3>5, <4>2, <5>1, AnswersTyped DEF Obey
        <5> HIDE DEF t
        <5>3. rx # <<>> => Head(rx') = Head(rx)
          BY <3>2, <5>2, ConcatFacts
        <5> QED BY <3>1, <5>2, <5>3
      <4>3. CASE p.of # "read"
        <5>1. Becomes(p.of, Applied(p, hw[p.of]))
          BY <3>5, <4>3 DEF Obey
        <5>2. /\ p.of \in Has(kind) /\ Applied(p, hw[p.of]) \in Values
              /\ p.of = "anc" => Applied(p, hw[p.of]) \in AncReport
          BY <4>1, <4>3, AppliedTyped
        <5> QED BY <3>1, <5>1, <5>2, TellBecomes
      <4> QED BY <4>2, <4>3
    <3>6. CASE Worn
      <4>1. PICK w \in Wear[kind] : Becomes(w.of, w.value)
        BY <3>6 DEF Worn
      <4>2. w.of \in Has(kind) /\ w.value \in Values /\ (w.of = "anc" => w.value \in AncReport)
        BY HeadsetAssumption, ValueFacts DEF Typed, Kind
      <4> QED BY <3>1, <4>1, <4>2, TellBecomes
    <3> QED BY <1>2, <3>3, <3>4, <3>5, <3>6
  <2>3. Afoot => Afoot'
    BY <2>1, <2>2 DEF Afoot, tellVars
  <2> QED BY <2>1, <2>3, CoveredKept DEF tellVars
<1> QED BY <1>1, <1>2 DEF LinkStep, HeadsetStep

LEMMA TellProc ==
    ASSUME Typed, TellInv, ProcStep
    PROVE  TellInv'
<1>1. CASE Update
  <2> DEFINE u == Updates(Head(rx))[proc.n + 1]
             new == cache[u.cell] # u.value
  <2>1. /\ cache' = [cache EXCEPT ![u.cell] = u.value]
        /\ proc' = [n |-> proc.n + 1, changed |-> proc.changed \/ new]
        /\ silent' = (IF new /\ Head(rx).of = "feature" THEN silent \cup {u.cell} ELSE silent)
        /\ UNCHANGED <<kind, rx, old, events, call, disp, view, shown, lapped, crossed>>
    BY <1>1 DEF Update, linkVars, tellVars
  <2> HIDE DEF u
  <2>2. \A x \in Cells \ {u.cell} : cache'[x] = cache[x]
    BY <2>1 DEF Typed
  <2>3. proc'.changed = (proc.changed \/ new)
    BY <2>1
  <2> HIDE DEF new
  <2>4. Afoot => Afoot'
    BY <2>1, <2>3 DEF Afoot
  <2>5. ASSUME NEW i \in Places
        PROVE  \/ Cell(i) \in silent' \/ Afoot'
               \/ cache'[Cell(i)] = cache[Cell(i)] /\ (Afoot => Afoot')
    <3>0. Cell(i) \in Cells
      BY PlaceFacts
    <3>1. CASE Cell(i) # u.cell
      BY <2>2, <2>4, <3>0, <3>1
    <3>2. CASE new /\ Head(rx).of = "feature" /\ Cell(i) = u.cell
      BY <2>1, <3>2
    <3>3. CASE new /\ Head(rx).of # "feature"
      BY <2>1, <2>3, <3>3 DEF Afoot
    <3>4. CASE ~new
      <4>1. cache' = cache
        BY <2>1, <3>4 DEF new, Typed
      <4> QED BY <2>4, <4>1
    <3> QED BY <3>1, <3>2, <3>3, <3>4
  <2>6. silent \subseteq silent'
    BY <2>1
  <2> QED BY <2>1, <2>5, <2>6, CoveredKept
<1>2. CASE Processed
  <2>1. /\ events' = events + Told
        /\ UNCHANGED <<kind, cache, old, call, disp, view, shown, lapped, crossed, silent>>
    BY <1>2 DEF Processed, linkVars, tellVars
  <2>2. /\ events \in Nat
        /\ proc.changed /\ Head(rx).of # "feature" => Told = 1
        /\ Told \in {0, 1}
    BY DEF Told, Event, Typed
  <2>3. events > 0 \/ Told = 1 => events' > 0
    BY <2>1, <2>2
  <2>4. Afoot => Afoot'
    BY <2>1, <2>2, <2>3 DEF Afoot
  <2> QED BY <2>1, <2>4, CoveredKept
<1> QED BY <1>1, <1>2 DEF ProcStep

LEMMA TellOld ==
    ASSUME Typed, TellInv, OldStep
    PROVE  TellInv'
<1>1. CASE OldUpdate
  <2> DEFINE u == Updates(Head(old.rx))[old.n + 1]
             new == cache[u.cell] # u.value
  <2>1. /\ cache' = [cache EXCEPT ![u.cell] = u.value]
        /\ old' = [old EXCEPT !.n = old.n + 1, !.changed = old.changed \/ new]
        /\ silent' = (IF new /\ Head(old.rx).of = "feature" THEN silent \cup {u.cell} ELSE silent)
        /\ UNCHANGED <<kind, rx, proc, events, call, disp, view, shown, lapped, crossed>>
    BY <1>1 DEF OldUpdate, tellVars
  <2> HIDE DEF u
  <2>2. \A x \in Cells \ {u.cell} : cache'[x] = cache[x]
    BY <2>1 DEF Typed
  <2>3. old'.changed = (old.changed \/ new) /\ old'.rx = old.rx
    <3>1. old = [alive |-> old.alive, rx |-> old.rx, n |-> old.n, changed |-> old.changed]
      BY OldFacts
    <3> HIDE DEF new
    <3> QED BY <2>1, <3>1
  <2> HIDE DEF new
  <2>4. Afoot => Afoot'
    BY <2>1, <2>3 DEF Afoot
  <2>5. ASSUME NEW i \in Places
        PROVE  \/ Cell(i) \in silent' \/ Afoot'
               \/ cache'[Cell(i)] = cache[Cell(i)] /\ (Afoot => Afoot')
    <3>0. Cell(i) \in Cells
      BY PlaceFacts
    <3>1. CASE Cell(i) # u.cell
      BY <2>2, <2>4, <3>0, <3>1
    <3>2. CASE new /\ Head(old.rx).of = "feature" /\ Cell(i) = u.cell
      BY <2>1, <3>2
    <3>3. CASE new /\ Head(old.rx).of # "feature"
      BY <2>3, <3>3 DEF Afoot
    <3>4. CASE ~new
      <4>1. cache' = cache
        BY <2>1, <3>4 DEF new, Typed
      <4> QED BY <2>4, <4>1
    <3> QED BY <3>1, <3>2, <3>3, <3>4
  <2>6. silent \subseteq silent'
    BY <2>1
  <2> QED BY <2>1, <2>5, <2>6, CoveredKept
<1>2. CASE OldProcessed
  <2>1. /\ events' = events + Event(old.changed, Head(old.rx))
        /\ UNCHANGED <<kind, cache, rx, proc, call, disp, view, shown, lapped, crossed, silent>>
    BY <1>2 DEF OldProcessed, tellVars
  <2>2. /\ events \in Nat
        /\ old.changed /\ Head(old.rx).of # "feature" => Event(old.changed, Head(old.rx)) = 1
        /\ Event(old.changed, Head(old.rx)) \in {0, 1}
    BY DEF Event, Typed
  <2>3. events > 0 \/ Event(old.changed, Head(old.rx)) = 1 => events' > 0
    BY <2>1, <2>2
  <2>4. Afoot => Afoot'
    BY <2>1, <2>2, <2>3 DEF Afoot
  <2> QED BY <2>1, <2>4, CoveredKept
<1>3. CASE OldEnds
  <2>1. ~old.changed
    BY <1>3, OldFacts DEF OldEnds
  <2>2. CASE link # "down"
    BY <1>3, <2>1, <2>2, TellTaken DEF OldEnds
  <2>3. CASE link = "down"
    <3>1. UNCHANGED <<kind, cache, rx, proc, events, call, disp, view, shown, lapped, crossed, silent>>
      BY <1>3, <2>3 DEF OldEnds, cacheVars, tellVars
    <3>2. Afoot => Afoot'
      BY <2>1, <3>1 DEF Afoot
    <3> QED BY <3>1, <3>2, CoveredKept
  <2> QED BY <2>2, <2>3
<1> QED BY <1>1, <1>2, <1>3 DEF OldStep

LEMMA TellCall ==
    ASSUME Typed, TellInv, CallStep
    PROVE  TellInv'
<1>1. ASSUME NEW c \in Caller, Begin(c) \/ Send(c) \/ SendFails(c) PROVE TellInv'
  <2>1. /\ call[c].pc \in {"new", "sending"}
        /\ UNCHANGED <<kind, old, cacheVars, tellVars, silent>>
    BY <1>1 DEF Begin, Send, SendFails, linkVars
  <2>2. \A d \in Caller \ {c} : call'[d] = call[d]
    BY <1>1 DEF Begin, Send, SendFails, Ended, Goto, Typed
  <2>3. Afoot => Afoot'
    BY <2>1, <2>2 DEF Afoot, cacheVars, tellVars
  <2>4. \A d \in Caller : call[d].pc = "telling" => call'[d].pc = "telling"
    BY <2>1, <2>2
  <2> QED BY <2>1, <2>3, <2>4, CoveredKept DEF cacheVars, tellVars
<1>2. ASSUME NEW c \in Caller, Store(c) PROVE TellInv'
  <2>1. call[c].pc = "storing" /\ UNCHANGED <<kind, disp, view, shown, lapped, crossed, silent>>
    BY <1>2 DEF Store, linkVars, tellVars
  <2>2. /\ c \in Publisher /\ c # Dispatcher /\ ~Telling(c)
    BY <2>1, DispatcherAssumption DEF Publisher, Telling
  <2>3. view[c] = <<>>
    BY <2>2 DEF TellInv, ReadersTell
  <2>4. \E n : Goto(c, "telling", 0) \/ Goto(c, "storing", n)
    BY <1>2 DEF Store
  <2>5. /\ \A d \in Caller \ {c} : call'[d] = call[d]
        /\ call'[c].pc \in {"telling", "storing"}
    BY <2>4 DEF Goto, Typed, CallOf
  <2>6. \A p \in Publisher : p # c => (Telling(p)' <=> Telling(p))
    BY <2>1, <2>5, PublisherFacts DEF Telling
  <2>7. ReadersTell'
    BY <2>1, <2>3, <2>6 DEF TellInv, ReadersTell
  <2>8. ASSUME NEW i \in Places PROVE Covered(i)'
    <3>1. CASE call'[c].pc = "storing"
      BY <3>1 DEF Covered, Afoot
    <3>2. CASE call'[c].pc = "telling"
      <4>1. Telling(c)' /\ Len(view'[c]) = 0 /\ 0 < i
        BY <2>1, <2>2, <2>3, <3>2, PlaceFacts DEF Telling
      <4> QED BY <2>2, <4>1 DEF Covered, Unread
    <3> QED BY <2>5, <3>1, <3>2
  <2>9. Places' = Places
    BY <2>1 DEF Places
  <2> QED BY <2>7, <2>8, <2>9 DEF TellInv
<1> QED BY <1>1, <1>2 DEF CallStep

LEMMA TellRead ==
    ASSUME Typed, TellInv, NEW p \in Publisher, Read(p)
    PROVE  TellInv'
<1> DEFINE j == Len(view[p]) + 1
<1>1. /\ Telling(p) /\ j \in Places /\ Len(view[p]) \in Nat
      /\ view' = [view EXCEPT ![p] = Append(view[p], cache[Cell(j)])]
      /\ view[p] \in Seq(Values) /\ cache[Cell(j)] \in Values
      /\ UNCHANGED <<kind, cache, proc, rx, old, events, call, disp, shown, lapped, crossed, silent>>
  BY ReadShape DEF Cell, Places, linkVars, cacheVars
<1>2. /\ view'[p] = Append(view[p], cache[Cell(j)])
      /\ \A q \in Publisher \ {p} : view'[q] = view[q]
  BY <1>1 DEF Typed
<1>3. /\ Len(view'[p]) = j /\ view'[p][j] = cache[Cell(j)]
      /\ \A i \in 1..Len(view[p]) : view'[p][i] = view[p][i]
  BY <1>1, <1>2, AppendFacts
<1>4. \A q \in Publisher : Telling(q)' <=> Telling(q)
  BY <1>1 DEF Telling
<1>5. ReadersTell'
  BY <1>1, <1>2, <1>4 DEF TellInv, ReadersTell
<1> HIDE DEF j
<1>6. ASSUME NEW i \in Places PROVE Covered(i)'
  <2>0. /\ i \in Nat \ {0} /\ Cell(i)' = Cell(i) /\ Covered(i) /\ j = Len(view[p]) + 1
        /\ \A q \in Publisher : Len(view[q]) \in Nat
    BY <1>1, PlaceFacts DEF TellInv, Cell, j
  <2>1. CASE i = j
    <3>1. i <= Len(view'[p]) /\ view'[p][i] = cache'[Cell(i)']
      BY <1>1, <1>3, <2>0, <2>1
    <3> QED BY <3>1 DEF Covered, Carried
  <2>2. CASE i # j
    <3>1. Afoot => Afoot'
      BY <1>1 DEF Afoot
    <3>2. Unread(i) => Unread(i)'
      <4> SUFFICES ASSUME NEW q \in Publisher, Telling(q), Len(view[q]) < i
                   PROVE  Telling(q)' /\ Len(view'[q]) < i
        BY DEF Unread
      <4>1. CASE q = p
        BY <1>1, <1>3, <1>4, <2>0, <2>2, <4>1
      <4>2. CASE q # p
        BY <1>2, <1>4, <4>2
      <4> QED BY <4>1, <4>2
    <3>3. Carried(i) => Carried(i)'
      <4> SUFFICES ASSUME NEW q \in Publisher, i <= Len(view[q]), view[q][i] = cache[Cell(i)]
                   PROVE  i <= Len(view'[q]) /\ view'[q][i] = cache'[Cell(i)']
        BY DEF Carried
      <4>1. CASE q = p
        BY <1>1, <1>3, <2>0, <4>1
      <4>2. CASE q # p
        BY <1>1, <1>2, <2>0, <4>2
      <4> QED BY <4>1, <4>2
    <3>4. Settled(i) => Settled(i)'
      <4> SUFFICES ASSUME Settled(i), NEW q \in Publisher, i <= Len(view'[q])
                   PROVE  q \in lapped
        BY <1>1, <2>0 DEF Settled
      <4>1. i <= Len(view[q])
        BY <1>2, <1>3, <2>0, <2>2
      <4> QED BY <4>1 DEF Settled
    <3> QED BY <1>1, <2>0, <3>1, <3>2, <3>3, <3>4 DEF Covered
  <2> QED BY <2>1, <2>2
<1>7. Places' = Places
  BY <1>1 DEF Places
<1> QED BY <1>5, <1>6, <1>7 DEF TellInv

LEMMA TellEmit ==
    ASSUME Typed, TellInv, NEW p \in Publisher, Emit(p)
    PROVE  TellInv'
<1>1. /\ Telling(p) /\ Len(view[p]) = Len(Followed[kind])
      /\ shown' = view[p] /\ view' = [view EXCEPT ![p] = <<>>]
      /\ crossed' = (p \in lapped) /\ lapped' = {q \in Publisher : q # p /\ view[q] # <<>>}
      /\ UNCHANGED <<kind, cache, proc, rx, old, events, silent>>
  BY DEF Emit, Devices, linkVars, cacheVars
<1>2. view'[p] = <<>> /\ \A q \in Publisher \ {p} : view'[q] = view[q]
  BY <1>1 DEF Typed
<1>3. /\ \A q \in Publisher \ {p} : Telling(q) => Telling(q)'
      /\ disp = "waiting" => disp' = "waiting"
      /\ \A c \in Caller : call[c].pc = "storing" => call'[c].pc = "storing"
  <2>1. CASE p = Dispatcher
    BY <1>1, <2>1, PublisherFacts DEF Emit, Telling
  <2>2. CASE p # Dispatcher
    <3>1. p \in Caller /\ call[p].pc = "telling" /\ Ended(p, "done") /\ UNCHANGED disp
      BY <1>1, <2>2, PublisherFacts DEF Emit, Telling
    <3>2. \A c \in Caller \ {p} : call'[c] = call[c]
      BY <3>1 DEF Ended, Typed
    <3> QED BY <3>1, <3>2, PublisherFacts DEF Telling
  <2> QED BY <2>1, <2>2
<1>4. ReadersTell'
  BY <1>2, <1>3 DEF TellInv, ReadersTell
<1>5. ASSUME NEW i \in Places PROVE Covered(i)'
  <2>0. /\ i \in Nat \ {0} /\ Cell(i)' = Cell(i) /\ Covered(i) /\ i <= Len(view[p])
        /\ \A q \in Publisher : Len(view[q]) \in Nat
        /\ Len(<<>>) = 0
    BY <1>1, PlaceFacts DEF TellInv, Cell
  <2>1. \A q \in Publisher : i <= Len(view'[q]) => q \in lapped'
    <3> SUFFICES ASSUME NEW q \in Publisher, i <= Len(view'[q]) PROVE q \in lapped'
      OBVIOUS
    <3>1. q # p
      BY <1>2, <2>0
    <3>2. view[q] # <<>>
      BY <1>2, <2>0, <3>1
    <3> QED BY <1>1, <3>1, <3>2
  <2>2. CASE Cell(i) \in silent \/ Afoot
    BY <1>1, <1>3, <2>0, <2>2 DEF Covered, Afoot
  <2>3. CASE Unread(i)
    <3>1. PICK q \in Publisher : Telling(q) /\ Len(view[q]) < i
      BY <2>3 DEF Unread
    <3>2. q # p
      BY <2>0, <3>1
    <3>3. Telling(q)' /\ Len(view'[q]) < i
      BY <1>2, <1>3, <3>1, <3>2
    <3> QED BY <3>3 DEF Covered, Unread
  <2>4. CASE Carried(i)
    <3>1. PICK q \in Publisher : i <= Len(view[q]) /\ view[q][i] = cache[Cell(i)]
      BY <2>4 DEF Carried
    <3>2. CASE q = p
      <4>1. shown'[i] = cache'[Cell(i)']
        BY <1>1, <2>0, <3>1, <3>2
      <4> QED BY <2>1, <4>1 DEF Covered, Settled
    <3>3. CASE q # p
      <4>1. i <= Len(view'[q]) /\ view'[q][i] = cache'[Cell(i)']
        BY <1>1, <1>2, <2>0, <3>1, <3>3
      <4> QED BY <4>1 DEF Covered, Carried
    <3> QED BY <3>2, <3>3
  <2>5. CASE Settled(i)
    <3>1. crossed'
      BY <1>1, <2>0, <2>5 DEF Settled
    <3> QED BY <2>1, <3>1 DEF Covered, Settled
  <2> QED BY <2>0, <2>2, <2>3, <2>4, <2>5 DEF Covered
<1>6. Places' = Places
  BY <1>1 DEF Places
<1> QED BY <1>4, <1>5, <1>6 DEF TellInv

LEMMA TellTell ==
    ASSUME Typed, TellInv, TellStep
    PROVE  TellInv'
<1>1. CASE Take
  <2>1. disp = "idle" /\ disp' = "waiting" /\ UNCHANGED <<kind, call, view>>
    BY <1>1 DEF Take, linkVars
  <2>2. \A q \in Publisher : Telling(q) => Telling(q)'
    BY <2>1 DEF Telling
  <2>3. Afoot' /\ Places' = Places
    BY <2>1 DEF Afoot, Places
  <2> QED BY <2>1, <2>2, <2>3 DEF TellInv, ReadersTell, Covered
<1>2. CASE Enter
  <2>1. disp = "waiting" /\ disp' = "telling" /\ UNCHANGED <<kind, call, view>>
    BY <1>2 DEF Enter, linkVars
  <2>2. \A q \in Publisher : Telling(q) => Telling(q)'
    BY <2>1 DEF Telling
  <2>3. Dispatcher \in Publisher /\ ~Telling(Dispatcher) /\ Telling(Dispatcher)'
    BY <2>1 DEF Telling, Publisher
  <2>4. view'[Dispatcher] = <<>>
    BY <2>1, <2>3 DEF TellInv, ReadersTell
  <2>5. ASSUME NEW i \in Places PROVE Covered(i)'
    <3>1. Len(view'[Dispatcher]) < i
      BY <2>4, PlaceFacts
    <3> QED BY <2>3, <3>1 DEF Covered, Unread
  <2>6. Places' = Places
    BY <2>1 DEF Places
  <2> QED BY <2>1, <2>2, <2>5, <2>6 DEF TellInv, ReadersTell
<1> QED BY <1>1, <1>2, TellRead, TellEmit DEF TellStep

LEMMA TellNext == Typed /\ TellInv /\ [Next]_vars => TellInv'
<1> SUFFICES ASSUME Typed, TellInv, [Next]_vars PROVE TellInv'
  OBVIOUS
<1>1. CASE UNCHANGED vars
  <2>1. Afoot => Afoot'
    BY <1>1 DEF vars, linkVars, cacheVars, tellVars, Afoot
  <2> QED BY <1>1, <2>1, CoveredKept DEF vars, linkVars, cacheVars, tellVars
<1> QED BY <1>1, TellLink, TellProc, TellOld, TellCall, TellTell DEF Next

LEMMA TellShown == Typed /\ TellInv => ShownIsKnown
<1> SUFFICES ASSUME Typed, TellInv, CallsEnded, disp = "idle", events = 0, proc.n = 0, old.n = 0, ~crossed,
                    NEW i \in DOMAIN Devices, Devices[i] \notin silent
             PROVE  shown[i] = cache[Devices[i]]
  BY DEF ShownIsKnown
<1>1. i \in Places /\ Cell(i) = Devices[i]
  <2>1. Followed[kind] \in Seq(Cells)
    BY KindFacts DEF Typed
  <2> QED BY <2>1 DEF Devices, Places, Cell
<1>2. ~Afoot
  <2>1. ~proc.changed /\ ~old.changed
    BY OldFacts DEF Typed
  <2>2. ~(events > 0) /\ disp # "waiting"
    OBVIOUS
  <2>3. ASSUME NEW c \in Caller PROVE call[c].pc # "storing"
    BY DEF CallsEnded
  <2> QED BY <2>1, <2>2, <2>3 DEF Afoot
<1>3. \A p \in Publisher : ~Telling(p) /\ view[p] = <<>>
  BY PublisherFacts DEF Telling, CallsEnded, TellInv, ReadersTell
<1>4. ~Unread(i) /\ ~Carried(i)
  BY <1>1, <1>3, PlaceFacts DEF Unread, Carried
<1>5. Settled(i)
  BY <1>1, <1>2, <1>4 DEF TellInv, Covered
<1> QED BY <1>1, <1>5 DEF Settled

(* When nothing is under way clients have been shown what the service knows, *)
(* except features a headset changed by itself and after two calls overtook  *)
(* one another (dbus.rs:110).                                                *)
THEOREM AlwaysShownIsKnown == Spec => []ShownIsKnown
BY TypedInvariant, TellInit, TellNext, TellShown, PTL DEF Spec

-----------------------------------------------------------------------------
(* What the cells follow.                                                    *)

\* The attribute a cell comes from, and where a report or a call writes it.
SourceOf(k, x) == IF k = "nothing" /\ x \in {"level", "mode"} THEN "anc" ELSE x
PlaceOf(k, x) == IF x = "feature" \/ (k = "nothing" /\ x = "mode") THEN 2 ELSE 1

\* The cells of the attributes a new connection asks for.
ReportedCells(k) ==
    IF k = "nothing" THEN {"level", "mode"} \cup (AskedBy(k) \ {"anc"}) ELSE AskedBy(k)

\* An ANC report of a level, and a value that is right for a cell.
Shows(w, l) == w[1] = LevelStatus[l] /\ (l \in {1, 2} \/ w[2] \in {None, LevelStatus[l]})
Fits(k, x, w, v) ==
    IF SourceOf(k, x) = "anc"
    THEN \A l \in Level : Shows(w, l) => v = (IF x = "level" THEN l ELSE LevelMode[l])
    ELSE v = w

\* What a call stores in a cell.
Touches(k, r, x) == IF Anc(k, r) THEN x \in {"level", "mode"} ELSE x = r.of
ValueFor(k, r, x) ==
    IF ~Anc(k, r) THEN r.value
    ELSE IF x = "level" THEN LevelAsked(r) ELSE LevelMode[LevelAsked(r)]

\* A packet that neither changes an attribute nor has it reported.
ReadBy(k, v) == IF v = "all" THEN AskedBy(k) ELSE {v}
Idle(k, p, a, w) ==
    /\ p.of = "read" => a \notin ReadBy(k, p.value)
    /\ p.of = a => Applied(p, w) = w

LEMMA CellFacts ==
    ASSUME NEW k \in Kind, NEW x \in ReportedCells(k)
    PROVE  /\ x \in Cells /\ x \notin {"present", "ring", "anc", "read"}
           /\ SourceOf(k, x) \in AskedBy(k) /\ SourceOf(k, x) \in Has(k)
           /\ SourceOf(k, x) \notin {"ring", "read", "all"}
           /\ PlaceOf(k, x) \in {1, 2}
           /\ SourceOf(k, x) = "anc" => k = "nothing" /\ x \in {"level", "mode"}
           /\ SourceOf(k, x) # "anc" => SourceOf(k, x) = x /\ x \notin {"level"}
                                        /\ (k = "nothing" => x # "mode")
<1>1. /\ Has("nothing") \subseteq {"anc", "eq", "ring", "battery"}
      /\ Has("airpods") \subseteq {"mode", "ear", "battery", "feature"}
      /\ AskedBy(k) \subseteq Has(k) \ {"ring"}
  BY HeadsetAssumption, KindFacts
<1>2. CASE k = "nothing"
  <2>1. "anc" \in AskedBy(k)
    BY <1>2, HeadsetAssumption DEF AskedBy
  <2>2. x \in {"level", "mode"} \/ (x \in AskedBy(k) /\ x \in {"eq", "battery"})
    BY <1>1, <1>2 DEF ReportedCells
  <2> QED BY <1>1, <1>2, <2>1, <2>2 DEF SourceOf, PlaceOf, Cells
<1>3. CASE k # "nothing"
  <2>1. x \in AskedBy(k) /\ x \in {"mode", "ear", "battery", "feature"} /\ k = "airpods"
    BY <1>1, <1>3 DEF ReportedCells, Kind
  <2> QED BY <1>1, <1>3, <2>1 DEF SourceOf, PlaceOf, Cells
<1> QED BY <1>2, <1>3

(* Two reports of a mode are of the same level.                              *)
LEMMA StatusLevels ==
    ASSUME NEW l \in Level, NEW m \in Level, LevelStatus[l] = LevelStatus[m]
    PROVE  l = m
<1>1. StatusLevel[LevelStatus[l]] = l /\ StatusLevel[LevelStatus[m]] = m
  BY LevelTable
<1> QED BY <1>1

(* The update of a cell is in its place, and right.                          *)
LEMMA UpdateFits ==
    ASSUME NEW k \in Kind, NEW f \in FrameOf(k), NEW x \in ReportedCells(k)
    PROVE  /\ \A n \in 1..Len(Updates(f)) :
                 Updates(f)[n].cell = x <=> f.of = SourceOf(k, x) /\ n = PlaceOf(k, x)
           /\ \A n \in 1..Len(Updates(f)) :
                 Updates(f)[n].cell = x => Fits(k, x, f.value, Updates(f)[n].value)
           /\ f.of = SourceOf(k, x) /\ Len(Updates(f)) < PlaceOf(k, x)
                 => \A v : Fits(k, x, f.value, v)
<1> DEFINE U == Updates(f)
<1>1. /\ x \in Cells /\ x \notin {"present", "ring", "anc", "read"}
      /\ PlaceOf(k, x) \in {1, 2}
      /\ SourceOf(k, x) = "anc" => k = "nothing" /\ x \in {"level", "mode"}
      /\ SourceOf(k, x) # "anc" => SourceOf(k, x) = x /\ x \notin {"level"}
                                   /\ (k = "nothing" => x # "mode")
  BY CellFacts
<1>2. CASE f.of = "anc"
  <2> DEFINE l == ParseAnc(f.value)
  <2>1. k = "nothing" /\ f.value \in AncReport
    BY <1>2, HeadsetAssumption DEF FrameOf, Kind
  <2>2. \A m \in Level : Shows(f.value, m) => l = m
    BY <2>1, ParseFacts DEF Shows
  <2>3. f.of = SourceOf(k, x) <=> x \in {"level", "mode"}
    BY <1>1, <1>2, <2>1 DEF SourceOf
  <2> HIDE DEF l
  <2>4. CASE l = 0 /\ U = <<>>
    <3>1. \A m \in Level : ~Shows(f.value, m)
      BY <2>2, <2>4 DEF Level
    <3>2. \A v : f.of = SourceOf(k, x) => Fits(k, x, f.value, v)
      BY <1>2, <3>1 DEF Fits
    <3>3. Len(U) = 0
      BY <2>4
    <3> QED BY <3>2, <3>3
  <2>5. CASE l \in Level /\ U = <<Put("level", l), Put("mode", LevelMode[l])>>
    <3>1. Len(U) = 2 /\ U[1] = Put("level", l) /\ U[2] = Put("mode", LevelMode[l])
      BY <2>5
    <3>2. /\ U[1].cell = "level" /\ U[1].value = l
          /\ U[2].cell = "mode" /\ U[2].value = LevelMode[l]
      BY <3>1 DEF Put
    <3> HIDE DEF U
    <3>3. x \in {"level", "mode"} => SourceOf(k, x) = "anc"
      BY <2>1 DEF SourceOf
    <3>4. PlaceOf(k, "level") = 1 /\ PlaceOf(k, "mode") = 2
      BY <2>1 DEF PlaceOf
    <3>5. ASSUME NEW n \in 1..2
          PROVE  /\ U[n].cell = x <=> f.of = SourceOf(k, x) /\ n = PlaceOf(k, x)
                 /\ U[n].cell = x => Fits(k, x, f.value, U[n].value)
      <4>1. CASE n = 1
        BY <2>2, <2>3, <3>2, <3>3, <3>4, <4>1 DEF Fits
      <4>2. CASE n = 2
        BY <2>2, <2>3, <3>2, <3>3, <3>4, <4>2 DEF Fits
      <4> QED BY <4>1, <4>2
    <3>6. ~(Len(U) < PlaceOf(k, x))
      BY <1>1, <3>1
    <3> QED BY <3>1, <3>5, <3>6 DEF U
  <2>6. \/ l = 0 /\ U = <<>>
        \/ l \in Level /\ U = <<Put("level", l), Put("mode", LevelMode[l])>>
    BY <1>2, UpdatesShape DEF l, Cells
  <2> QED BY <2>4, <2>5, <2>6
<1>3. CASE f.of = "feature"
  <2>1. U = <<Put("present", TRUE), Put("feature", f.value)>> /\ k = "airpods"
    BY <1>3, UpdatesShape
  <2>2. Len(U) = 2 /\ U[1] = Put("present", TRUE) /\ U[2] = Put("feature", f.value)
    BY <2>1
  <2>3. U[1].cell = "present" /\ U[2].cell = "feature" /\ U[2].value = f.value
    BY <2>2 DEF Put
  <2> HIDE DEF U
  <2>4. SourceOf(k, x) = x /\ PlaceOf(k, "feature") = 2
    BY <2>1 DEF SourceOf, PlaceOf
  <2>5. ASSUME NEW n \in 1..2
        PROVE  /\ U[n].cell = x <=> f.of = SourceOf(k, x) /\ n = PlaceOf(k, x)
               /\ U[n].cell = x => Fits(k, x, f.value, U[n].value)
    <3>1. CASE n = 1
      BY <1>1, <1>3, <2>3, <2>4, <3>1
    <3>2. CASE n = 2
      BY <1>1, <1>3, <2>3, <2>4, <3>2 DEF Fits
    <3> QED BY <3>1, <3>2
  <2>6. ~(Len(U) < PlaceOf(k, x))
    BY <1>1, <2>2
  <2> QED BY <2>2, <2>5, <2>6 DEF U
<1>4. CASE f.of \notin {"anc", "feature"}
  <2>1. /\ U = <<Put(f.of, f.value)>> /\ f.of \notin {"level", "present"}
        /\ k = "nothing" => f.of # "mode"
    BY <1>4, UpdatesShape
  <2>2. Len(U) = 1 /\ U[1] = Put(f.of, f.value)
    BY <2>1
  <2>3. U[1].cell = f.of /\ U[1].value = f.value
    BY <2>2 DEF Put
  <2> HIDE DEF U
  <2>4. x = f.of => SourceOf(k, x) = x /\ PlaceOf(k, x) = 1
    BY <1>4, <2>1 DEF SourceOf, PlaceOf
  <2>5. f.of = SourceOf(k, x) => x = f.of
    BY <1>1, <1>4
  <2>6. ~(Len(U) < PlaceOf(k, x)) \/ f.of # SourceOf(k, x)
    BY <2>2, <2>4, <2>5
  <2>7. x = f.of => Fits(k, x, f.value, f.value)
    BY <1>4, <2>4 DEF Fits
  <2> QED BY <2>2, <2>3, <2>4, <2>5, <2>6, <2>7 DEF U
<1> QED BY <1>2, <1>3, <1>4

(* What a call sends first and stores, cell by cell.                         *)
LEMMA StoreFits ==
    ASSUME Typed, NEW c \in Caller, call[c].pc = "storing", NEW x \in ReportedCells(kind)
    PROVE  LET r == call[c].req
               s == Stores(r)
               n == call[c].n
           IN  /\ s[n + 1].cell = x <=> Touches(kind, r, x) /\ n + 1 = PlaceOf(kind, x)
               /\ s[n + 1].cell = x => s[n + 1].value = ValueFor(kind, r, x)
               /\ Touches(kind, r, x) => PlaceOf(kind, x) <= Len(s)
<1> DEFINE r == call[c].req
           n == call[c].n
           s == Stores(r)
           l == LevelAsked(r)
<1>0. kind \in Kind
  BY DEF Typed
<1>1. /\ r \in Askable(kind) /\ n \in {0, 1}
      /\ Anc(kind, r) => /\ l \in Level /\ Len(s) = 2
                         /\ s[1] = Put("level", l) /\ s[2] = Put("mode", LevelMode[l])
      /\ ~Anc(kind, r) /\ r.of = "feature" =>
            Len(s) = 2 /\ s[1] = Put("present", TRUE) /\ s[2] = Put("feature", r.value)
      /\ ~Anc(kind, r) /\ r.of # "feature" =>
            /\ n = 0 /\ Len(s) = 1 /\ s[1] = Put(r.of, r.value)
            /\ r.of \in {"eq", "ring", "mode"}
  BY StoreShape
<1>2. /\ x \notin {"present", "ring", "anc", "read"} /\ PlaceOf(kind, x) \in {1, 2}
      /\ kind = "nothing" /\ x \in {"level", "mode"} <=> SourceOf(kind, x) = "anc"
  BY <1>0, CellFacts DEF SourceOf
<1> HIDE DEF n, s, l
<1>3. CASE Anc(kind, r)
  <2>1. /\ s[1].cell = "level" /\ s[1].value = l
        /\ s[2].cell = "mode" /\ s[2].value = LevelMode[l]
    BY <1>1, <1>3 DEF Put
  <2>2. PlaceOf(kind, "level") = 1 /\ PlaceOf(kind, "mode") = 2
    BY <1>3 DEF PlaceOf, Anc
  <2>3. /\ Touches(kind, r, x) <=> x \in {"level", "mode"}
        /\ ValueFor(kind, r, x) = IF x = "level" THEN l ELSE LevelMode[l]
    BY <1>3 DEF Touches, ValueFor, l
  <2>4. CASE n = 0
    <3>1. n + 1 = 1
      BY <2>4
    <3> QED BY <1>1, <1>2, <1>3, <2>1, <2>2, <2>3, <3>1 DEF r, n, s
  <2>5. CASE n = 1
    <3>1. n + 1 = 2
      BY <2>5
    <3> QED BY <1>1, <1>2, <1>3, <2>1, <2>2, <2>3, <3>1 DEF r, n, s
  <2> QED BY <1>1, <2>4, <2>5
<1>4. CASE ~Anc(kind, r) /\ r.of = "feature"
  <2>1. s[1].cell = "present" /\ s[2].cell = "feature" /\ s[2].value = r.value
    BY <1>1, <1>4 DEF Put
  <2>2. /\ PlaceOf(kind, "feature") = 2
        /\ Touches(kind, r, x) <=> x = "feature"
        /\ ValueFor(kind, r, x) = r.value
    BY <1>4 DEF PlaceOf, Touches, ValueFor
  <2>3. CASE n = 0
    <3>1. n + 1 = 1
      BY <2>3
    <3> QED BY <1>1, <1>2, <1>4, <2>1, <2>2, <3>1 DEF r, n, s
  <2>4. CASE n = 1
    <3>1. n + 1 = 2
      BY <2>4
    <3> QED BY <1>1, <1>2, <1>4, <2>1, <2>2, <3>1 DEF r, n, s
  <2> QED BY <1>1, <2>3, <2>4
<1>5. CASE ~Anc(kind, r) /\ r.of # "feature"
  <2>1. s[1].cell = r.of /\ s[1].value = r.value /\ n + 1 = 1
    BY <1>1, <1>5 DEF Put
  <2>2. /\ Touches(kind, r, x) <=> x = r.of
        /\ ValueFor(kind, r, x) = r.value
    BY <1>5 DEF Touches, ValueFor
  <2>3. PlaceOf(kind, r.of) = 1
    BY <1>5 DEF PlaceOf, Anc
  <2>4. s[n + 1].cell = r.of /\ s[n + 1].value = r.value
    BY <2>1
  <2>5. s[n + 1].cell = x <=> Touches(kind, r, x) /\ n + 1 = PlaceOf(kind, x)
    BY <2>1, <2>2, <2>3, <2>4
  <2>6. Touches(kind, r, x) => PlaceOf(kind, x) <= Len(s)
    BY <1>1, <1>5, <2>2, <2>3
  <2> QED BY <2>2, <2>4, <2>5, <2>6 DEF r, n, s
<1> QED BY <1>3, <1>4, <1>5

(* A call whose first packet changes nothing stores what is.                 *)
LEMMA SendFits ==
    ASSUME Typed, NEW c \in Caller, call[c].pc = "sending", call[c].n = 0,
           NEW x \in ReportedCells(kind), Touches(kind, call[c].req, x),
           Idle(kind, Commands(call[c].req)[1], SourceOf(kind, x), hw[SourceOf(kind, x)])
    PROVE  Fits(kind, x, hw[SourceOf(kind, x)], ValueFor(kind, call[c].req, x))
<1> DEFINE r == call[c].req
           w == hw[SourceOf(kind, x)]
           p == Commands(r)[1]
           l == LevelAsked(r)
<1>1. CASE Anc(kind, r)
  <2>1. l \in Level /\ Commands(r)[call[c].n + 1] = Packet("anc", <<call[c].n + 1, LevelStatus[l]>>)
    BY <1>1, SendShape
  <2>2. p = Packet("anc", <<1, LevelStatus[l]>>)
    BY <2>1
  <2>3. SourceOf(kind, x) = "anc"
    BY <1>1 DEF Touches, SourceOf, Anc
  <2>4. p.of = "anc" /\ p.value[1] = 1 /\ p.value[2] = LevelStatus[l]
    BY <2>2 DEF Packet
  <2>5. <<LevelStatus[l], w[2]>> = w
    <3>1. Applied(p, w) = w
      BY <2>3, <2>4 DEF Idle
    <3>2. Applied(p, w) = <<LevelStatus[l], w[2]>>
      BY <2>4 DEF Applied
    <3> QED BY <3>1, <3>2
  <2>6. w[1] = LevelStatus[l]
    BY <2>5
  <2>7. \A m \in Level : Shows(w, m) => m = l
    BY <2>1, <2>6, StatusLevels DEF Shows
  <2>8. ValueFor(kind, r, x) = IF x = "level" THEN l ELSE LevelMode[l]
    BY <1>1 DEF ValueFor
  <2> HIDE DEF w, l
  <2> QED BY <2>3, <2>7, <2>8 DEF Fits, w
<1>2. CASE ~Anc(kind, r)
  <2>1. Commands(r) = <<Packet(r.of, r.value)>> /\ r.of # "anc"
    BY <1>2, SendShape
  <2>2. p.of = r.of /\ p.value = r.value
    BY <2>1 DEF Packet
  <2>3. x = r.of
    BY <1>2 DEF Touches
  <2>4. SourceOf(kind, x) = x
    <3>1. r \in Askable(kind) /\ kind \in Kind
      BY CallFacts DEF Typed
    <3>2. kind = "nothing" => r.of \notin {"level", "mode"}
      BY <1>2 DEF Anc
    <3> QED BY <2>3, <3>2 DEF SourceOf
  <2>5. r.value = w
    BY <2>1, <2>2, <2>3, <2>4 DEF Idle, Applied
  <2> QED BY <1>2, <2>1, <2>3, <2>4, <2>5 DEF Fits, ValueFor
<1> QED BY <1>1, <1>2

(* What is on its way to the processor, and what a call has still to store.  *)
Coming(x) == {i \in 1..Len(rx) : rx[i].of = SourceOf(kind, x) /\ (i = 1 => proc.n < PlaceOf(kind, x))}
Real(x) == hw[SourceOf(kind, x)]

Still(x) == Coming(x) = {} /\ \A i \in 1..Len(tx) : Idle(kind, tx[i], SourceOf(kind, x), Real(x))

Sets(c, x) ==
    /\ call[c].pc = "storing" \/ (call[c].pc = "sending" /\ call[c].n > 0)
    /\ Touches(kind, call[c].req, x)

(* The last report on its way is of what is.                                 *)
LastReal(x) == \A i \in Coming(x) : (\A j \in Coming(x) : j <= i) => rx[i].value = Real(x)

(* With nothing on its way that changes it, the cell is right, and so is     *)
(* what calls will store in it.                                              *)
CallsFit(x) == \A c \in Caller : Sets(c, x) => Fits(kind, x, Real(x), ValueFor(kind, call[c].req, x))
CellFits(x) == Fits(kind, x, Real(x), cache[x])

Tracks(x) == LastReal(x) /\ (Still(x) /\ x \notin raced => CallsFit(x) /\ CellFits(x))

Quiet ==
    /\ link # "up" => tx = <<>>
    /\ link = "down" => rx = <<>> /\ \A c \in Caller : ~UsesConn(c)

FollowInv == Quiet /\ (link = "up" => \A x \in ReportedCells(kind) : Tracks(x))

LEMMA ComingFacts ==
    ASSUME Typed, NEW x \in ReportedCells(kind)
    PROVE  /\ kind \in Kind /\ Len(rx) \in Nat /\ Len(tx) \in Nat
           /\ Coming(x) \subseteq 1..Len(rx)
           /\ \A i \in 1..Len(rx) : rx[i] \in FrameOf(kind)
           /\ \A i \in 1..Len(tx) : tx[i] \in PacketOf(kind)
           /\ PlaceOf(kind, x) \in {1, 2} /\ proc.n \in 0..2
           /\ rx = <<>> => proc.n = 0
<1>1. kind \in Kind /\ rx \in Seq(FrameOf(kind)) /\ tx \in Seq(PacketOf(kind)) /\ proc.n \in 0..2
  BY DEF Typed
<1>2. rx = <<>> => proc.n = 0
  BY DEF Typed
<1> QED BY <1>1, <1>2, CellFacts DEF Coming

(* Setting a cell is what the processor's test says.                         *)
LEMMA SettingFacts ==
    ASSUME Typed, NEW x \in ReportedCells(kind), ~Setting(x), NEW c \in Caller
    PROVE  ~Sets(c, x)
<1> SUFFICES ASSUME Sets(c, x) PROVE FALSE
  OBVIOUS
<1> DEFINE r == call[c].req
           s == Stores(r)
<1>1. /\ kind \in Kind /\ r \in Askable(kind) /\ Touches(kind, r, x)
      /\ call[c].pc = "storing" \/ (call[c].pc = "sending" /\ call[c].n > 0)
  BY CallFacts DEF Typed, Sets
<1>2. \E i \in DOMAIN s : s[i].cell = x
  <2>1. CASE Anc(kind, r)
    <3>1. s = <<Put("level", LevelAsked(r)), Put("mode", LevelMode[LevelAsked(r)])>>
      BY <1>1, <2>1, CallShape
    <3>2. DOMAIN s = 1..2 /\ s[1].cell = "level" /\ s[2].cell = "mode"
      BY <3>1 DEF Put
    <3>3. x = "level" \/ x = "mode"
      BY <1>1, <2>1 DEF Touches
    <3> HIDE DEF s
    <3> QED BY <3>2, <3>3
  <2>2. CASE ~Anc(kind, r) /\ r.of = "feature"
    <3>1. s = <<Put("present", TRUE), Put("feature", r.value)>>
      BY <1>1, <2>2, CallShape
    <3>2. DOMAIN s = 1..2 /\ s[2].cell = "feature"
      BY <3>1 DEF Put
    <3>3. x = "feature"
      BY <1>1, <2>2 DEF Touches
    <3> HIDE DEF s
    <3> QED BY <3>2, <3>3
  <2>3. CASE ~Anc(kind, r) /\ r.of # "feature"
    <3>1. s = <<Put(r.of, r.value)>>
      BY <1>1, <2>3, CallShape
    <3>2. DOMAIN s = 1..1 /\ s[1].cell = r.of
      BY <3>1 DEF Put
    <3>3. x = r.of
      BY <1>1, <2>3 DEF Touches
    <3> HIDE DEF s
    <3> QED BY <3>2, <3>3
  <2> QED BY <2>1, <2>2, <2>3
<1> QED BY <1>1, <1>2 DEF Setting

-----------------------------------------------------------------------------
(* Reports arrive, in the order in which the headset changes.                *)
LEMMA ReportsTrack ==
    ASSUME Typed, NEW x \in ReportedCells(kind), Tracks(x),
           UNCHANGED <<kind, proc, cache, call, raced>>,
           NEW t \in Seq(FrameOf(kind)), rx' = rx \o t,
           \A i \in 1..Len(t) : t[i].of = SourceOf(kind, x) => t[i].value = Real(x)',
           \/ \E i \in 1..Len(t) : t[i].of = SourceOf(kind, x)
           \/ UNCHANGED Real(x) /\ (Still(x)' => \A i \in 1..Len(tx) :
                                       Idle(kind, tx[i], SourceOf(kind, x), Real(x)))
    PROVE  Tracks(x)'
<1> DEFINE a == SourceOf(kind, x)
           m == Len(rx)
           k == Len(t)
<1>1. /\ kind \in Kind /\ m \in Nat /\ k \in Nat /\ rx \in Seq(FrameOf(kind))
      /\ Coming(x) \subseteq 1..m /\ PlaceOf(kind, x) \in {1, 2}
      /\ rx = <<>> => proc.n = 0
  BY ComingFacts DEF Typed
<1>2. /\ Len(rx') = m + k
      /\ \A i \in 1..m : rx'[i] = rx[i]
      /\ \A i \in 1..k : rx'[m + i] = t[i]
  BY <1>1, ConcatFacts
<1>3. m = 0 => proc.n < PlaceOf(kind, x)
  BY <1>1
<1> HIDE DEF m, k
<1>4. Coming(x) \subseteq Coming(x)' /\ Coming(x)' \cap 1..m = Coming(x)
  BY <1>1, <1>2 DEF Coming, m
<1>5. ASSUME NEW i \in 1..k, t[i].of = a PROVE m + i \in Coming(x)'
  <2>1. m + i \in 1..(m + k) /\ (m + i = 1 => m = 0)
    BY <1>1
  <2> QED BY <1>2, <1>3, <1>5, <2>1 DEF Coming
<1>6. ASSUME NEW j \in Coming(x)', j \notin 1..m
      PROVE  rx'[j].value = Real(x)'
  <2>1. j \in 1..(m + k) /\ rx'[j].of = a
    BY <1>2, <1>6 DEF Coming
  <2>2. PICK i \in 1..k : j = m + i
    <3>1. j - m \in 1..k /\ j = m + (j - m)
      BY <1>1, <1>6, <2>1
    <3> QED BY <3>1
  <2> QED BY <1>2, <2>1, <2>2 DEF k
<1>7. CASE \E i \in 1..k : t[i].of = a
  <2>1. PICK i \in 1..k : t[i].of = a
    BY <1>7
  <2>2. m + i \in Coming(x)' /\ ~Still(x)'
    BY <1>5, <2>1 DEF Still
  <2>3. ASSUME NEW j \in Coming(x)', \A q \in Coming(x)' : q <= j
        PROVE  rx'[j].value = Real(x)'
    <3>1. m + i <= j
      BY <2>2, <2>3
    <3>2. j \notin 1..m
      BY <1>1, <3>1
    <3> QED BY <1>6, <3>2
  <2> QED BY <2>2, <2>3 DEF Tracks, LastReal
<1>8. CASE ~\E i \in 1..k : t[i].of = a
  <2>1. /\ UNCHANGED Real(x)
        /\ Still(x)' => \A i \in 1..Len(tx) : Idle(kind, tx[i], a, Real(x))
    BY <1>8 DEF k
  <2>2. Coming(x)' = Coming(x)
    <3>1. ASSUME NEW j \in Coming(x)' PROVE j \in 1..m
      <4>1. j \in 1..(m + k) /\ rx'[j].of = a
        BY <1>2 DEF Coming
      <4>2. ASSUME j \notin 1..m PROVE FALSE
        <5>1. j - m \in 1..k /\ j = m + (j - m)
          BY <1>1, <4>1, <4>2
        <5>2. rx'[j] = t[j - m]
          BY <1>2, <5>1
        <5> QED BY <1>8, <4>1, <5>1, <5>2
      <4> QED BY <4>2
    <3> QED BY <1>4, <3>1
  <2>3. LastReal(x)'
    <3>1. LastReal(x)
      BY DEF Tracks
    <3>2. \A j \in Coming(x) : rx'[j] = rx[j]
      BY <1>1, <1>2
    <3> QED BY <2>1, <2>2, <3>1, <3>2 DEF LastReal
  <2>4. Still(x)' => Still(x)
    BY <2>1, <2>2 DEF Still
  <2>5. CallsFit(x) => CallsFit(x)'
    BY <2>1 DEF CallsFit, Sets
  <2>6. CellFits(x) => CellFits(x)'
    BY <2>1 DEF CellFits
  <2> QED BY <2>3, <2>4, <2>5, <2>6 DEF Tracks
<1> QED BY <1>7, <1>8

(* A change of the headset, reported if it is one.                           *)
LEMMA BecomesTracks ==
    ASSUME Typed, NEW x \in ReportedCells(kind), Tracks(x), link = "up",
           UNCHANGED <<kind, proc, cache, call, raced>>,
           NEW b \in Has(kind), NEW v \in Values, b = "anc" => v \in AncReport, Becomes(b, v),
           \/ b = SourceOf(kind, x) /\ hw[b] # v
           \/ (Still(x)' => \A i \in 1..Len(tx) : Idle(kind, tx[i], SourceOf(kind, x), Real(x)))
    PROVE  Tracks(x)'
<1> DEFINE a == SourceOf(kind, x)
<1>1. /\ hw' = [hw EXCEPT ![b] = v] /\ hw \in [Has(kind) -> Values]
      /\ a \in Has(kind) /\ a # "ring" /\ Frame(b, v) \in FrameOf(kind)
      /\ rx \in Seq(FrameOf(kind))
  <2>1. a \in Has(kind) /\ a # "ring"
    BY CellFacts DEF Typed
  <2>2. Frame(b, v) \in FrameOf(kind)
    BY DEF Frame, FrameOf
  <2> QED BY <2>1, <2>2 DEF Becomes, Typed
<1>2. Real(x)' = IF b = a THEN v ELSE Real(x)
  BY <1>1 DEF Real
<1>3. CASE hw[b] # v /\ b # "ring"
  <2> DEFINE t == <<Frame(b, v)>>
  <2>1. t \in Seq(FrameOf(kind)) /\ Len(t) = 1 /\ t[1].of = b /\ t[1].value = v
    BY <1>1 DEF Frame
  <2>2. rx' = rx \o t
    BY <1>1, <1>3 DEF Becomes
  <2> HIDE DEF t
  <2>3. CASE b = a
    <3>1. \A i \in 1..Len(t) : t[i].of = a => t[i].value = Real(x)'
      BY <1>2, <2>1, <2>3
    <3>2. \E i \in 1..Len(t) : t[i].of = a
      BY <2>1, <2>3
    <3> QED BY <2>1, <2>2, <3>1, <3>2, ReportsTrack
  <2>4. CASE b # a
    <3>1. \A i \in 1..Len(t) : t[i].of = a => t[i].value = Real(x)'
      BY <2>1, <2>4
    <3>2. UNCHANGED Real(x)
      BY <1>2, <2>4
    <3>3. Still(x)' => \A i \in 1..Len(tx) : Idle(kind, tx[i], a, Real(x))
      BY <2>4
    <3> QED BY <2>1, <2>2, <3>1, <3>2, <3>3, ReportsTrack
  <2> QED BY <2>3, <2>4
<1>4. CASE ~(hw[b] # v /\ b # "ring")
  <2> DEFINE t == <<>>
  <2>1. t \in Seq(FrameOf(kind)) /\ Len(t) = 0 /\ rx' = rx \o t
    BY <1>1, <1>4 DEF Becomes
  <2>2. UNCHANGED Real(x)
    BY <1>1, <1>2, <1>4 DEF Real
  <2>3. Still(x)' => \A i \in 1..Len(tx) : Idle(kind, tx[i], a, Real(x))
    BY <1>1, <1>4
  <2>4. \A i \in 1..Len(t) : t[i].of = a => t[i].value = Real(x)'
    BY <2>1
  <2> HIDE DEF t
  <2> QED BY <2>1, <2>2, <2>3, <2>4, ReportsTrack
<1> QED BY <1>3, <1>4

LEMMA HeadsetTracks ==
    ASSUME Typed, NEW x \in ReportedCells(kind), Tracks(x), link = "up", HeadsetStep
    PROVE  Tracks(x)'
<1> DEFINE a == SourceOf(kind, x)
<1>0. /\ a \in Has(kind) /\ a \notin {"ring", "read", "all"} /\ a \in AskedBy(kind)
      /\ kind \in Kind
  BY CellFacts DEF Typed
<1>1. CASE Obey
  <2> DEFINE p == Head(tx)
  <2>1. /\ tx # <<>> /\ p \in PacketOf(kind) /\ tx' = Tail(tx) /\ tx \in Seq(PacketOf(kind))
        /\ UNCHANGED <<kind, proc, cache, call, raced>>
    BY <1>1, TailFacts DEF Obey, Typed
  <2>2. ASSUME Idle(kind, p, a, Real(x)), UNCHANGED Real(x), Still(x)'
        PROVE  \A i \in 1..Len(tx) : Idle(kind, tx[i], a, Real(x))
    <3> SUFFICES ASSUME NEW i \in 1..Len(tx) PROVE Idle(kind, tx[i], a, Real(x))
      OBVIOUS
    <3>1. p = tx[1] /\ Len(tx) \in Nat \ {0} /\ Len(tx') = Len(tx) - 1
          /\ \A j \in 1..(Len(tx) - 1) : tx'[j] = tx[j + 1]
      BY <2>1, TailFacts
    <3>2. \A j \in 1..(Len(tx) - 1) : Idle(kind, tx[j + 1], a, Real(x))
      BY <2>1, <2>2, <3>1 DEF Still
    <3>3. i = 1 \/ (i - 1 \in 1..(Len(tx) - 1) /\ i = (i - 1) + 1)
      BY <3>1
    <3>4. CASE i = 1
      BY <2>2, <3>1, <3>4
    <3>5. CASE i - 1 \in 1..(Len(tx) - 1) /\ i = (i - 1) + 1
      BY <3>2, <3>5
    <3> QED BY <3>3, <3>4, <3>5
  <2>3. CASE p.of = "read"
    <3>1. p.value \in AskedBy(kind) \cup {"all"}
      BY <2>1, <2>3 DEF PacketOf
    <3> DEFINE A == Answers(p.value)
               t == [i \in DOMAIN A |-> Frame(A[i], hw[A[i]])]
    <3>2. t \in Seq(FrameOf(kind)) /\ rx' = rx \o t /\ UNCHANGED hw /\ A \in Seq(Has(kind))
      BY <1>1, <2>3, <3>1, AnswersTyped DEF Obey
    <3>3. /\ Len(t) = Len(A) /\ DOMAIN A = 1..Len(A)
          /\ \A i \in 1..Len(A) : t[i].of = A[i] /\ t[i].value = hw[A[i]]
      BY <3>2 DEF Frame
    <3>4. UNCHANGED Real(x)
      BY <2>1, <3>2 DEF Real
    <3>5. \A i \in 1..Len(t) : t[i].of = a => t[i].value = Real(x)'
      <4>1. Real(x)' = hw[a]
        BY <3>4 DEF Real
      <4> HIDE DEF t, A, a
      <4> QED BY <3>3, <4>1
    <3>6. a \in ReadBy(kind, p.value) => \E i \in 1..Len(A) : A[i] = a
      <4>1. CASE p.value = "all"
        <5>1. A = Asked[kind]
          BY <3>1, <4>1, AnswersTyped
        <5>2. \E i \in DOMAIN Asked[kind] : Asked[kind][i] = a
          BY <1>0 DEF AskedBy
        <5> QED BY <3>3, <5>1, <5>2
      <4>2. CASE p.value # "all"
        <5>1. A = <<p.value>>
          BY <3>1, <4>2, AnswersTyped
        <5>2. Len(A) = 1 /\ A[1] = p.value
          BY <5>1
        <5> HIDE DEF A
        <5> QED BY <4>2, <5>2 DEF ReadBy
      <4> QED BY <4>1, <4>2
    <3>7. a \notin ReadBy(kind, p.value) => Idle(kind, p, a, Real(x))
      BY <1>0, <2>3 DEF Idle
    <3> HIDE DEF t, A, p
    <3>8. CASE a \in ReadBy(kind, p.value)
      <4>1. \E i \in 1..Len(t) : t[i].of = a
        BY <3>3, <3>6, <3>8
      <4> QED BY <2>1, <3>2, <3>5, <4>1, ReportsTrack
    <3>9. CASE a \notin ReadBy(kind, p.value)
      <4>1. Still(x)' => \A i \in 1..Len(tx) : Idle(kind, tx[i], a, Real(x))
        BY <2>2, <3>4, <3>7, <3>9
      <4> QED BY <2>1, <3>2, <3>4, <3>5, <4>1, ReportsTrack
    <3> QED BY <3>8, <3>9
  <2>4. CASE p.of # "read"
    <3> DEFINE v == Applied(p, hw[p.of])
    <3>1. /\ Becomes(p.of, v) /\ p.of \in Has(kind) /\ v \in Values
          /\ p.of = "anc" => v \in AncReport
      BY <1>1, <2>1, <2>4, AppliedTyped DEF Obey
    <3>2. p.of # a => UNCHANGED Real(x)
      BY <1>0, <2>1, <3>1 DEF Becomes, Real, Typed
    <3>3. p.of = a /\ hw[p.of] = v => UNCHANGED Real(x)
      BY <1>0, <2>1, <3>1 DEF Becomes, Real, Typed
    <3>4. p.of # a \/ hw[p.of] = v => Idle(kind, p, a, Real(x))
      BY <2>4 DEF Idle, Real
    <3> HIDE DEF v, p
    <3>5. (p.of = a /\ hw[p.of] # v)
          \/ (Still(x)' => \A i \in 1..Len(tx) : Idle(kind, tx[i], a, Real(x)))
      BY <2>2, <3>2, <3>3, <3>4
    <3> QED BY <2>1, <3>1, <3>5, BecomesTracks
  <2> QED BY <2>3, <2>4
<1>2. CASE Worn
  <2>1. PICK w \in Wear[kind] : hw[w.of] # w.value /\ Becomes(w.of, w.value)
    BY <1>2 DEF Worn
  <2>2. w.of \in Has(kind) /\ w.value \in Values /\ (w.of = "anc" => w.value \in AncReport)
    BY <1>0, HeadsetAssumption, ValueFacts DEF Kind
  <2>3. UNCHANGED <<kind, proc, cache, call, raced, tx>>
    BY <1>2 DEF Worn
  <2>4. w.of # a => UNCHANGED Real(x)
    BY <1>0, <2>1, <2>2, <2>3 DEF Becomes, Real, Typed
  <2>5. (w.of = a /\ hw[w.of] # w.value)
        \/ (Still(x)' => \A i \in 1..Len(tx) : Idle(kind, tx[i], a, Real(x)))
    BY <2>1, <2>3, <2>4 DEF Still
  <2> QED BY <2>1, <2>2, <2>3, <2>5, BecomesTracks
<1> QED BY <1>1, <1>2 DEF HeadsetStep

-----------------------------------------------------------------------------
(* A new connection asks for everything it will follow.                      *)
LEMMA ConnectTracks ==
    ASSUME Typed, Quiet, Connect, NEW x \in ReportedCells(kind)
    PROVE  Tracks(x)'
<1> DEFINE a == SourceOf(kind, x)
<1>1. /\ UNCHANGED <<kind, rx, hw, proc>> /\ rx = <<>> /\ kind \in Kind
      /\ tx' = IF kind = "airpods" THEN <<Packet("read", "all")>>
               ELSE [i \in DOMAIN Asked[kind] |-> Packet("read", Asked[kind][i])]
  BY DEF Connect, cacheVars, Quiet, Typed, Reported
<1>2. Coming(x)' = {}
  BY <1>1 DEF Coming
<1>3. a \in AskedBy(kind) /\ a # "all"
  BY <1>1, CellFacts
<1>4. \E i \in 1..Len(tx') : ~Idle(kind, tx'[i], a, Real(x)')
  <2>1. CASE kind = "airpods"
    <3>1. Len(tx') = 1 /\ tx'[1] = Packet("read", "all")
      BY <1>1, <2>1
    <3>2. ~Idle(kind, tx'[1], a, Real(x)')
      BY <1>3, <3>1 DEF Idle, Packet, ReadBy
    <3> QED BY <3>1, <3>2
  <2>2. CASE kind # "airpods"
    <3>1. PICK i \in DOMAIN Asked[kind] : Asked[kind][i] = a
      BY <1>3 DEF AskedBy
    <3>2. Asked[kind] \in Seq(Has(kind) \ {"ring"})
      BY <1>1, KindFacts
    <3>3. DOMAIN Asked[kind] = 1..Len(Asked[kind]) /\ Len(Asked[kind]) \in Nat
      BY <3>2
    <3>4. Len(tx') = Len(Asked[kind]) /\ tx'[i] = Packet("read", a)
      BY <1>1, <2>2, <3>1, <3>3
    <3>5. ~Idle(kind, tx'[i], a, Real(x)')
      BY <1>3, <3>4 DEF Idle, Packet, ReadBy
    <3> QED BY <3>1, <3>3, <3>4, <3>5
  <2> QED BY <2>1, <2>2
<1>5. ~Still(x)'
  BY <1>1, <1>4 DEF Still
<1> QED BY <1>2, <1>5 DEF Tracks, LastReal

-----------------------------------------------------------------------------
(* The processor catches up.                                                 *)
LEMMA UpdateTracks ==
    ASSUME Typed, NEW x \in ReportedCells(kind), Tracks(x), Update
    PROVE  Tracks(x)'
<1> DEFINE f == Head(rx)
           n == proc.n
           u == Updates(f)[n + 1]
           a == SourceOf(kind, x)
<1>1. /\ rx # <<>> /\ n < Len(Updates(f))
      /\ cache' = [cache EXCEPT ![u.cell] = u.value]
      /\ proc' = [n |-> n + 1, changed |-> proc.changed \/ (cache[u.cell] # u.value)]
      /\ raced' = (IF Setting(u.cell) THEN raced \cup {u.cell} ELSE raced \ {u.cell})
      /\ UNCHANGED <<kind, hw, tx, rx, call>>
  BY DEF Update, linkVars, headsetVars
<1>2. /\ f \in FrameOf(kind) /\ f = rx[1] /\ n \in 0..1 /\ n + 1 \in 1..Len(Updates(f))
      /\ u.cell \in Cells /\ u.value \in Values
  BY <1>1, NextUpdate
<1>3. /\ kind \in Kind /\ Len(rx) \in Nat \ {0} /\ Coming(x) \subseteq 1..Len(rx)
      /\ PlaceOf(kind, x) \in {1, 2} /\ x \in Cells
  BY <1>1, ComingFacts, CellFacts, TailFacts DEF Typed
<1>4. /\ u.cell = x <=> f.of = a /\ n + 1 = PlaceOf(kind, x)
      /\ u.cell = x => Fits(kind, x, f.value, u.value)
  BY <1>2, <1>3, UpdateFits
<1>5. proc'.n = n + 1 /\ Real(x)' = Real(x)
  BY <1>1 DEF Real
<1> HIDE DEF u, n, f
<1>6. \A i \in 1..Len(rx) : i # 1 => (i \in Coming(x)' <=> i \in Coming(x))
  BY <1>1 DEF Coming
<1>7. Coming(x)' \subseteq 1..Len(rx)
  BY <1>1 DEF Coming
<1>8. CASE u.cell = x
  <2>1. 1 \in Coming(x) /\ 1 \notin Coming(x)'
    <3>1. n < PlaceOf(kind, x) /\ ~(n + 1 < PlaceOf(kind, x))
      BY <1>2, <1>3, <1>4, <1>8
    <3> QED BY <1>1, <1>2, <1>3, <1>4, <1>5, <1>8, <3>1 DEF Coming, n
  <2>2. Coming(x)' = Coming(x) \ {1}
    BY <1>3, <1>6, <1>7, <2>1
  <2>3. LastReal(x)'
    <3> SUFFICES ASSUME NEW i \in Coming(x)', \A j \in Coming(x)' : j <= i
                 PROVE  rx[i].value = Real(x)
      BY <1>1, <1>5 DEF LastReal
    <3>1. \A j \in Coming(x) : j <= i
      BY <1>3, <2>2
    <3> QED BY <2>2, <3>1 DEF Tracks, LastReal
  <2>4. ASSUME Still(x)', x \notin raced' PROVE CallsFit(x)' /\ CellFits(x)'
    <3>1. Coming(x) = {1}
      BY <2>1, <2>2, <2>4 DEF Still
    <3>2. f.value = Real(x)
      BY <1>2, <3>1 DEF Tracks, LastReal
    <3>3. cache'[x] = u.value
      BY <1>1, <1>3, <1>8 DEF Typed
    <3>4. ~Setting(x)
      BY <1>1, <1>8, <2>4
    <3>5. \A c \in Caller : ~Sets(c, x)
      BY <3>4, SettingFacts
    <3>6. \A c \in Caller : ~Sets(c, x)'
      BY <1>1, <3>5 DEF Sets
    <3>7. Fits(kind, x, Real(x), cache'[x])
      BY <1>4, <1>8, <3>2, <3>3
    <3> QED BY <1>1, <1>5, <3>6, <3>7 DEF CallsFit, CellFits
  <2> QED BY <2>3, <2>4 DEF Tracks
<1>9. CASE u.cell # x
  <2>1. cache'[x] = cache[x] /\ (x \in raced' <=> x \in raced)
    BY <1>1, <1>3, <1>9 DEF Typed
  <2>2. 1 \in Coming(x)' <=> 1 \in Coming(x)
    <3>1. f.of = a => (n < PlaceOf(kind, x) <=> n + 1 < PlaceOf(kind, x))
      BY <1>2, <1>3, <1>4, <1>9
    <3> QED BY <1>1, <1>2, <1>3, <1>5, <3>1 DEF Coming, n
  <2>3. Coming(x)' = Coming(x)
    <3>1. \A i \in 1..Len(rx) : i \in Coming(x)' <=> i \in Coming(x)
      BY <1>6, <2>2
    <3> QED BY <1>3, <1>7, <3>1
  <2>4. LastReal(x) => LastReal(x)'
    BY <1>1, <1>5, <2>3 DEF LastReal
  <2>5. Still(x)' => Still(x)
    BY <1>1, <1>5, <2>3 DEF Still
  <2>6. CallsFit(x) => CallsFit(x)'
    BY <1>1, <1>5 DEF CallsFit, Sets
  <2>7. CellFits(x) => CellFits(x)'
    BY <1>1, <1>5, <2>1 DEF CellFits
  <2> QED BY <2>1, <2>4, <2>5, <2>6, <2>7 DEF Tracks
<1> QED BY <1>8, <1>9

LEMMA ProcessedTracks ==
    ASSUME Typed, NEW x \in ReportedCells(kind), Tracks(x), Processed
    PROVE  Tracks(x)'
<1> DEFINE f == Head(rx)
           a == SourceOf(kind, x)
           m == Len(rx)
<1>1. /\ rx # <<>> /\ proc.n = Len(Updates(f)) /\ rx' = Tail(rx) /\ proc'.n = 0
      /\ UNCHANGED <<kind, hw, tx, cache, call, raced>>
  BY DEF Processed, Begun, linkVars, headsetVars
<1>2. /\ kind \in Kind /\ m \in Nat \ {0} /\ Coming(x) \subseteq 1..m
      /\ PlaceOf(kind, x) \in {1, 2} /\ f \in FrameOf(kind) /\ f = rx[1]
      /\ Len(rx') = m - 1 /\ \A i \in 1..(m - 1) : rx'[i] = rx[i + 1]
  BY <1>1, ComingFacts, TailFacts DEF Typed
<1>3. Real(x)' = Real(x)
  BY <1>1 DEF Real
<1> HIDE DEF f, m
<1>4. \A i \in 1..(m - 1) : i \in Coming(x)' <=> i + 1 \in Coming(x)
  <2> SUFFICES ASSUME NEW i \in 1..(m - 1) PROVE i \in Coming(x)' <=> i + 1 \in Coming(x)
    OBVIOUS
  <2>1. i + 1 \in 1..m /\ i + 1 # 1 /\ 0 < PlaceOf(kind, x)
    BY <1>2
  <2> QED BY <1>1, <1>2, <2>1 DEF Coming, m
<1>5. Coming(x)' \subseteq 1..(m - 1)
  BY <1>2 DEF Coming
<1>6. \A j \in Coming(x) : j = 1 \/ (j - 1 \in 1..(m - 1) /\ j = (j - 1) + 1)
  BY <1>2
<1>7. LastReal(x)'
  <2> SUFFICES ASSUME NEW i \in Coming(x)', \A j \in Coming(x)' : j <= i
               PROVE  rx'[i].value = Real(x)
    BY <1>3 DEF LastReal
  <2>1. i \in 1..(m - 1) /\ i + 1 \in Coming(x)
    BY <1>4, <1>5
  <2>2. ASSUME NEW j \in Coming(x) PROVE j <= i + 1
    <3>1. CASE j = 1
      BY <2>1, <3>1
    <3>2. CASE j - 1 \in 1..(m - 1) /\ j = (j - 1) + 1
      <4>1. j - 1 \in Coming(x)'
        BY <1>4, <3>2
      <4>2. j - 1 <= i
        BY <4>1
      <4> QED BY <1>2, <2>1, <3>2, <4>2
    <3> QED BY <1>6, <3>1, <3>2
  <2>3. rx[i + 1].value = Real(x)
    BY <2>1, <2>2 DEF Tracks, LastReal
  <2> QED BY <1>2, <2>1, <2>3
<1>8. ASSUME Still(x)', x \notin raced' PROVE CallsFit(x)' /\ CellFits(x)'
  <2>1. Coming(x) \subseteq {1}
    <3>1. Coming(x)' = {}
      BY <1>8 DEF Still
    <3> QED BY <1>4, <1>6, <3>1
  <2>2. CASE Coming(x) = {}
    <3>1. Still(x)
      BY <1>1, <1>3, <1>8, <2>2 DEF Still
    <3>2. CallsFit(x) /\ CellFits(x)
      BY <1>1, <1>8, <3>1 DEF Tracks
    <3> QED BY <1>1, <1>3, <3>2 DEF CallsFit, CellFits, Sets
  <2>3. CASE 1 \in Coming(x)
    <3>1. f.of = a /\ Len(Updates(f)) < PlaceOf(kind, x)
      BY <1>1, <1>2, <2>3 DEF Coming, f
    <3>2. f.value = Real(x)
      BY <1>2, <2>1, <2>3 DEF Tracks, LastReal
    <3>3. \A v : Fits(kind, x, Real(x), v)
      <4>1. \A v : Fits(kind, x, f.value, v)
        BY <1>2, <3>1, UpdateFits, Zenon
      <4> QED BY <3>2, <4>1
    <3> QED BY <1>1, <1>3, <3>3 DEF CallsFit, CellFits
  <2> QED BY <2>1, <2>2, <2>3
<1> QED BY <1>7, <1>8 DEF Tracks

-----------------------------------------------------------------------------
(* Calls send and store.                                                     *)
LEMMA CallsTrack ==
    ASSUME Typed, NEW x \in ReportedCells(kind), Tracks(x),
           UNCHANGED <<kind, hw, rx, proc, raced>>, Still(x)' => Still(x),
           \A d \in Caller : Sets(d, x)' =>
                \/ Sets(d, x) /\ call'[d].req = call[d].req
                \/ Still(x)' => Fits(kind, x, Real(x), ValueFor(kind, call'[d].req, x)),
           \/ cache'[x] = cache[x]
           \/ CallsFit(x) => Fits(kind, x, Real(x), cache'[x])
    PROVE  Tracks(x)'
<1>1. Coming(x)' = Coming(x) /\ Real(x)' = Real(x)
  BY DEF Coming, Real
<1>2. LastReal(x)'
  BY <1>1 DEF Tracks, LastReal
<1>3. ASSUME Still(x)', x \notin raced' PROVE CallsFit(x)' /\ CellFits(x)'
  <2>1. CallsFit(x) /\ CellFits(x)
    BY <1>3 DEF Tracks
  <2>2. CallsFit(x)'
    <3> SUFFICES ASSUME NEW d \in Caller, Sets(d, x)'
                 PROVE  Fits(kind, x, Real(x), ValueFor(kind, call'[d].req, x))
      BY <1>1 DEF CallsFit
    <3>1. CASE Sets(d, x) /\ call'[d].req = call[d].req
      BY <2>1, <3>1 DEF CallsFit
    <3>2. CASE Still(x)' => Fits(kind, x, Real(x), ValueFor(kind, call'[d].req, x))
      BY <1>3, <3>2
    <3> QED BY <3>1, <3>2
  <2>3. CellFits(x)'
    BY <1>1, <2>1 DEF CellFits
  <2> QED BY <2>2, <2>3
<1> QED BY <1>2, <1>3 DEF Tracks

(* A packet more is no less on its way.                                      *)
LEMMA AppendStill ==
    ASSUME Typed, NEW x \in ReportedCells(kind), UNCHANGED <<kind, hw, rx, proc>>,
           NEW p \in PacketOf(kind), tx' = Append(tx, p), Still(x)'
    PROVE  Still(x) /\ Idle(kind, p, SourceOf(kind, x), Real(x))
<1>1. tx \in Seq(PacketOf(kind)) /\ Len(tx) \in Nat
  BY DEF Typed
<1>2. /\ Len(tx') = Len(tx) + 1 /\ tx'[Len(tx) + 1] = p
      /\ \A i \in 1..Len(tx) : tx'[i] = tx[i]
  BY <1>1, AppendFacts
<1>3. Coming(x)' = Coming(x) /\ Real(x)' = Real(x)
  BY DEF Coming, Real
<1>4. \A i \in 1..Len(tx') : Idle(kind, tx'[i], SourceOf(kind, x), Real(x))
  BY <1>3 DEF Still
<1>5. Len(tx) + 1 \in 1..Len(tx') /\ \A i \in 1..Len(tx) : i \in 1..Len(tx')
  BY <1>1, <1>2
<1>6. Idle(kind, p, SourceOf(kind, x), Real(x))
  BY <1>2, <1>4, <1>5
<1>7. \A i \in 1..Len(tx) : Idle(kind, tx[i], SourceOf(kind, x), Real(x))
  BY <1>2, <1>4, <1>5
<1>8. Coming(x) = {}
  BY <1>3 DEF Still
<1> QED BY <1>6, <1>7, <1>8 DEF Still

(* Of a call that sets nothing any more.                                     *)
LEMMA IdleCallTracks ==
    ASSUME Typed, NEW x \in ReportedCells(kind), Tracks(x), NEW c \in Caller,
           UNCHANGED <<kind, hw, rx, proc, cache, raced>>, Still(x)' => Still(x),
           \A d \in Caller \ {c} : call'[d] = call[d],
           call'[c].pc \in {"done", "failed"} \/ (call'[c].pc = "sending" /\ ~(call'[c].n > 0))
    PROVE  Tracks(x)'
<1>1. ~Sets(c, x)'
  BY DEF Sets
<1>2. \A d \in Caller \ {c} : Sets(d, x)' <=> Sets(d, x)
  BY DEF Sets
<1>3. \A d \in Caller : Sets(d, x)' => Sets(d, x) /\ call'[d].req = call[d].req
  BY <1>1, <1>2
<1> QED BY <1>3, CallsTrack

LEMMA SendTracks ==
    ASSUME Typed, NEW x \in ReportedCells(kind), Tracks(x), NEW c \in Caller, link = "up", Send(c)
    PROVE  Tracks(x)'
<1> DEFINE r == call[c].req
           n == call[c].n
           cmds == Commands(r)
<1>1. /\ call[c].pc = "sending" /\ tx' = Append(tx, cmds[n + 1])
      /\ (n + 1 = Len(cmds) /\ Goto(c, "storing", 0)) \/ (n + 1 # Len(cmds) /\ Goto(c, "sending", n + 1))
      /\ UNCHANGED <<kind, hw, rx, proc, cache, raced>>
  BY DEF Send, linkVars, cacheVars
<1>2. r \in Askable(kind) /\ cmds[n + 1] \in PacketOf(kind) /\ n \in {0, 1}
  BY <1>1, SendShape, CallFacts
<1>3. Still(x)' => Still(x) /\ Idle(kind, cmds[n + 1], SourceOf(kind, x), Real(x))
  BY <1>1, <1>2, AppendStill
<1>4. /\ \A d \in Caller \ {c} : call'[d] = call[d]
      /\ call'[c].req = r /\ call'[c].pc \in {"sending", "storing"}
      /\ call'[c].pc = "storing" => call'[c].n = 0
  BY <1>1 DEF Goto, Typed, CallOf
<1>5. \A d \in Caller \ {c} : Sets(d, x)' <=> Sets(d, x)
  BY <1>1, <1>4 DEF Sets
<1>6. Sets(c, x)' => \/ Sets(c, x) /\ call'[c].req = r
                     \/ Still(x)' => Fits(kind, x, Real(x), ValueFor(kind, call'[c].req, x))
  <2> SUFFICES ASSUME Sets(c, x)', ~Sets(c, x), Still(x)'
               PROVE  Fits(kind, x, Real(x), ValueFor(kind, r, x))
    BY <1>4
  <2>1. Touches(kind, r, x)
    BY <1>1, <1>4 DEF Sets
  <2>2. n = 0
    BY <1>1, <1>2, <2>1 DEF Sets
  <2>3. Idle(kind, cmds[1], SourceOf(kind, x), hw[SourceOf(kind, x)])
    <3>1. n + 1 = 1
      BY <2>2
    <3> QED BY <1>3, <3>1 DEF Real
  <2> HIDE DEF cmds
  <2>4. Fits(kind, x, hw[SourceOf(kind, x)], ValueFor(kind, call[c].req, x))
    BY <1>1, <2>1, <2>2, <2>3, SendFits DEF cmds
  <2> QED BY <2>4 DEF Real
<1>7. \A d \in Caller : Sets(d, x)' =>
         \/ Sets(d, x) /\ call'[d].req = call[d].req
         \/ Still(x)' => Fits(kind, x, Real(x), ValueFor(kind, call'[d].req, x))
  BY <1>4, <1>5, <1>6
<1> QED BY <1>1, <1>3, <1>7, CallsTrack

LEMMA StoreTracks ==
    ASSUME Typed, NEW x \in ReportedCells(kind), Tracks(x), NEW c \in Caller, Store(c)
    PROVE  Tracks(x)'
<1> DEFINE r == call[c].req
           n == call[c].n
           s == Stores(r)
           u == s[n + 1]
<1>1. /\ call[c].pc = "storing" /\ cache' = [cache EXCEPT ![u.cell] = u.value]
      /\ (n + 1 = Len(s) /\ Goto(c, "telling", 0)) \/ (n + 1 # Len(s) /\ Goto(c, "storing", n + 1))
      /\ UNCHANGED <<kind, hw, tx, rx, proc, raced>>
  BY DEF Store, linkVars, headsetVars
<1>2. /\ u.cell = x <=> Touches(kind, r, x) /\ n + 1 = PlaceOf(kind, x)
      /\ u.cell = x => u.value = ValueFor(kind, r, x)
      /\ Touches(kind, r, x) => PlaceOf(kind, x) <= Len(s)
  BY <1>1, StoreFits
<1>3. /\ n \in {0, 1} /\ u.cell \in Cells /\ Len(s) \in Nat /\ x \in Cells
      /\ PlaceOf(kind, x) \in {1, 2}
  <2>1. n \in {0, 1} /\ u.cell \in Cells /\ Len(s) \in {1, 2}
    BY <1>1, StoreShape
  <2>2. x \in Cells /\ PlaceOf(kind, x) \in {1, 2}
    BY CellFacts DEF Typed
  <2> QED BY <2>1, <2>2
<1> HIDE DEF u, s, n
<1>4. /\ \A d \in Caller \ {c} : call'[d] = call[d]
      /\ call'[c].req = r /\ call'[c].pc \in {"storing", "telling"}
      /\ call'[c].pc = "storing" => call'[c].n = n + 1
      /\ n + 1 # Len(s) => call'[c].pc = "storing"
  BY <1>1 DEF Goto, Typed, CallOf
<1>5. \A d \in Caller \ {c} : Sets(d, x)' <=> Sets(d, x)
  BY <1>1, <1>4 DEF Sets
<1>6. Sets(c, x)' => Sets(c, x)
  BY <1>1, <1>4 DEF Sets
<1>7. Still(x)' => Still(x)
  BY <1>1 DEF Still, Coming, Real
<1>8. \A d \in Caller : Sets(d, x)' => Sets(d, x) /\ call'[d].req = call[d].req
  BY <1>4, <1>5, <1>6
<1>9. CASE u.cell = x
  <2>1. cache'[x] = ValueFor(kind, r, x)
    BY <1>1, <1>2, <1>3, <1>9 DEF Typed
  <2>2. Sets(c, x)
    BY <1>1, <1>2, <1>9 DEF Sets
  <2>3. CallsFit(x) => Fits(kind, x, Real(x), cache'[x])
    BY <2>1, <2>2 DEF CallsFit
  <2> QED BY <1>1, <1>7, <1>8, <2>3, CallsTrack
<1>10. CASE u.cell # x
  <2>1. cache'[x] = cache[x]
    BY <1>1, <1>3, <1>10 DEF Typed
  <2> QED BY <1>1, <1>7, <1>8, <2>1, CallsTrack
<1> QED BY <1>9, <1>10

LEMMA CallStepTracks ==
    ASSUME Typed, NEW x \in ReportedCells(kind), Tracks(x), link = "up", CallStep
    PROVE  Tracks(x)'
<1>1. ASSUME NEW c \in Caller, Begin(c) PROVE Tracks(x)'
  <2>1. /\ call[c].pc = "new" /\ UNCHANGED <<kind, hw, tx, rx, proc, cache, raced>>
        /\ \A d \in Caller \ {c} : call'[d] = call[d]
        /\ call'[c].pc = "failed" \/ (call'[c].pc = "sending" /\ call'[c].n = 0)
    BY <1>1 DEF Begin, Ended, Typed, headsetVars, cacheVars
  <2>2. Still(x)' => Still(x)
    BY <2>1 DEF Still, Coming, Real
  <2>3. call'[c].pc \in {"done", "failed"} \/ (call'[c].pc = "sending" /\ ~(call'[c].n > 0))
    BY <2>1
  <2> QED BY <2>1, <2>2, <2>3, IdleCallTracks
<1>2. ASSUME NEW c \in Caller, SendFails(c) PROVE Tracks(x)'
  <2>1. /\ call[c].pc = "sending" /\ Ended(c, "failed")
        /\ tx' = Append(tx, Commands(call[c].req)[call[c].n + 1])
        /\ UNCHANGED <<kind, hw, rx, proc, cache, raced>>
    BY <1>2 DEF SendFails, linkVars, cacheVars
  <2>2. Commands(call[c].req)[call[c].n + 1] \in PacketOf(kind)
    BY <2>1, SendShape
  <2>3. Still(x)' => Still(x)
    BY <2>1, <2>2, AppendStill
  <2>4. /\ \A d \in Caller \ {c} : call'[d] = call[d]
        /\ call'[c].pc = "failed"
    BY <2>1 DEF Ended, Typed
  <2> QED BY <2>1, <2>3, <2>4, IdleCallTracks
<1> QED BY <1>1, <1>2, SendTracks, StoreTracks DEF CallStep

(* What the processor of an earlier connection writes is in raced.           *)
LEMMA OldTracks ==
    ASSUME Typed, NEW x \in ReportedCells(kind), Tracks(x), OldStep, link' = "up"
    PROVE  Tracks(x)'
<1>0. UNCHANGED <<kind, hw, tx, rx, proc, call>>
  BY DEF OldStep, OldUpdate, OldProcessed, OldEnds, Taken, headsetVars, cacheVars
<1>1. Still(x)' => Still(x)
  BY <1>0 DEF Still, Coming, Real
<1>2. \A d \in Caller : Sets(d, x)' => Sets(d, x) /\ call'[d].req = call[d].req
  BY <1>0 DEF Sets
<1>3. CASE UNCHANGED <<cache, raced>>
  BY <1>0, <1>1, <1>2, <1>3, CallsTrack
<1>4. CASE OldUpdate
  <2> DEFINE u == Updates(Head(old.rx))[old.n + 1]
  <2>1. cache' = [cache EXCEPT ![u.cell] = u.value] /\ raced' = raced \cup {u.cell}
    BY <1>4 DEF OldUpdate
  <2> HIDE DEF u
  <2>2. CASE u.cell = x
    <3>1. LastReal(x)'
      BY <1>0 DEF Tracks, LastReal, Coming, Real
    <3>2. x \in raced'
      BY <2>1, <2>2
    <3> QED BY <3>1, <3>2 DEF Tracks
  <2>3. CASE u.cell # x
    <3>1. x \in Cells
      BY CellFacts DEF Typed
    <3>2. cache'[x] = cache[x] /\ (x \in raced' <=> x \in raced)
      BY <2>1, <2>3, <3>1 DEF Typed
    <3>3. Tracks(x)'
      <4>1. LastReal(x) => LastReal(x)'
        BY <1>0 DEF LastReal, Coming, Real
      <4>2. CallsFit(x) => CallsFit(x)'
        BY <1>0 DEF CallsFit, Sets, Real
      <4>3. CellFits(x) => CellFits(x)'
        BY <1>0, <3>2 DEF CellFits, Real
      <4> QED BY <1>1, <3>2, <4>1, <4>2, <4>3 DEF Tracks
    <3> QED BY <3>3
  <2> QED BY <2>2, <2>3
<1>5. OldUpdate \/ UNCHANGED <<cache, raced>>
  BY DEF OldStep, OldProcessed, OldEnds, Taken, cacheVars
<1> QED BY <1>3, <1>4, <1>5

LEMMA TellStepTracks ==
    ASSUME Typed, NEW x \in ReportedCells(kind), Tracks(x), TellStep
    PROVE  Tracks(x)'
<1>0. UNCHANGED <<kind, hw, tx, rx, proc, cache, raced>>
  BY DEF TellStep, Take, Enter, Read, Emit, linkVars, headsetVars, cacheVars
<1>1. Still(x)' => Still(x)
  BY <1>0 DEF Still, Coming, Real
<1>2. CASE UNCHANGED call
  <2>1. \A d \in Caller : Sets(d, x)' => Sets(d, x) /\ call'[d].req = call[d].req
    BY <1>0, <1>2 DEF Sets
  <2> QED BY <1>0, <1>1, <2>1, CallsTrack
<1>3. ASSUME NEW p \in Publisher, p # Dispatcher, Emit(p) PROVE Tracks(x)'
  <2>1. p \in Caller /\ call[p].pc = "telling" /\ Ended(p, "done")
    BY <1>3, PublisherFacts DEF Emit, Telling
  <2>2. /\ \A d \in Caller \ {p} : call'[d] = call[d]
        /\ call'[p].pc = "done"
    BY <2>1 DEF Ended, Typed
  <2> QED BY <1>0, <1>1, <2>1, <2>2, IdleCallTracks
<1>4. UNCHANGED call \/ \E p \in Publisher : p # Dispatcher /\ Emit(p)
  BY DEF TellStep, Take, Enter, Read, Emit
<1> QED BY <1>2, <1>3, <1>4

-----------------------------------------------------------------------------
(* A link that is not up carries nothing, and one that is gone has no users. *)
LEMMA QuietStep == Typed /\ Quiet /\ Next => Quiet'
<1> SUFFICES ASSUME Typed, Quiet, Next PROVE Quiet'
  OBVIOUS
<1> USE DEF Quiet, linkVars, headsetVars, cacheVars
<1>1. CASE LinkStep
  BY <1>1 DEF LinkStep, Connect, Drop, TearDown, Disconnect, Taken, UsesConn
<1>2. CASE HeadsetStep
  BY <1>2 DEF HeadsetStep, Obey, Worn, Becomes, UsesConn
<1>3. CASE ProcStep
  BY <1>3 DEF ProcStep, Update, Processed, UsesConn
<1>7. CASE OldStep
  BY <1>7 DEF OldStep, OldUpdate, OldProcessed, OldEnds, Taken, UsesConn
<1>4. ASSUME NEW c \in Caller, Begin(c) PROVE Quiet'
  BY <1>4 DEF Begin, Ended, UsesConn, Typed
<1>5. ASSUME NEW c \in Caller, Send(c) \/ SendFails(c) \/ Store(c) PROVE Quiet'
  <2>1. link # "down"
    BY <1>5 DEF Send, SendFails, Store, UsesConn
  <2> QED BY <1>5, <2>1 DEF Send, SendFails, Store
<1>6. CASE TellStep
  <2>1. UNCHANGED <<link, tx, rx>> /\ \A c \in Caller : UsesConn(c)' => UsesConn(c)
    <3>1. UNCHANGED <<link, tx, rx>>
      BY <1>6 DEF TellStep, Take, Enter, Read, Emit
    <3>2. CASE UNCHANGED call
      BY <3>1, <3>2 DEF UsesConn
    <3>3. ASSUME NEW p \in Publisher, p # Dispatcher, Emit(p)
          PROVE  \A c \in Caller : UsesConn(c)' => UsesConn(c)
      <4>1. p \in Caller /\ Ended(p, "done")
        BY <3>3, PublisherFacts DEF Emit
      <4>2. ASSUME NEW c \in Caller, UsesConn(c)' PROVE UsesConn(c)
        BY <4>1, <4>2 DEF Ended, UsesConn, Typed
      <4> QED BY <4>2
    <3>4. UNCHANGED call \/ \E p \in Publisher : p # Dispatcher /\ Emit(p)
      BY <1>6 DEF TellStep, Take, Enter, Read, Emit
    <3> QED BY <3>1, <3>2, <3>3, <3>4
  <2> QED BY <2>1
<1> QED BY <1>1, <1>2, <1>3, <1>4, <1>5, <1>6, <1>7 DEF Next, CallStep

(* No step changes the kind, and only connect() takes the link up.           *)
LEMMA StepFrames ==
    /\ LinkStep => UNCHANGED kind
    /\ HeadsetStep \/ ProcStep \/ CallStep \/ TellStep => UNCHANGED <<kind, link>>
    /\ OldStep => UNCHANGED kind /\ (link' = link \/ link' = "down")
<1>1. LinkStep => UNCHANGED kind
  BY DEF LinkStep, Connect, Drop, TearDown, Disconnect, Taken
<1>2. HeadsetStep => UNCHANGED <<kind, link>>
  BY DEF HeadsetStep, Obey, Worn
<1>3. ProcStep => UNCHANGED <<kind, link>>
  BY DEF ProcStep, Update, Processed, linkVars
<1>4. CallStep => UNCHANGED <<kind, link>>
  BY DEF CallStep, Begin, Send, SendFails, Store, linkVars
<1>5. TellStep => UNCHANGED <<kind, link>>
  BY DEF TellStep, Take, Enter, Read, Emit, linkVars
<1>6. OldStep => UNCHANGED kind /\ (link' = link \/ link' = "down")
  BY DEF OldStep, OldUpdate, OldProcessed, OldEnds, Taken
<1> QED BY <1>1, <1>2, <1>3, <1>4, <1>5, <1>6

LEMMA FollowInit == Init => FollowInv
BY DEF Init, FollowInv, Quiet, UsesConn

LEMMA FollowNext == Typed /\ FollowInv /\ [Next]_vars => FollowInv'
<1> SUFFICES ASSUME Typed, FollowInv, [Next]_vars PROVE FollowInv'
  OBVIOUS
<1>1. CASE UNCHANGED vars
  BY <1>1 DEF vars, linkVars, headsetVars, cacheVars, tellVars, FollowInv, Quiet, UsesConn, Tracks,
              LastReal, CallsFit, CellFits, Sets, Still, Coming, Real
<1>2. CASE Next
  <2>1. Quiet'
    BY <1>2, QuietStep DEF FollowInv
  <2>2. UNCHANGED kind
    BY <1>2, StepFrames DEF Next
  <2>3. ASSUME NEW x \in ReportedCells(kind), link' = "up" PROVE Tracks(x)'
    <3>1. CASE LinkStep
      <4>1. Connect
        BY <2>3, <3>1 DEF LinkStep, Drop, TearDown, Disconnect, Taken
      <4> QED BY <4>1, ConnectTracks DEF FollowInv
    <3>2. CASE ~LinkStep
      <4>1. link = "up"
        BY <1>2, <2>3, <3>2, StepFrames DEF Next
      <4>2. Tracks(x)
        BY <4>1 DEF FollowInv
      <4> QED BY <1>2, <2>3, <3>2, <4>1, <4>2, HeadsetTracks, UpdateTracks, ProcessedTracks, OldTracks,
                 CallStepTracks, TellStepTracks DEF Next, ProcStep
    <3> QED BY <3>1, <3>2
  <2> QED BY <2>1, <2>2, <2>3 DEF FollowInv
<1> QED BY <1>1, <1>2

LEMMA FollowShown == Typed /\ FollowInv => FollowsHeadset
<1> SUFFICES ASSUME Typed, FollowInv, Caught PROVE FollowsHeadset
  BY DEF FollowsHeadset
<1>1. link = "up" /\ tx = <<>> /\ rx = <<>> /\ CallsEnded /\ kind \in Kind
  BY DEF Caught, Typed
<1>2. ASSUME NEW x \in ReportedCells(kind), x \notin raced
      PROVE  Fits(kind, x, Real(x), cache[x])
  <2>1. Tracks(x)
    BY <1>1 DEF FollowInv
  <2>2. Still(x)
    BY <1>1 DEF Still, Coming
  <2> QED BY <1>2, <2>1, <2>2 DEF Tracks, CellFits
<1>3. ASSUME kind = "nothing", NEW l \in 1..6, AtLevel(l)
      PROVE  Agrees("level", l) /\ Agrees("mode", LevelMode[l])
  <2>1. SourceOf(kind, "level") = "anc" /\ SourceOf(kind, "mode") = "anc"
    BY <1>3 DEF SourceOf
  <2>2. "level" \in ReportedCells(kind) /\ "mode" \in ReportedCells(kind)
    BY <1>3 DEF ReportedCells
  <2>3. l \in Level /\ Shows(hw["anc"], l)
    BY <1>3 DEF AtLevel, Shows, Level
  <2>4. Agrees("level", l)
    BY <1>2, <2>1, <2>2, <2>3 DEF Agrees, Fits, Real
  <2>5. Agrees("mode", LevelMode[l])
    BY <1>2, <2>1, <2>2, <2>3 DEF Agrees, Fits, Real
  <2> QED BY <2>4, <2>5
<1>4. ASSUME NEW i \in DOMAIN Reported, Reported[i] # "anc"
      PROVE  Agrees(Reported[i], hw[Reported[i]])
  <2> DEFINE x == Reported[i]
  <2>1. x \in AskedBy(kind)
    BY DEF AskedBy, Reported
  <2>2. x \in ReportedCells(kind)
    BY <1>4, <2>1 DEF ReportedCells
  <2>3. SourceOf(kind, x) = x
    <3>1. x \in Has(kind)
      BY <1>1, <2>1, KindFacts
    <3> QED BY <3>1, HeadsetAssumption DEF SourceOf
  <2>4. x \notin raced => cache[x] = hw[x]
    BY <1>2, <1>4, <2>2, <2>3 DEF Fits, Real
  <2> QED BY <2>4 DEF Agrees
<1> QED BY <1>3, <1>4 DEF FollowsHeadset

(* When nothing is under way the cells are what the headset is, however calls *)
(* overlapped, failed half-way or lost the link, but for a cell that a report *)
(* reached while a call was setting it (nothing/device.rs:254) or that the    *)
(* processor of an earlier connection wrote (airpods/device.rs:400), until    *)
(* the next report.                                                           *)
THEOREM AlwaysFollowsHeadset == Spec => []FollowsHeadset
BY TypedInvariant, FollowInit, FollowNext, FollowShown, PTL DEF Spec
=============================================================================
