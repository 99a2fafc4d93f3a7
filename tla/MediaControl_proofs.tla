------------------------- MODULE MediaControl_proofs -------------------------
(* The event path loses no wake-up and lets no event overtake another; what  *)
(* dispatch() does to players leaves it as it was; and the list of paused    *)
(* players means what its comment says.  For any number of players,          *)
(* emitters and events.                                                      *)
EXTENDS MediaControl, SequenceTheorems, TLAPS

-----------------------------------------------------------------------------
(* The event path (EventProcessor.tla).                                      *)

(* Every event pushed so far, in the order it was pushed in.                 *)
Pushed == delivered \o queue

(* What was pushed is what each emitter has counted, in its order.           *)
PushedInOrder ==
    /\ \A i \in 1..Len(Pushed) : Pushed[i][2] <= emitted[Pushed[i][1]]
    /\ \A i, j \in 1..Len(Pushed) :
          i < j /\ Pushed[i][1] = Pushed[j][1] => Pushed[i][2] < Pushed[j][2]
    /\ \A e \in Emitter : \A k \in 1..emitted[e] :
          \E i \in 1..Len(Pushed) : Pushed[i] = <<e, k>>

EventInv == EventTypeOK /\ NoLostWakeup /\ PushedInOrder

-----------------------------------------------------------------------------
(* An event is an emitter with a number.                                     *)
LEMMA EventParts ==
    /\ \A ev \in Event : /\ ev[1] \in Emitter /\ ev[2] \in Nat \ {0}
                         /\ ev = <<ev[1], ev[2]>>
    /\ \A e \in Emitter, k \in Nat \ {0} : k <= MaxEvents[e] => <<e, k>> \in Event
<1>1. \A ev \in Event : \E e \in Emitter : ev \in {e} \X (1..MaxEvents[e])
    BY DEF Event
<1>2. \A e \in Emitter : MaxEvents[e] \in Nat
    BY MaxEventsAssumption
<1>3. \A ev \in Event : ev[1] \in Emitter /\ ev[2] \in Nat \ {0} /\ ev = <<ev[1], ev[2]>>
    BY <1>1, <1>2
<1>4. ASSUME NEW e \in Emitter, NEW k \in Nat \ {0}, k <= MaxEvents[e]
      PROVE  <<e, k>> \in Event
    <2>1. <<e, k>> \in {e} \X (1..MaxEvents[e])
        BY <1>2, <1>4
    <2> QED BY <2>1 DEF Event
<1> QED BY <1>3, <1>4

(* A pop moves an event from the one sequence to the other.                  *)
LEMMA PopKeepsPushed ==
    ASSUME EventTypeOK, Pop
    PROVE  /\ Pushed' = Pushed
           /\ queue' \in Seq(Event) /\ delivered' \in Seq(Event)
<1>1. queue \in Seq(Event) /\ delivered \in Seq(Event) /\ queue # <<>>
    BY DEF EventTypeOK, Pop
<1>2. queue = <<Head(queue)>> \o Tail(queue) /\ Head(queue) \in Event /\ Tail(queue) \in Seq(Event)
    BY <1>1, HeadTailProperties
<1>3. Append(delivered, Head(queue)) = delivered \o <<Head(queue)>>
    BY <1>1, <1>2, AppendIsConcat
<1>4. (delivered \o <<Head(queue)>>) \o Tail(queue) = delivered \o (<<Head(queue)>> \o Tail(queue))
    BY <1>1, <1>2, ConcatAssociative
<1> QED BY <1>1, <1>2, <1>3, <1>4, AppendProperties DEF Pop, Pushed

-----------------------------------------------------------------------------
LEMMA EventInitInv == EventInit => EventInv
<1> SUFFICES ASSUME EventInit PROVE EventInv
    OBVIOUS
<1>1. Pushed = <<>>
    BY DEF EventInit, Pushed
<1>2. EventTypeOK
    <2>1. emitted \in [Emitter -> Nat] /\ \A e \in Emitter : emitted[e] <= MaxEvents[e]
        BY MaxEventsAssumption DEF EventInit
    <2>2. queue \in Seq(Event) /\ delivered \in Seq(Event)
        BY EmptySeq DEF EventInit
    <2> QED BY <2>1, <2>2 DEF EventInit, EventTypeOK
<1>3. PushedInOrder
    BY <1>1, EmptySeq DEF EventInit, PushedInOrder
<1> QED BY <1>2, <1>3 DEF EventInit, EventInv, NoLostWakeup

(* A push appends the emitter's next event.                                  *)
LEMMA PushStep ==
    ASSUME EventInv, NEW e \in Emitter, EmitPush(e)
    PROVE  EventTypeOK' /\ PushedInOrder'
<1> DEFINE new == <<e, emitted[e] + 1>>
<1>1. emitted \in [Emitter -> Nat] /\ emitted[e] \in Nat /\ MaxEvents[e] \in Nat
    BY MaxEventsAssumption DEF EventInv, EventTypeOK
<1>2. emitted' \in [Emitter -> Nat] /\ emitted' = [emitted EXCEPT ![e] = emitted[e] + 1]
    BY <1>1 DEF EmitPush
<1>3. new \in Event
    BY <1>1, EventParts DEF EmitPush
<1>4. queue \in Seq(Event) /\ delivered \in Seq(Event) /\ queue' = Append(queue, new)
      /\ delivered' = delivered
    BY DEF EventInv, EventTypeOK, EmitPush
<1>5. queue' \in Seq(Event)
    BY <1>3, <1>4, AppendProperties
<1>6. EventTypeOK'
    <2>1. \A f \in Emitter : emitted'[f] <= MaxEvents[f]
        BY <1>1, <1>2 DEF EventInv, EventTypeOK, EmitPush
    <2> QED BY <1>2, <1>4, <1>5, <2>1 DEF EventInv, EventTypeOK, EmitPush
<1> HIDE DEF new
<1>7. Pushed \in Seq(Event) /\ Pushed' = Append(Pushed, new)
    <2>1. queue' = queue \o <<new>>
        BY <1>3, <1>4, AppendIsConcat
    <2>2. Pushed \in Seq(Event)
        BY <1>4, ConcatProperties DEF Pushed
    <2>3. Append(Pushed, new) = Pushed \o <<new>>
        BY <1>3, <2>2, AppendIsConcat
    <2>4. <<new>> \in Seq(Event)
        BY <1>3
    <2> QED BY <1>4, <2>1, <2>2, <2>3, <2>4, ConcatAssociative DEF Pushed
<1> DEFINE n == Len(Pushed)
<1>8. n \in Nat /\ Len(Append(Pushed, new)) = n + 1
      /\ \A i \in 1..n : Append(Pushed, new)[i] = Pushed[i] /\ Pushed[i] \in Event
    BY <1>3, <1>7, LenProperties, ElementOfSeq
<1>9. Append(Pushed, new)[n + 1] = new
    BY <1>3, <1>7, AppendProperties, Zenon
<1>10. new[1] = e /\ new[2] = emitted[e] + 1 /\ emitted'[e] = emitted[e] + 1
       /\ \A f \in Emitter : emitted[f] <= emitted'[f] /\ (f # e => emitted'[f] = emitted[f])
    BY <1>1, <1>2 DEF new
<1>11. \A i \in 1..n : /\ Pushed[i][1] \in Emitter /\ Pushed[i][2] \in Nat
                       /\ Pushed[i][2] <= emitted[Pushed[i][1]]
    BY <1>8, EventParts DEF EventInv, PushedInOrder
<1> DEFINE p == Append(Pushed, new)
<1>12. Len(p) = n + 1 /\ p[n + 1] = new /\ \A i \in 1..n : p[i] = Pushed[i]
    BY <1>8, <1>9
<1> HIDE DEF n, p
<1>13. \A i \in 1..(n + 1) : p[i][2] <= emitted'[p[i][1]]
    <2> SUFFICES ASSUME NEW i \in 1..(n + 1) PROVE p[i][2] <= emitted'[p[i][1]]
        OBVIOUS
    <2>1. CASE i = n + 1
        BY <1>1, <1>10, <1>12, <2>1
    <2>2. CASE i \in 1..n
        BY <1>1, <1>2, <1>10, <1>11, <1>12, <2>2
    <2> QED BY <1>8, <2>1, <2>2 DEF n
<1>14. ASSUME NEW i \in 1..(n + 1), NEW j \in 1..(n + 1), i < j, p[i][1] = p[j][1]
       PROVE  p[i][2] < p[j][2]
    <2>1. n \in Nat /\ i \in 1..n
        BY <1>8, <1>14 DEF n
    <2>2. CASE j = n + 1
        BY <1>1, <1>10, <1>11, <1>12, <1>14, <2>1, <2>2
    <2>3. CASE j \in 1..n
        BY <1>12, <1>14, <2>1, <2>3 DEF EventInv, PushedInOrder, n
    <2> QED BY <2>1, <2>2, <2>3
<1>15. ASSUME NEW f \in Emitter, NEW k \in 1..emitted'[f]
       PROVE  \E i \in 1..(n + 1) : p[i] = <<f, k>>
    <2>1. n \in Nat /\ n + 1 \in 1..(n + 1) /\ 1..n \subseteq 1..(n + 1)
        BY <1>8 DEF n
    <2>2. CASE f = e /\ k = emitted[e] + 1
        <3>1. p[n + 1] = <<f, k>>
            BY <1>12, <2>2 DEF new
        <3> QED BY <2>1, <3>1
    <2>3. CASE ~(f = e /\ k = emitted[e] + 1)
        <3>1. k \in 1..emitted[f]
            BY <1>1, <1>2, <1>10, <1>15, <2>3
        <3>2. PICK i \in 1..n : Pushed[i] = <<f, k>>
            BY <3>1 DEF EventInv, PushedInOrder, n
        <3> QED BY <1>12, <2>1, <3>2
    <2> QED BY <2>2, <2>3
<1>16. Pushed' = p
    BY <1>7 DEF p
<1>17. PushedInOrder'
    BY <1>12, <1>13, <1>14, <1>15, <1>16 DEF PushedInOrder
<1> QED BY <1>6, <1>17

LEMMA EventStep ==
    ASSUME EventInv, [EventNext]_eventVars
    PROVE  EventInv'
<1>1. CASE UNCHANGED eventVars
    BY <1>1 DEF eventVars, EventInv, EventTypeOK, NoLostWakeup, PushedInOrder, Pushed
<1>2. ASSUME NEW e \in Emitter, EmitPush(e) PROVE EventInv'
    BY <1>2, PushStep DEF EventInv, EmitPush, NoLostWakeup, EventTypeOK
<1>3. ASSUME NEW e \in Emitter, EmitNotify(e) PROVE EventInv'
    <2>1. Pushed' = Pushed
        BY <1>3 DEF EmitNotify, Pushed
    <2>2. notified' \in BOOLEAN
        BY <1>3 DEF EmitNotify
    <2> QED BY <1>3, <2>1, <2>2 DEF EventInv, EmitNotify, NoLostWakeup, EventTypeOK, PushedInOrder
<1>4. ASSUME NEW e \in Emitter, DropSender(e) PROVE EventInv'
    BY <1>4 DEF EventInv, DropSender, NoLostWakeup, EventTypeOK, PushedInOrder, Pushed
<1>5. CASE (FirstPop \/ SecondPop) /\ Pop
    <2>1. EventTypeOK'
        BY <1>5, PopKeepsPushed DEF EventInv, EventTypeOK, Pop
    <2>2. PushedInOrder'
        BY <1>5, PopKeepsPushed DEF EventInv, PushedInOrder, Pop
    <2> QED BY <1>5, <2>1, <2>2 DEF EventInv, NoLostWakeup, Pop
<1>6. CASE (FirstPop \/ SecondPop) /\ ~Pop
    BY <1>6 DEF EventInv, FirstPop, SecondPop, Goto, NoLostWakeup, EventTypeOK,
                PushedInOrder, Pushed
<1>7. CASE Start \/ Subscribe \/ CountHolders \/ Woken \/ Dispatched \/ TimedOut
    BY <1>7 DEF Start, Subscribe, CountHolders, Woken, Dispatched, TimedOut, Goto, EventInv,
                NoLostWakeup, EventTypeOK, PushedInOrder, Pushed
<1> QED BY <1>1, <1>2, <1>3, <1>4, <1>5, <1>6, <1>7 DEF EventNext, DispatcherStep, RecvStep

-----------------------------------------------------------------------------
(* The inductive invariant of the event path.                                *)
THEOREM EventInvariant == EventSafeSpec => []EventInv
<1>1. EventInv /\ [EventNext]_eventVars => EventInv'
    BY EventStep
<1> QED BY <1>1, EventInitInv, PTL DEF EventSafeSpec

(* Between its second pop and its sleep the dispatcher misses no push.       *)
THEOREM NeverLosesWakeup == EventSafeSpec => []NoLostWakeup
<1>1. EventInv => NoLostWakeup
    BY DEF EventInv
<1> QED BY <1>1, EventInvariant, PTL

LEMMA OrderOfDelivery == EventInv => DeliveredInOrder
<1> SUFFICES ASSUME EventInv PROVE DeliveredInOrder
    OBVIOUS
<1>1. delivered \in Seq(Event) /\ queue \in Seq(Event)
    BY DEF EventInv, EventTypeOK
<1>2. /\ Len(delivered) \in Nat /\ Len(Pushed) \in Nat /\ Len(delivered) <= Len(Pushed)
      /\ \A i \in 1..Len(delivered) : Pushed[i] = delivered[i] /\ delivered[i] \in Event
    BY <1>1, ConcatProperties, LenProperties, ElementOfSeq DEF Pushed
<1>3. DOMAIN delivered = 1..Len(delivered)
    BY <1>1
<1> SUFFICES ASSUME NEW i \in 1..Len(delivered)
             PROVE  LET e == delivered[i][1]
                        k == delivered[i][2]
                    IN  /\ \A j \in 1..Len(delivered) : delivered[j] = <<e, k>> => j = i
                        /\ k > 1 => \E j \in 1..Len(delivered) :
                                        j < i /\ delivered[j] = <<e, k - 1>>
    BY <1>3 DEF DeliveredInOrder
<1> DEFINE e == delivered[i][1]
           k == delivered[i][2]
<1>4. e \in Emitter /\ k \in Nat \ {0} /\ i \in 1..Len(Pushed) /\ Pushed[i][1] = e /\ Pushed[i][2] = k
    BY <1>2, EventParts
<1> HIDE DEF e, k
<1>5. ASSUME NEW j \in 1..Len(delivered), delivered[j] = <<e, k>>
      PROVE  j = i
    <2>1. j \in 1..Len(Pushed) /\ Pushed[j][1] = e /\ Pushed[j][2] = k
        BY <1>2, <1>5
    <2>2. ~(i < j) /\ ~(j < i)
        BY <1>4, <2>1 DEF EventInv, PushedInOrder
    <2> QED BY <2>2
<1>6. ASSUME k > 1
      PROVE  \E j \in 1..Len(delivered) : j < i /\ delivered[j] = <<e, k - 1>>
    <2>1. k <= emitted[e] /\ emitted[e] \in Nat
        BY <1>4 DEF EventInv, PushedInOrder, EventTypeOK
    <2>2. k - 1 \in 1..emitted[e]
        BY <1>4, <1>6, <2>1
    <2>3. PICK j \in 1..Len(Pushed) : Pushed[j] = <<e, k - 1>>
        BY <1>4, <2>2 DEF EventInv, PushedInOrder
    <2>4. Pushed[j][1] = e /\ Pushed[j][2] = k - 1
        BY <2>3
    <2>5. ~(i < j) /\ i # j
        BY <1>4, <2>4 DEF EventInv, PushedInOrder
    <2>6. j < i /\ j \in 1..Len(delivered)
        BY <1>2, <2>5
    <2> QED BY <1>2, <2>3, <2>6
<1> QED BY <1>5, <1>6 DEF e, k

(* Each emitter's events come out once each and in its order.                *)
THEOREM AlwaysInOrder == EventSafeSpec => []DeliveredInOrder
BY OrderOfDelivery, EventInvariant, PTL

-----------------------------------------------------------------------------
(* The players (MediaControl.tla).                                           *)

(* A list of its own is kept only while pausing; while playing, a player we  *)
(* stopped is still to be told unless its Play has failed.                   *)
ListsSound ==
    /\ task # "pause" => mine = {} /\ asked = None
    /\ task = "play" /\ ~overwritten => stopped \ refused \subseteq todo

MediaInv == MediaTypeOK /\ ResumesOnlyOurs /\ StoppedRemembered /\ ListsSound

-----------------------------------------------------------------------------
(* dispatch() keeps the event path's specification: no push, wake-up or end  *)
(* of the dispatcher depends on the players.                                 *)
THEOREM MediaImplementsEvents == Spec => EventSafeSpec
<1>1. Init => EventInit
    BY DEF Init
<1>2. [Next]_vars => [EventNext]_eventVars
    <2>1. ASSUME DispatchStep PROVE EventNext \/ UNCHANGED eventVars
        <3>1. CASE EndDispatch
            BY <3>1 DEF EndDispatch, EventNext, DispatcherStep
        <3>2. CASE ~EndDispatch
            BY <2>1, <3>2 DEF DispatchStep, BeginPlay, EndPlay, BeginPause, EndPause, Pause, Play,
                              AskStatus, Turn
        <3> QED BY <3>1, <3>2
    <2>2. ASSUME RecvStep \/ TimedOut \/ \E e \in Emitter : EmitPush(e) \/ EmitNotify(e) \/ DropSender(e)
          PROVE  EventNext
        BY <2>2 DEF EventNext, DispatcherStep
    <2>3. ASSUME SetEnabled \/ \E p \in Player, status \in {"playing", "paused"} : UserActs(p, status)
          PROVE  UNCHANGED eventVars
        BY <2>3 DEF SetEnabled, UserActs
    <2> QED BY <2>1, <2>2, <2>3 DEF Next, vars
<1> QED BY <1>1, <1>2, PTL DEF Spec, EventSafeSpec

(* So what was proved of the event path holds with the players.              *)
THEOREM MediaNeverLosesWakeup == Spec => []NoLostWakeup
BY MediaImplementsEvents, NeverLosesWakeup, PTL

(* The same of the order of delivery.                                        *)
THEOREM MediaAlwaysInOrder == Spec => []DeliveredInOrder
BY MediaImplementsEvents, AlwaysInOrder, PTL

-----------------------------------------------------------------------------
LEMMA MediaInitInv == Init => MediaInv
BY EventInitInv DEF Init, MediaInv, EventInv, MediaTypeOK, ResumesOnlyOurs, StoppedRemembered, ListsSound

(* A step of the event path alone.                                           *)
LEMMA EventPathStep ==
    ASSUME MediaInv, EventTypeOK', UNCHANGED mediaVars
    PROVE  MediaInv'
BY DEF mediaVars, MediaInv, MediaTypeOK, ResumesOnlyOurs, StoppedRemembered, ListsSound

LEMMA MediaStep ==
    ASSUME MediaInv, EventTypeOK', [Next]_vars
    PROVE  MediaInv'
<1> USE DEF MediaInv, ResumesOnlyOurs, StoppedRemembered, ListsSound
<1>1. CASE UNCHANGED mediaVars
    BY <1>1, EventPathStep
<1>2. CASE BeginPlay
    BY <1>2 DEF BeginPlay, Turn, MediaTypeOK
<1>3. ASSUME NEW p \in Player, NEW answers \in BOOLEAN, Play(p, answers) PROVE MediaInv'
    <2>1. player' \in [Player -> {"playing", "paused"}]
        BY <1>3 DEF Play, MediaTypeOK
    <2> QED BY <1>3, <2>1 DEF Play, MediaTypeOK
<1>4. CASE EndPlay
    BY <1>4 DEF EndPlay, Turn, MediaTypeOK
<1>5. CASE BeginPause
    BY <1>5 DEF BeginPause, Turn, MediaTypeOK
<1>6. ASSUME NEW p \in Player, NEW answers \in BOOLEAN, AskStatus(p, answers) PROVE MediaInv'
    BY <1>6 DEF AskStatus, MediaTypeOK
<1>7. ASSUME NEW answers \in BOOLEAN, Pause(answers) PROVE MediaInv'
    <2>1. asked \in Player
        BY <1>7 DEF Pause, MediaTypeOK
    <2>2. player' \in [Player -> {"playing", "paused"}]
        BY <1>7 DEF Pause, MediaTypeOK
    <2> QED BY <1>7, <2>1, <2>2 DEF Pause, MediaTypeOK
<1>8. CASE EndPause
    BY <1>8 DEF EndPause, Turn, MediaTypeOK
<1>9. CASE EndDispatch
    BY <1>9 DEF EndDispatch, MediaTypeOK
<1>10. ASSUME NEW p \in Player, NEW status \in {"playing", "paused"}, UserActs(p, status)
       PROVE  MediaInv'
    <2>1. player' \in [Player -> {"playing", "paused"}]
        BY <1>10 DEF UserActs, MediaTypeOK
    <2> QED BY <1>10, <2>1 DEF UserActs, MediaTypeOK
<1>11. CASE SetEnabled
    BY <1>11 DEF SetEnabled, MediaTypeOK
<1> QED BY <1>1, <1>2, <1>3, <1>4, <1>5, <1>6, <1>7, <1>8, <1>9, <1>10, <1>11
        DEF Next, DispatchStep, vars

(* The inductive invariant of the players' lists.                            *)
THEOREM MediaInvariant == Spec => []MediaInv
<1>1. EventInv => EventTypeOK
    BY DEF EventInv
<1>2. MediaInv /\ EventTypeOK' /\ [Next]_vars => MediaInv'
    BY MediaStep
<1> QED BY <1>1, <1>2, MediaInitInv, MediaImplementsEvents, EventInvariant, PTL DEF Spec

(* Only players we paused, and have not played since, are played.            *)
THEOREM AlwaysResumesOnlyOurs == Spec => []ResumesOnlyOurs
<1>1. MediaInv => ResumesOnlyOurs
    BY DEF MediaInv
<1> QED BY <1>1, MediaInvariant, PTL

(* A player we stopped is remembered until a later list replaces it, or a    *)
(* resume in which its Play failed forgets it.                               *)
THEOREM AlwaysStoppedRemembered == Spec => []StoppedRemembered
<1>1. MediaInv => StoppedRemembered
    BY DEF MediaInv
<1> QED BY <1>1, MediaInvariant, PTL
=============================================================================
