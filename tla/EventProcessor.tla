--------------------------- MODULE EventProcessor ---------------------------
(***************************************************************************)
(* The event path of main.rs: emitters (the manager, packet processors)    *)
(* push onto a lock-free queue and call notify_waiters(); one dispatcher   *)
(* pops, and sleeps on a Notified future when it finds the queue empty.    *)
(* notify_waiters() stores no permit: it reaches only futures that exist.  *)
(***************************************************************************)
EXTENDS Naturals, Sequences

CONSTANTS
    Emitter,    \* tasks that hold a clone of the EventSender
    MaxEvents   \* bound: events of each emitter

ASSUME MaxEventsAssumption == MaxEvents \in [Emitter -> Nat]

VARIABLES
    queue,      \* EventProcessor::queue
    emitted,    \* how many events each emitter has pushed
    emitting,   \* emitters between the push and notify_waiters()
    holders,    \* emitters whose Arc is alive
    disp,       \* the dispatcher's program counter
    notified,   \* its Notified future has been completed
    delivered   \* events handed to dispatch()

eventVars == <<queue, emitted, emitting, holders, disp, notified, delivered>>

Event == UNION {{e} \X (1..MaxEvents[e]) : e \in Emitter}

EventTypeOK ==
    /\ queue \in Seq(Event)
    /\ emitted \in [Emitter -> Nat] /\ \A e \in Emitter : emitted[e] <= MaxEvents[e]
    /\ emitting \subseteq Emitter
    /\ holders \subseteq Emitter
    /\ disp \in {"unstarted", "pop", "subscribe", "recheck", "count", "wait",
                 "dispatch", "ended"}
    /\ notified \in BOOLEAN
    /\ delivered \in Seq(Event)

EventInit ==
    /\ queue = <<>>
    /\ emitted = [e \in Emitter |-> 0]
    /\ emitting = {}
    /\ holders = Emitter
    /\ disp = "unstarted"
    /\ notified = FALSE
    /\ delivered = <<>>

-----------------------------------------------------------------------------
(* EventBus::emit: two steps another thread can fall between. *)

\* mutant: a stack
EmitPushFirst(e) ==
    /\ e \in holders \ emitting
    /\ emitted[e] < MaxEvents[e]
    /\ emitted' = [emitted EXCEPT ![e] = @ + 1]
    /\ queue' = <<<<e, emitted[e] + 1>>>> \o queue
    /\ emitting' = emitting \cup {e}
    /\ UNCHANGED <<holders, disp, notified, delivered>>

EmitPush(e) ==
    /\ e \in holders \ emitting
    /\ emitted[e] < MaxEvents[e]
    /\ emitted' = [emitted EXCEPT ![e] = @ + 1]
    /\ queue' = Append(queue, <<e, emitted[e] + 1>>)
    /\ emitting' = emitting \cup {e}
    /\ UNCHANGED <<holders, disp, notified, delivered>>

\* mutant: only a future that was polled is completed
EmitNotifyPolled(e) ==
    /\ e \in emitting
    /\ emitting' = emitting \ {e}
    /\ notified' = (notified \/ disp = "wait")
    /\ UNCHANGED <<queue, emitted, holders, disp, delivered>>

\* Completes the dispatcher's future if it has been created, polled or not.
EmitNotify(e) ==
    /\ e \in emitting
    /\ emitting' = emitting \ {e}
    /\ notified' = (notified \/ disp \in {"recheck", "count", "wait"})
    /\ UNCHANGED <<queue, emitted, holders, disp, delivered>>

DropSender(e) ==
    /\ e \in holders \ emitting
    /\ holders' = holders \ {e}
    /\ UNCHANGED <<queue, emitted, emitting, disp, notified, delivered>>

-----------------------------------------------------------------------------
(* The dispatcher: recv() in a loop, dispatching what it returns. *)

Goto(pc) == disp' = pc /\ UNCHANGED <<queue, emitted, emitting, holders, delivered>>

Pop ==
    /\ queue # <<>>
    /\ queue' = Tail(queue)
    /\ delivered' = Append(delivered, Head(queue))
    /\ disp' = "dispatch"
    /\ notified' = FALSE
    /\ UNCHANGED <<emitted, emitting, holders>>

Start == disp = "unstarted" /\ Goto("pop") /\ UNCHANGED notified

\* The first pop of the loop.
FirstPop ==
    /\ disp = "pop"
    /\ Pop \/ (queue = <<>> /\ Goto("subscribe") /\ UNCHANGED notified)

\* mutant: no second pop
SubscribeAndWait == disp = "subscribe" /\ Goto("count") /\ notified' = FALSE

\* notifier.notified(): the future exists from here on.
Subscribe == disp = "subscribe" /\ Goto("recheck") /\ notified' = FALSE

\* The second pop, after the future was created.
SecondPop ==
    /\ disp = "recheck"
    /\ Pop \/ (queue = <<>> /\ Goto("count") /\ UNCHANGED notified)

\* Arc::strong_count(self) == 1: only the dispatcher is left.
CountHolders ==
    /\ disp = "count"
    /\ Goto(IF holders = {} THEN "ended" ELSE "wait")
    /\ UNCHANGED notified

Woken == disp = "wait" /\ notified /\ Goto("pop") /\ notified' = FALSE

\* The 1 s timeout around the wait.
TimedOut == disp = "wait" /\ Goto("pop") /\ notified' = FALSE

\* dispatch() returns; its error is only logged.
Dispatched == disp = "dispatch" /\ Goto("pop") /\ UNCHANGED notified

RecvStep == Start \/ FirstPop \/ Subscribe \/ SecondPop \/ CountHolders \/ Woken
DispatcherStep == RecvStep \/ Dispatched

EventNext ==
    \/ \E e \in Emitter : EmitPush(e) \/ EmitNotify(e) \/ DropSender(e)
    \/ DispatcherStep
    \/ TimedOut

EventSafeSpec == EventInit /\ [][EventNext]_eventVars

\* emit() does not block and the runtime polls a woken dispatcher.  The timeout
\* is a backstop that the properties do not count on.
EventSpec ==
    /\ EventInit /\ [][EventNext]_eventVars
    /\ WF_eventVars(DispatcherStep)
    /\ \A e \in Emitter : WF_eventVars(EmitNotify(e))

-----------------------------------------------------------------------------
(* No wakeup is lost: a dispatcher that sleeps with nothing to wake it      *)
(* while events are queued is about to be notified of them.                 *)
NoLostWakeup ==
    disp \in {"count", "wait"} /\ ~notified /\ queue # <<>> => emitting # {}

(* Each event is delivered once, and after the one its emitter pushed       *)
(* before it: none is lost or overtaken on the way (main.rs:133, 272).      *)
DeliveredInOrder ==
    \A i \in DOMAIN delivered :
        LET e == delivered[i][1]
            k == delivered[i][2]
        IN  /\ \A j \in DOMAIN delivered : delivered[j] = <<e, k>> => j = i
            /\ k > 1 => \E j \in DOMAIN delivered : j < i /\ delivered[j] = <<e, k - 1>>

(* Every event is delivered without help from the timeout, while the        *)
(* dispatcher runs.                                                         *)
EventuallyDelivered ==
    \A e \in Emitter : \A k \in 1..MaxEvents[e] :
        (emitted[e] >= k) ~> (disp = "ended" \/ \E j \in DOMAIN delivered : delivered[j] = <<e, k>>)
=============================================================================
