---------------------------- MODULE NoiseControl ----------------------------
(***************************************************************************)
(* Setting the noise mode of a connected headset: the D-Bus calls that     *)
(* share the connection's read lock (airpods/device.rs), the transport's   *)
(* command channel, its send task and its answers (bluetooth/l2cap.rs),    *)
(* the notifications the packet processor handles, and what takes the      *)
(* connection away.  One connection, from its handshake to its end.        *)
(*                                                                         *)
(* A request is one call of set_noise_control.  Its command outlives it    *)
(* when it times out.  The receiving task, its channel and the radio are   *)
(* one queue of notifications.                                             *)
(***************************************************************************)
EXTENDS Naturals, Sequences, FiniteSets, SequencesExt

CONSTANTS
    Request,    \* calls of set_noise_control
    Mode,
    Wanted,     \* the mode each call asks for
    Unknown,    \* no mode yet, no command in hand
    QueueCap,   \* commands the transport's channel holds (128)
    MaxPresses  \* bound: how often the headset's own button is used

ASSUME WantedAssumption == Wanted \in [Request -> Mode]
ASSUME UnknownAssumption == Unknown \notin Mode \cup Request
ASSUME CapAssumption == QueueCap \in Nat \ {0} /\ MaxPresses \in Nat

VARIABLES
    req,        \* where each call is
    cmds,       \* the command channel
    sending,    \* the command send_thread is writing
    sent,       \* every command written, in order
    applied,    \* how many of them the headset has obeyed
    headset,    \* its mode
    inbound,    \* notifications on their way to the processor
    noiseMode,  \* AirPodsInner::noise_mode
    linkUp,     \* the socket is connected
    slot,       \* conn is Some
    proc,       \* the packet processor
    closing,    \* the manager's disconnect()
    presses,
    raced       \* ghost: another change came between a call's write and its store

callVars == <<req, cmds, sending, sent>>
headsetVars == <<applied, headset, inbound, presses>>
connVars == <<linkUp, slot, proc, closing>>
vars == <<callVars, headsetVars, noiseMode, connVars, raced>>

Phase == {"new", "queueing", "waiting", "storing", "ok", "failed"}

ControlTypeOK ==
    /\ req \in [Request -> Phase]
    /\ cmds \in Seq(Request) /\ Len(cmds) <= QueueCap
    /\ sending \in Request \cup {Unknown}
    /\ sent \in Seq(Request) /\ applied \in 0..Len(sent)
    /\ headset \in Mode /\ inbound \in Seq(Mode)
    /\ noiseMode \in Mode \cup {Unknown}
    /\ {linkUp, slot, raced} \subseteq BOOLEAN
    /\ proc \in {"reading", "closing", "done"}
    /\ closing \in {"no", "waiting", "done"}
    /\ presses \in 0..MaxPresses

-----------------------------------------------------------------------------
\* Calls that hold the read lock; a waiting writer lets no further one in.
Readers == {r \in Request : req[r] \in {"queueing", "waiting", "storing"}}
WriterWaits == closing = "waiting" \/ proc = "closing"

\* A change of the headset now races with the store of these.
Racing == {r \in Request : req[r] = "storing"}

Init ==
    /\ req = [r \in Request |-> "new"]
    /\ cmds = <<>> /\ sending = Unknown /\ sent = <<>>
    /\ headset \in Mode /\ inbound = <<headset>> /\ applied = 0 /\ presses = 0
    /\ noiseMode = Unknown
    /\ linkUp = TRUE /\ slot = TRUE /\ proc = "reading" /\ closing = "no"
    /\ raced = FALSE

\* set_noise_control: conn.read().await
Begin(r) ==
    /\ req[r] = "new"
    /\ ~WriterWaits
    /\ req' = [req EXCEPT ![r] = IF slot THEN "queueing" ELSE "failed"]
    /\ UNCHANGED <<cmds, sending, sent, headsetVars, noiseMode, connVars, raced>>

\* mutant: the command is sent whether there is room or not
EnqueueBeyond(r) ==
    /\ req[r] = "queueing"
    /\ cmds' = Append(cmds, r)
    /\ req' = [req EXCEPT ![r] = "waiting"]
    /\ UNCHANGED <<sending, sent, headsetVars, noiseMode, connVars, raced>>

\* L2CapSender::send: room in the channel is awaited without a time limit
Enqueue(r) ==
    /\ req[r] = "queueing"
    /\ Len(cmds) < QueueCap
    /\ cmds' = Append(cmds, r)
    /\ req' = [req EXCEPT ![r] = "waiting"]
    /\ UNCHANGED <<sending, sent, headsetVars, noiseMode, connVars, raced>>

\* ... and the answer with one; the command stays where it is
TimeOut(r) ==
    /\ req[r] = "waiting"
    /\ req' = [req EXCEPT ![r] = "failed"]
    /\ UNCHANGED <<cmds, sending, sent, headsetVars, noiseMode, connVars, raced>>

\* send_thread: rx.recv
TakeCommand ==
    /\ slot /\ sending = Unknown /\ cmds # <<>>
    /\ sending' = Head(cmds)
    /\ cmds' = Tail(cmds)
    /\ UNCHANGED <<req, sent, headsetVars, noiseMode, connVars, raced>>

\* mutant: the answer goes to whoever waits
AnsweringAny ==
    [r \in Request |-> IF req[r] = "waiting" THEN "storing" ELSE req[r]]

\* `then` of the command in hand; nobody listens once the call has timed out
Answering ==
    [r \in Request |-> IF r = sending /\ req[r] = "waiting" THEN "storing" ELSE req[r]]

\* send_thread: the write succeeds
Written ==
    /\ slot /\ sending # Unknown /\ linkUp
    /\ sent' = Append(sent, sending)
    /\ sending' = Unknown
    /\ req' = Answering
    /\ raced' = (raced \/ Racing # {})
    /\ UNCHANGED <<cmds, headsetVars, noiseMode, connVars>>

\* mutant: a failed write is tried again
WriteRetried ==
    /\ slot /\ sending # Unknown /\ ~linkUp
    /\ UNCHANGED vars

\* send_thread: the write fails, is answered, and the thread goes on
WriteFails ==
    /\ slot /\ sending # Unknown /\ ~linkUp
    /\ sending' = Unknown
    /\ req' = [r \in Request |->
          IF r = sending /\ req[r] = "waiting" THEN "failed" ELSE req[r]]
    /\ UNCHANGED <<cmds, sent, headsetVars, noiseMode, connVars, raced>>

\* set_noise_control: noise_mode.store, with no event
Store(r) ==
    /\ req[r] = "storing"
    /\ noiseMode' = Wanted[r]
    /\ req' = [req EXCEPT ![r] = "ok"]
    /\ UNCHANGED <<cmds, sending, sent, headsetVars, connVars, raced>>

-----------------------------------------------------------------------------
(* The headset: it reports every change of its mode.                        *)
Becomes(m) ==
    /\ headset' = m
    /\ inbound' = IF m = headset THEN inbound ELSE Append(inbound, m)

Obey ==
    /\ linkUp /\ applied < Len(sent)
    /\ applied' = applied + 1
    /\ Becomes(Wanted[sent[applied + 1]])
    /\ UNCHANGED <<callVars, presses, noiseMode, connVars, raced>>

Press(m) ==
    /\ linkUp /\ m # headset /\ presses < MaxPresses
    /\ presses' = presses + 1
    /\ Becomes(m)
    /\ raced' = (raced \/ Racing # {})
    /\ UNCHANGED <<callVars, applied, noiseMode, connVars>>

\* What the receiving task has not got by then is lost.
SomeArrive == inbound' \in Prefixes(inbound)

LinkLost ==
    /\ linkUp
    /\ linkUp' = FALSE
    /\ SomeArrive
    /\ UNCHANGED <<callVars, applied, headset, presses, noiseMode, slot, proc,
                   closing, raced>>

-----------------------------------------------------------------------------
(* The packet processor and the manager.                                    *)

\* mutant: what comes while a call is under way is taken for its echo
NotifiedUnlessSetting ==
    /\ proc = "reading" /\ inbound # <<>>
    /\ inbound' = Tail(inbound)
    /\ noiseMode' = IF Readers = {} THEN Head(inbound) ELSE noiseMode
    /\ UNCHANGED <<callVars, applied, headset, presses, connVars, raced>>

\* process_packet, a noise mode; its event is in HeadsetState
Notified ==
    /\ proc = "reading" /\ inbound # <<>>
    /\ inbound' = Tail(inbound)
    /\ noiseMode' = Head(inbound)
    /\ UNCHANGED <<callVars, applied, headset, presses, connVars, raced>>

\* recv fails after what was received: notify_transport_disconnected ...
ReceiveFails ==
    /\ proc = "reading" /\ inbound = <<>> /\ ~linkUp
    /\ proc' = "closing"
    /\ UNCHANGED <<callVars, headsetVars, noiseMode, linkUp, slot, closing, raced>>

\* Taking the connection out drops it: its tasks are aborted with what they hold.
TakeConn ==
    /\ Readers = {}
    /\ slot' = FALSE /\ linkUp' = FALSE
    /\ cmds' = <<>> /\ sending' = Unknown /\ SomeArrive
    /\ UNCHANGED <<req, sent, applied, headset, presses, noiseMode, raced>>

\* ... which takes the write lock
ProcessorCloses ==
    /\ proc = "closing"
    /\ proc' = "done"
    /\ TakeConn
    /\ UNCHANGED closing

\* disconnect(), up to conn.write().await, and from there
Disconnect ==
    /\ closing = "no"
    /\ closing' = "waiting"
    /\ UNCHANGED <<callVars, headsetVars, noiseMode, linkUp, slot, proc, raced>>

DisconnectEnds ==
    /\ closing = "waiting"
    /\ closing' = "done"
    /\ TakeConn
    /\ UNCHANGED proc

CallStep == \E r \in Request : Begin(r) \/ Enqueue(r) \/ TimeOut(r) \/ Store(r)
SendStep == TakeCommand \/ Written \/ WriteFails
HeadsetStep == Obey \/ LinkLost \/ \E m \in Mode : Press(m)
CloseStep == ReceiveFails \/ ProcessorCloses \/ Disconnect \/ DisconnectEnds

Next == CallStep \/ SendStep \/ HeadsetStep \/ Notified \/ CloseStep

Spec == Init /\ [][Next]_vars

\* Ready tasks run, channel and lock are FIFO, a time limit expires; and the
\* kernel ends a write at last, by sending or by giving the link up.
Fairness ==
    /\ \A r \in Request : /\ SF_vars(Enqueue(r))
                          /\ WF_vars(TimeOut(r)) /\ WF_vars(Store(r))
    /\ WF_vars(TakeCommand) /\ WF_vars(Written \/ WriteFails)
    /\ WF_vars(Notified) /\ WF_vars(ReceiveFails)
    /\ WF_vars(ProcessorCloses) /\ WF_vars(DisconnectEnds)

FairSpec == Spec /\ Fairness

-----------------------------------------------------------------------------
Quiet ==
    /\ slot /\ linkUp
    /\ Readers = {} /\ cmds = <<>> /\ sending = Unknown
    /\ applied = Len(sent) /\ inbound = <<>>

(* When nothing is under way, what the service shows is the headset's mode, *)
(* whatever calls timed out or failed and whatever was pressed, unless the  *)
(* headset changed between a call's write and its store (device.rs:542).    *)
AgreesUnlessRaced == Quiet /\ ~raced => noiseMode = headset

(* A call succeeds only if its own command was written, and no command is   *)
(* written twice: the late answer to a call that timed out is nobody else's *)
(* (l2cap.rs:72).                                                           *)
AnswersOwn ==
    /\ \A r \in Request : req[r] \in {"storing", "ok"} => r \in ToSet(sent)
    /\ IsInjective(sent)
    /\ ToSet(sent) \cap (ToSet(cmds) \cup {sending}) = {}

(* disconnect() gets the lock from calls that wait for room or an answer:   *)
(* the manager, which awaits it, goes on (device.rs:405).                   *)
DisconnectReturns == closing = "waiting" ~> closing = "done"
=============================================================================
