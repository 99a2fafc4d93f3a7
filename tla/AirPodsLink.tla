----------------------------- MODULE AirPodsLink -----------------------------
(***************************************************************************)
(* The connection of one AirPods object (airpods/device.rs): the `conn`    *)
(* slot behind its tokio write lock, the `is_connected` atomic that is     *)
(* written outside that lock, the tasks that run AirPods::connect, the     *)
(* packet processors those tasks leave behind, and disconnect().           *)
(*                                                                         *)
(* A task and the packet processor it starts share an element of Task.     *)
(* Dropping a processor's JoinHandle detaches it, so a processor outlives  *)
(* the abort of its task.  The lock is not a variable: it is held exactly  *)
(* while a task is inside connect(); every other holder releases it in the *)
(* step that takes it.  The order in which waiters get it is left open,    *)
(* and the D-Bus setters, which share it while they send, only delay them.  *)
(***************************************************************************)
EXTENDS Naturals, FiniteSets

CONSTANTS
    Task,       \* identities of AAP tasks; a bound on how many run at once
    Inst,       \* identities of AirPods objects (one Arc<AirPodsInner> each)
    Rfcomm,     \* those of Nothing/CMF headsets: the thread that reads their
                \* socket is a blocking one, which no abort stops
    None        \* the empty slot

ASSUME NoneAssumption == None \notin Task \cup Inst
ASSUME RfcommAssumption == Rfcomm \subseteq Inst

VARIABLES
    attempt,    \* the AAP task's program counter
    aborted,    \* JoinHandle::abort() was called on the AAP task
    target,     \* the AirPods object the task works on
    proc,       \* the packet processor's program counter
    conn,       \* AirPodsInner::conn, by the task that stored it
    isConnected,\* AirPodsInner::is_connected
    closers,    \* objects on which disconnect() waits for the lock
    held        \* objects the manager's map (or a handler) references

linkVars == <<attempt, aborted, target, proc, conn, isConnected, closers, held>>

AttemptPhase ==
    {"idle", "queued", "handshake", "storing", "linked", "serving", "failed"}
ProcPhase == {"none", "reading", "closing", "done"}

LinkTypeOK ==
    /\ attempt \in [Task -> AttemptPhase]
    /\ aborted \in [Task -> BOOLEAN]
    /\ target \in [Task -> Inst \cup {None}]
    /\ proc \in [Task -> ProcPhase]
    /\ conn \in [Inst -> Task \cup {None}]
    /\ isConnected \in [Inst -> BOOLEAN]
    /\ closers \subseteq Inst
    /\ held \subseteq Inst

LinkInit ==
    /\ attempt = [t \in Task |-> "idle"]
    /\ aborted = [t \in Task |-> FALSE]
    /\ target = [t \in Task |-> None]
    /\ proc = [t \in Task |-> "none"]
    /\ conn = [i \in Inst |-> None]
    /\ isConnected = [i \in Inst |-> FALSE]
    /\ closers = {}
    /\ held = {}

-----------------------------------------------------------------------------
(* What the actions ask of the state. *)

Attempts(i) == {t \in Task : target[t] = i /\ attempt[t] # "idle"}
Procs(i, phase) == {t \in Task : target[t] = i /\ proc[t] = phase}
\* mutant: the write guard lives as long as the task
LockingTooLong(t) == attempt[t] \in {"handshake", "storing", "linked", "serving"}

Locking(t) == attempt[t] \in {"handshake", "storing"}
LockFree(i) == \A t \in Attempts(i) : ~Locking(t)
Unused(t) == attempt[t] = "idle" /\ proc[t] = "none"
Fresh(i) == i \notin held /\ \A t \in Task : target[t] # i

\* The last strong reference is gone: only WeakAirPods are left.
Orphan(i) == i \notin held /\ Attempts(i) = {} /\ Procs(i, "closing") = {}

\* A task and its processor are forgotten once both are over.
Settled(t, att, prc) == att = "idle" /\ prc = "none"
Leave(t, att, prc) ==
    /\ attempt' = [attempt EXCEPT ![t] = att]
    /\ proc' = [proc EXCEPT ![t] = prc]
    /\ aborted' = [aborted EXCEPT ![t] = @ /\ att # "idle"]
    /\ target' = [target EXCEPT ![t] = IF Settled(t, att, prc) THEN None ELSE @]

-----------------------------------------------------------------------------
(* The owner of the objects. *)

\* AirPods::new: a fresh object enters the manager's map.
Create(i) ==
    /\ Fresh(i)
    /\ held' = held \cup {i}
    /\ conn' = [conn EXCEPT ![i] = None]
    /\ isConnected' = [isConnected EXCEPT ![i] = FALSE]
    /\ UNCHANGED <<attempt, aborted, target, proc, closers>>

\* The last reference is dropped, and the connection with it.
DropInner(i) ==
    /\ Orphan(i)
    /\ conn[i] # None
    /\ conn' = [conn EXCEPT ![i] = None]
    /\ UNCHANGED <<attempt, aborted, target, proc, isConnected, closers, held>>

\* tokio::spawn of the AAP task.
Spawn(t, i) ==
    /\ i \in held
    /\ Unused(t)
    /\ attempt' = [attempt EXCEPT ![t] = "queued"]
    /\ target' = [target EXCEPT ![t] = i]
    /\ UNCHANGED <<aborted, proc, conn, isConnected, closers, held>>

\* JoinHandle::abort on the tasks ts: the poll in progress still runs to its
\* end, and so may any step of the task until the runtime drops it.
AbortEffect(ts) ==
    aborted' = [t \in Task |-> aborted[t] \/ (t \in ts /\ attempt[t] # "idle")]

Abort(ts) ==
    /\ AbortEffect(ts)
    /\ UNCHANGED <<attempt, target, proc, conn, isConnected, closers, held>>

\* The runtime drops an aborted task's future, and the lock if it held it.
\* "storing" has no await in it, so nothing is dropped there.
Vanish(t) ==
    /\ aborted[t]
    /\ attempt[t] \notin {"idle", "storing"}
    /\ Leave(t, "idle", IF proc[t] = "done" THEN "none" ELSE proc[t])
    /\ UNCHANGED <<conn, isConnected, closers, held>>

-----------------------------------------------------------------------------
(* AirPods::connect, run by an AAP task under its 30 s timeout. *)

\* conn.write().await, then the old connection is dropped.
TakeLock(t) ==
    LET i == target[t] IN
    /\ attempt[t] = "queued"
    /\ LockFree(i)
    /\ attempt' = [attempt EXCEPT ![t] = "handshake"]
    /\ conn' = [conn EXCEPT ![i] = None]
    /\ UNCHANGED <<aborted, target, proc, isConnected, closers, held>>

\* The transport and the handshake came up: the packet processor is spawned,
\* and runs from here on, on another worker thread.
StartProcessor(t) ==
    /\ attempt[t] = "handshake"
    /\ attempt' = [attempt EXCEPT ![t] = "storing"]
    /\ proc' = [proc EXCEPT ![t] = "reading"]
    /\ UNCHANGED <<aborted, target, conn, isConnected, closers, held>>

\* mutant: the flag is not raised
StoreUnflagged(t) ==
    /\ attempt[t] = "storing"
    /\ attempt' = [attempt EXCEPT ![t] = "linked"]
    /\ conn' = [conn EXCEPT ![target[t]] = t]
    /\ UNCHANGED <<aborted, target, proc, isConnected, closers, held>>

\* Then the connection is stored, the flag raised and the lock released.
StoreConn(t) ==
    LET i == target[t] IN
    /\ attempt[t] = "storing"
    /\ attempt' = [attempt EXCEPT ![t] = "linked"]
    /\ conn' = [conn EXCEPT ![i] = t]
    /\ isConnected' = [isConnected EXCEPT ![i] = TRUE]
    /\ UNCHANGED <<aborted, target, proc, closers, held>>

\* connect() returned an error, or the 30 s ran out (also while queued).
ConnectFail(t) ==
    /\ attempt[t] \in {"queued", "handshake"}
    /\ attempt' = [attempt EXCEPT ![t] = "failed"]
    /\ UNCHANGED <<aborted, target, proc, conn, isConnected, closers, held>>

\* The task reports AAPConnected and waits for its processor.
ReportUp(t) ==
    /\ attempt[t] = "linked"
    /\ attempt' = [attempt EXCEPT ![t] = "serving"]
    /\ UNCHANGED <<aborted, target, proc, conn, isConnected, closers, held>>

\* mutant: the task does not wait for its processor
ReportOnlyFailure(t) ==
    /\ attempt[t] = "failed"
    /\ Leave(t, "idle", "none")
    /\ UNCHANGED <<conn, isConnected, closers, held>>

\* The task reports AAPDisconnected and ends.
ReportDown(t) ==
    /\ \/ attempt[t] = "failed"
       \/ attempt[t] = "serving" /\ proc[t] = "done"
    /\ Leave(t, "idle", "none")
    /\ UNCHANGED <<conn, isConnected, closers, held>>

-----------------------------------------------------------------------------
(* The packet processor. *)

\* recv() failed: the peer is gone, or the connection object was dropped.
\* notify_transport_disconnected lowers the flag before it has the lock.
RecvError(t) ==
    /\ proc[t] = "reading"
    /\ ~Orphan(target[t])
    /\ proc' = [proc EXCEPT ![t] = "closing"]
    /\ isConnected' = [isConnected EXCEPT ![target[t]] = FALSE]
    /\ UNCHANGED <<attempt, aborted, target, conn, closers, held>>

\* mutant: the processor ends without the lock, leaving the slot alone
CloseLeavingConn(t) ==
    /\ proc[t] = "closing"
    /\ Leave(t, attempt[t], IF attempt[t] = "idle" THEN "none" ELSE "done")
    /\ UNCHANGED <<conn, isConnected, closers, held>>

\* ... and then takes whatever connection the slot holds by now.
TransportClosed(t) ==
    LET i == target[t] IN
    /\ proc[t] = "closing"
    /\ LockFree(i)
    /\ conn' = [conn EXCEPT ![i] = None]
    /\ Leave(t, attempt[t], IF attempt[t] = "idle" THEN "none" ELSE "done")
    /\ UNCHANGED <<isConnected, closers, held>>

\* recv() failed and WeakAirPods::upgrade() found no object.
RecvOrphan(t) ==
    /\ proc[t] = "reading"
    /\ Orphan(target[t])
    /\ conn[target[t]] # t
    /\ Leave(t, attempt[t], "none")
    /\ UNCHANGED <<conn, isConnected, closers, held>>

-----------------------------------------------------------------------------
(* AirPods::disconnect, called by the manager's handlers. *)

\* The handler aborts the tasks ts first; the flag is lowered before the lock
\* is awaited.
DisconnectBegin(i, ts) ==
    /\ i \in held \ closers
    /\ AbortEffect(ts)
    /\ isConnected' = [isConnected EXCEPT ![i] = FALSE]
    /\ closers' = closers \cup {i}
    /\ UNCHANGED <<attempt, target, proc, conn, held>>

\* With the lock, the connection is dropped; keep says whether the caller
\* still references the object afterwards.
DisconnectEnd(i, keep) ==
    /\ i \in closers
    /\ LockFree(i)
    /\ conn' = [conn EXCEPT ![i] = None]
    /\ closers' = closers \ {i}
    /\ held' = IF keep THEN held ELSE held \ {i}
    /\ UNCHANGED <<attempt, aborted, target, proc, isConnected>>

-----------------------------------------------------------------------------
\* Steps the tasks and processors take on their own.
TaskStep(t) ==
    \/ Vanish(t) \/ TakeLock(t) \/ StartProcessor(t) \/ StoreConn(t)
    \/ ConnectFail(t)
    \/ RecvError(t) \/ TransportClosed(t) \/ RecvOrphan(t)

LinkNext ==
    \/ \E t \in Task : TaskStep(t) \/ ReportUp(t) \/ ReportDown(t)
    \/ \E ts \in SUBSET Task : Abort(ts)
    \/ \E i \in Inst : \/ Create(i) \/ DropInner(i)
                       \/ \E t \in Task : Spawn(t, i)
                       \/ \E ts \in SUBSET Task : DisconnectBegin(i, ts)
                       \/ \E keep \in BOOLEAN : DisconnectEnd(i, keep)

\* A processor whose connection was dropped is woken with an error: the task
\* that feeds it was in the connection's JoinSet.  Not so over RFCOMM.
WakeClosed(t) ==
    /\ target[t] \notin Rfcomm
    /\ conn[target[t]] # t
    /\ RecvError(t) \/ RecvOrphan(t)

LinkFairness ==
    /\ \A t \in Task : /\ WF_linkVars(Vanish(t))
                       /\ WF_linkVars(StartProcessor(t) \/ ConnectFail(t))
                       /\ WF_linkVars(StoreConn(t))
                       /\ WF_linkVars(ReportUp(t))
                       /\ WF_linkVars(ReportDown(t))
                       /\ WF_linkVars(proc[t] = "reading" /\ WakeClosed(t))
                       /\ SF_linkVars(TransportClosed(t))
    /\ \A i \in Inst : /\ SF_linkVars(\E keep \in BOOLEAN : DisconnectEnd(i, keep))
                       /\ WF_linkVars(DropInner(i))

LinkSafeSpec == LinkInit /\ [][LinkNext]_linkVars
LinkSpec == LinkSafeSpec /\ LinkFairness

-----------------------------------------------------------------------------
(* Properties. *)

(* An installed connection always has a live packet processor: a lost      *)
(* transport is always noticed, however tasks were aborted or replaced.    *)
ConnWatched ==
    \A i \in Inst : conn[i] # None =>
        target[conn[i]] = i /\ proc[conn[i]] \in {"reading", "closing"}

(* A stored connection reads as disconnected only while a disconnect() or  *)
(* a dying processor is about to take it out of the slot.                  *)
ConnFlagged ==
    \A i \in held : conn[i] # None /\ ~isConnected[i] =>
        i \in closers \/ Procs(i, "closing") # {}

(* disconnect() always gets the lock: the manager, which awaits it inside a *)
(* handler, is never blocked for good by a handshake.                      *)
DisconnectCompletes == \A i \in Inst : (i \in closers) ~> (i \notin closers)

(* A task that served an L2CAP connection which is gone reports it or was  *)
(* aborted: the manager always gets its AAPDisconnected.                   *)
LossReported ==
    \A t \in Task : (attempt[t] = "serving" /\ target[t] \notin Rfcomm
                                           /\ conn[target[t]] # t)
                        ~> (attempt[t] = "idle")
=============================================================================
