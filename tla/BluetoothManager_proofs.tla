------------------------ MODULE BluetoothManager_proofs ------------------------
(* The manager drives AirPodsLink as that module allows, so the invariants   *)
(* of the connection slot hold under it; and invariants of its own maps.     *)
EXTENDS BluetoothManager, FiniteSetTheorems, TLAPS

-----------------------------------------------------------------------------
(* The connection slot on its own, for any number of tasks and objects.      *)

(* A task or processor that runs has an object; only a task past its         *)
(* handshake has a processor, and one that holds the lock to store its       *)
(* connection has a live one.                                                *)
TasksSound ==
    \A t \in Task :
        /\ attempt[t] # "idle" \/ proc[t] # "none" => target[t] \in Inst
        /\ attempt[t] \in {"queued", "handshake", "failed"} => proc[t] = "none"
        /\ attempt[t] = "storing" => proc[t] \in {"reading", "closing"}

LinkInv == LinkTypeOK /\ TasksSound /\ ConnWatched /\ ConnFlagged

USE NoneAssumption

(* The initial state satisfies the invariant.                                *)
LEMMA LinkInitInv == LinkInit => LinkInv
BY DEF LinkInit, LinkInv, LinkTypeOK, TasksSound, ConnWatched, ConnFlagged,
       AttemptPhase, ProcPhase

(* Types are preserved by every step.                                        *)
LEMMA LinkTypeStep == LinkInv /\ [LinkNext]_linkVars => LinkTypeOK'
<1> SUFFICES ASSUME LinkInv, [LinkNext]_linkVars PROVE LinkTypeOK'
    OBVIOUS
<1> USE DEF LinkInv, LinkTypeOK, AttemptPhase, ProcPhase
<1>1. CASE UNCHANGED linkVars
    BY <1>1 DEF linkVars
<1>2. ASSUME NEW t \in Task, TaskStep(t) PROVE LinkTypeOK'
    <2>1. CASE Vanish(t) BY <2>1 DEF Vanish, Leave
    <2>2. CASE TakeLock(t) BY <2>2 DEF TakeLock, TasksSound
    <2>3. CASE StartProcessor(t) BY <2>3 DEF StartProcessor
    <2>4. CASE StoreConn(t) BY <2>4 DEF StoreConn, TasksSound
    <2>5. CASE ConnectFail(t) BY <2>5 DEF ConnectFail
    <2>6. CASE RecvError(t) BY <2>6 DEF RecvError
    <2>7. CASE TransportClosed(t) BY <2>7 DEF TransportClosed, Leave
    <2>8. CASE RecvOrphan(t) BY <2>8 DEF RecvOrphan, Leave
    <2> QED BY <1>2, <2>1, <2>2, <2>3, <2>4, <2>5, <2>6, <2>7, <2>8 DEF TaskStep
<1>3. ASSUME NEW t \in Task, ReportUp(t) \/ ReportDown(t) PROVE LinkTypeOK'
    BY <1>3 DEF ReportUp, ReportDown, Leave
<1>4. ASSUME NEW ts \in SUBSET Task, Abort(ts) PROVE LinkTypeOK'
    BY <1>4 DEF Abort, AbortEffect
<1>5. ASSUME NEW i \in Inst, Create(i) \/ DropInner(i) \/ (\E t \in Task : Spawn(t, i))
      PROVE LinkTypeOK'
    <2>1. CASE Create(i) BY <2>1 DEF Create
    <2>2. CASE DropInner(i) BY <2>2 DEF DropInner
    <2>3. ASSUME NEW t \in Task, Spawn(t, i) PROVE LinkTypeOK' BY <2>3 DEF Spawn
    <2> QED BY <1>5, <2>1, <2>2, <2>3
<1>6. ASSUME NEW i \in Inst, NEW ts \in SUBSET Task, DisconnectBegin(i, ts)
      PROVE LinkTypeOK'
    BY <1>6 DEF DisconnectBegin, AbortEffect
<1>7. ASSUME NEW i \in Inst, NEW keep \in BOOLEAN, DisconnectEnd(i, keep)
      PROVE LinkTypeOK'
    BY <1>7 DEF DisconnectEnd
<1> QED BY <1>1, <1>2, <1>3, <1>4, <1>5, <1>6, <1>7 DEF LinkNext

(* A task keeps its object, and its processor is as its phase says.          *)
LEMMA TasksStep == LinkInv /\ LinkTypeOK' /\ [LinkNext]_linkVars => TasksSound'
<1> SUFFICES ASSUME LinkInv, LinkTypeOK', [LinkNext]_linkVars PROVE TasksSound'
    OBVIOUS
<1> USE DEF LinkInv, LinkTypeOK, AttemptPhase, ProcPhase, TasksSound
<1>1. CASE UNCHANGED linkVars
    BY <1>1 DEF linkVars
<1>2. ASSUME NEW t \in Task, TaskStep(t) PROVE TasksSound'
    <2>1. CASE Vanish(t) BY <2>1 DEF Vanish, Leave, Settled
    <2>2. CASE TakeLock(t) BY <2>2 DEF TakeLock
    <2>3. CASE StartProcessor(t) BY <2>3 DEF StartProcessor
    <2>4. CASE StoreConn(t) BY <2>4 DEF StoreConn
    <2>5. CASE ConnectFail(t) BY <2>5 DEF ConnectFail
    <2>6. CASE RecvError(t) BY <2>6 DEF RecvError
    <2>7. CASE TransportClosed(t)
        BY <2>7 DEF TransportClosed, Leave, Settled, LockFree, Locking, Attempts
    <2>8. CASE RecvOrphan(t) BY <2>8 DEF RecvOrphan, Leave, Settled, Orphan, Attempts
    <2> QED BY <1>2, <2>1, <2>2, <2>3, <2>4, <2>5, <2>6, <2>7, <2>8 DEF TaskStep
<1>3. ASSUME NEW t \in Task, ReportUp(t) \/ ReportDown(t) PROVE TasksSound'
    <2>1. CASE ReportUp(t) BY <2>1 DEF ReportUp
    <2>2. CASE ReportDown(t) BY <2>2 DEF ReportDown, Leave, Settled
    <2> QED BY <1>3, <2>1, <2>2
<1>4. ASSUME NEW ts \in SUBSET Task, Abort(ts) PROVE TasksSound'
    BY <1>4 DEF Abort, AbortEffect
<1>5. ASSUME NEW i \in Inst, Create(i) \/ DropInner(i) \/ (\E t \in Task : Spawn(t, i))
      PROVE TasksSound'
    <2>1. CASE Create(i) BY <2>1 DEF Create, Fresh
    <2>2. CASE DropInner(i) BY <2>2 DEF DropInner
    <2>3. ASSUME NEW t \in Task, Spawn(t, i) PROVE TasksSound' BY <2>3 DEF Spawn, Unused
    <2> QED BY <1>5, <2>1, <2>2, <2>3
<1>6. ASSUME NEW i \in Inst, NEW ts \in SUBSET Task, DisconnectBegin(i, ts)
      PROVE TasksSound'
    BY <1>6 DEF DisconnectBegin, AbortEffect
<1>7. ASSUME NEW i \in Inst, NEW keep \in BOOLEAN, DisconnectEnd(i, keep)
      PROVE TasksSound'
    BY <1>7 DEF DisconnectEnd
<1> QED BY <1>1, <1>2, <1>3, <1>4, <1>5, <1>6, <1>7 DEF LinkNext

(* No step leaves a stored connection without a live processor: a processor  *)
(* that ends has taken the connection out, or its object is gone with it.    *)
LEMMA WatchedStep == LinkInv /\ LinkTypeOK' /\ [LinkNext]_linkVars => ConnWatched'
<1> SUFFICES ASSUME LinkInv, LinkTypeOK', [LinkNext]_linkVars PROVE ConnWatched'
    OBVIOUS
<1> USE DEF LinkInv, LinkTypeOK, AttemptPhase, ProcPhase, ConnWatched, TasksSound
<1>1. CASE UNCHANGED linkVars
    BY <1>1 DEF linkVars
<1>2. ASSUME NEW t \in Task, TaskStep(t) PROVE ConnWatched'
    <2>1. CASE Vanish(t) BY <2>1 DEF Vanish, Leave, Settled
    <2>2. CASE TakeLock(t) BY <2>2 DEF TakeLock
    <2>3. CASE StartProcessor(t) BY <2>3 DEF StartProcessor
    <2>4. CASE StoreConn(t) BY <2>4 DEF StoreConn
    <2>5. CASE ConnectFail(t) BY <2>5 DEF ConnectFail
    <2>6. CASE RecvError(t) BY <2>6 DEF RecvError
    <2>7. CASE TransportClosed(t)
        BY <2>7 DEF TransportClosed, Leave, Settled, LockFree, Locking, Attempts
    <2>8. CASE RecvOrphan(t) BY <2>8 DEF RecvOrphan, Leave, Settled, Orphan, Attempts
    <2> QED BY <1>2, <2>1, <2>2, <2>3, <2>4, <2>5, <2>6, <2>7, <2>8 DEF TaskStep
<1>3. ASSUME NEW t \in Task, ReportUp(t) \/ ReportDown(t) PROVE ConnWatched'
    <2>1. CASE ReportUp(t) BY <2>1 DEF ReportUp
    <2>2. CASE ReportDown(t) BY <2>2 DEF ReportDown, Leave, Settled
    <2> QED BY <1>3, <2>1, <2>2
<1>4. ASSUME NEW ts \in SUBSET Task, Abort(ts) PROVE ConnWatched'
    BY <1>4 DEF Abort, AbortEffect
<1>5. ASSUME NEW i \in Inst, Create(i) \/ DropInner(i) \/ (\E t \in Task : Spawn(t, i))
      PROVE ConnWatched'
    <2>1. CASE Create(i) BY <2>1 DEF Create, Fresh
    <2>2. CASE DropInner(i) BY <2>2 DEF DropInner
    <2>3. ASSUME NEW t \in Task, Spawn(t, i) PROVE ConnWatched' BY <2>3 DEF Spawn, Unused
    <2> QED BY <1>5, <2>1, <2>2, <2>3
<1>6. ASSUME NEW i \in Inst, NEW ts \in SUBSET Task, DisconnectBegin(i, ts)
      PROVE ConnWatched'
    BY <1>6 DEF DisconnectBegin, AbortEffect
<1>7. ASSUME NEW i \in Inst, NEW keep \in BOOLEAN, DisconnectEnd(i, keep)
      PROVE ConnWatched'
    BY <1>7 DEF DisconnectEnd
<1> QED BY <1>1, <1>2, <1>3, <1>4, <1>5, <1>6, <1>7 DEF LinkNext

(* The flag is raised with every connection that is stored, and whoever      *)
(* lowers it first is recorded as about to take the connection.              *)
LEMMA FlaggedStep == LinkInv /\ LinkTypeOK' /\ [LinkNext]_linkVars => ConnFlagged'
<1> SUFFICES ASSUME LinkInv, LinkTypeOK', [LinkNext]_linkVars PROVE ConnFlagged'
    OBVIOUS
<1> USE DEF LinkInv, LinkTypeOK, AttemptPhase, ProcPhase, ConnFlagged, TasksSound
<1>1. CASE UNCHANGED linkVars
    BY <1>1 DEF linkVars, Procs
<1>2. ASSUME NEW t \in Task, TaskStep(t) PROVE ConnFlagged'
    <2>1. CASE Vanish(t) BY <2>1 DEF Vanish, Leave, Settled, Procs
    <2>2. CASE TakeLock(t) BY <2>2 DEF TakeLock, Procs
    <2>3. CASE StartProcessor(t) BY <2>3 DEF StartProcessor, Procs
    <2>4. CASE StoreConn(t) BY <2>4 DEF StoreConn, Procs
    <2>5. CASE ConnectFail(t) BY <2>5 DEF ConnectFail, Procs
    <2>6. CASE RecvError(t) BY <2>6 DEF RecvError, Procs
    <2>7. CASE TransportClosed(t)
        BY <2>7 DEF TransportClosed, Leave, Settled, LockFree, Locking, Attempts, Procs
    <2>8. CASE RecvOrphan(t) BY <2>8 DEF RecvOrphan, Leave, Settled, Orphan, Attempts, Procs
    <2> QED BY <1>2, <2>1, <2>2, <2>3, <2>4, <2>5, <2>6, <2>7, <2>8 DEF TaskStep
<1>3. ASSUME NEW t \in Task, ReportUp(t) \/ ReportDown(t) PROVE ConnFlagged'
    <2>1. CASE ReportUp(t) BY <2>1 DEF ReportUp, Procs
    <2>2. CASE ReportDown(t) BY <2>2 DEF ReportDown, Leave, Settled, Procs
    <2> QED BY <1>3, <2>1, <2>2
<1>4. ASSUME NEW ts \in SUBSET Task, Abort(ts) PROVE ConnFlagged'
    BY <1>4 DEF Abort, AbortEffect, Procs
<1>5. ASSUME NEW i \in Inst, Create(i) \/ DropInner(i) \/ (\E t \in Task : Spawn(t, i))
      PROVE ConnFlagged'
    <2>1. CASE Create(i) BY <2>1 DEF Create, Fresh, Procs
    <2>2. CASE DropInner(i) BY <2>2 DEF DropInner, Procs
    <2>3. ASSUME NEW t \in Task, Spawn(t, i) PROVE ConnFlagged' BY <2>3 DEF Spawn, Unused, Procs
    <2> QED BY <1>5, <2>1, <2>2, <2>3
<1>6. ASSUME NEW i \in Inst, NEW ts \in SUBSET Task, DisconnectBegin(i, ts)
      PROVE ConnFlagged'
    BY <1>6 DEF DisconnectBegin, AbortEffect, Procs
<1>7. ASSUME NEW i \in Inst, NEW keep \in BOOLEAN, DisconnectEnd(i, keep)
      PROVE ConnFlagged'
    BY <1>7 DEF DisconnectEnd, Procs
<1> QED BY <1>1, <1>2, <1>3, <1>4, <1>5, <1>6, <1>7 DEF LinkNext

(* The invariant is inductive.                                               *)
LEMMA LinkStepInv == LinkInv /\ [LinkNext]_linkVars => LinkInv'
BY LinkTypeStep, TasksStep, WatchedStep, FlaggedStep DEF LinkInv

(* The invariant holds of every behaviour of the slot.                       *)
THEOREM LinkInvariant == LinkSafeSpec => []LinkInv
<1>1. LinkInit => LinkInv
    BY LinkInitInv
<1>2. LinkInv /\ [LinkNext]_linkVars => LinkInv'
    BY LinkStepInv
<1> QED BY <1>1, <1>2, PTL DEF LinkSafeSpec

(* Whatever tasks are aborted, replaced or raced, a stored connection has a  *)
(* live packet processor, so the loss of its transport is noticed.           *)
THEOREM ConnAlwaysWatched == LinkSafeSpec => []ConnWatched
<1>1. LinkInv => ConnWatched
    BY DEF LinkInv
<1> QED BY <1>1, LinkInvariant, PTL

(* A stored connection reads as disconnected only while something is about   *)
(* to take it out of the slot.                                               *)
THEOREM ConnAlwaysFlagged == LinkSafeSpec => []ConnFlagged
<1>1. LinkInv => ConnFlagged
    BY DEF LinkInv
<1> QED BY <1>1, LinkInvariant, PTL

-----------------------------------------------------------------------------
(* The loopback channel. *)

(* One message per address makes a finite set of messages.                   *)
LEMMA ImageFinite ==
    ASSUME NEW as \in SUBSET Addr, NEW f \in [as -> Command]
    PROVE  IsFiniteSet({f[a] : a \in as})
<1>1. IsFiniteSet(as)
    BY FS_Subset, AddrAssumption
<1>2. f \in Surjection(as, {f[a] : a \in as})
    BY DEF Surjection
<1> QED BY <1>1, <1>2, FS_Surjection

(* A finite set of messages in any order is a sequence of messages.          *)
LEMMA OrdersType ==
    ASSUME NEW ms \in SUBSET Command, IsFiniteSet(ms), NEW s \in SetToSeqs(ms)
    PROVE  s \in Seq(Command)
<1>1. Cardinality(ms) \in Nat
    BY FS_CardinalityType
<1>2. s \in [1..Cardinality(ms) -> ms]
    BY DEF SetToSeqs
<1> QED BY <1>1, <1>2

(* What an adapter's check for connected headsets sends.                     *)
LEMMA CheckType ==
    ASSUME NEW n \in Adapter, NEW s \in CheckConnected(n)
    PROVE  s \in Seq(Command)
<1> DEFINE as == {x \in Addr : btOn[x] = n /\ ~Known(x)}
           msg == [a \in as |-> [cmd |-> "DeviceDiscovered", addr |-> a, adapter |-> n]]
           ms == {msg[a] : a \in as}
<1>1. msg \in [as -> Command] /\ as \subseteq Addr
    BY DEF Command
<1>2. ms = {[cmd |-> "DeviceDiscovered", addr |-> a, adapter |-> n] : a \in as}
    OBVIOUS
<1>3. IsFiniteSet(ms) /\ ms \subseteq Command
    BY <1>1, ImageFinite
<1>4. PICK m \in SUBSET ms : s \in SetToSeqs(m)
    BY <1>2 DEF CheckConnected, SetToAllKPermutations
<1>5. IsFiniteSet(m) /\ m \subseteq Command
    BY <1>3, <1>4, FS_Subset
<1> QED BY <1>4, <1>5, OrdersType

(* What a health tick sends.                                                 *)
LEMMA HealthType ==
    ASSUME NEW up \in SUBSET Addr, NEW s \in SetToSeqs(HealthMessages(up))
    PROVE  s \in Seq(Command)
<1> DEFINE down == {x \in Addr : Known(x) /\ devices[x].bt = "Connected"} \ up
           back == {x \in up : Known(x) /\ devices[x].bt = "Disconnected"}
           dm == [a \in down |-> [cmd |-> "BluetoothDisconnected", addr |-> a]]
           bm == [a \in back |-> [cmd |-> "BluetoothConnected", addr |-> a]]
<1>1. dm \in [down -> Command] /\ bm \in [back -> Command]
    BY DEF Command
<1>2. IsFiniteSet({dm[a] : a \in down}) /\ IsFiniteSet({bm[a] : a \in back})
    <2>1. down \subseteq Addr /\ back \subseteq Addr
        OBVIOUS
    <2> HIDE DEF dm, bm, down, back
    <2> QED BY <1>1, <2>1, ImageFinite
<1>3. HealthMessages(up) = {dm[a] : a \in down} \cup {bm[a] : a \in back}
    BY DEF HealthMessages
<1>4. IsFiniteSet(HealthMessages(up)) /\ HealthMessages(up) \subseteq Command
    <2>1. {dm[a] : a \in down} \subseteq Command /\ {bm[a] : a \in back} \subseteq Command
        BY <1>1
    <2> HIDE DEF dm, bm, down, back
    <2> QED BY <1>2, <1>3, <2>1, FS_Union
<1> QED BY <1>4, OrdersType

(* What a scan sends.                                                        *)
LEMMA ScanType ==
    ASSUME btOn \in [Addr -> Adapter \cup {None}],
           NEW seen \in SUBSET {a \in Addr : btOn[a] # None},
           NEW s \in SetToSeqs(ScanMessages(seen))
    PROVE  s \in Seq(Command)
<1> DEFINE as == {x \in seen : adapters[btOn[x]].state = "Active" /\ ~HasAapConnection(x)}
           msg == [a \in as |-> [cmd |-> "DeviceDiscovered", addr |-> a, adapter |-> btOn[a]]]
<1>1. msg \in [as -> Command] /\ as \subseteq Addr
    BY DEF Command
<1>2. ScanMessages(seen) = {msg[a] : a \in as}
    BY DEF ScanMessages
<1>3. IsFiniteSet({msg[a] : a \in as}) /\ {msg[a] : a \in as} \subseteq Command
    BY <1>1, ImageFinite
<1> QED BY <1>2, <1>3, OrdersType

-----------------------------------------------------------------------------
(* The manager implements AirPodsLink. *)

(* The tasks a handler aborts are tasks.                                     *)
LEMMA HandlesAreTasks ==
    ASSUME ManagerTypeOK, NEW a \in Addr
    PROVE  HandleOf(a) \subseteq Task
BY DEF ManagerTypeOK, HandleOf, Known, ManagedDevice

(* A step of the manager, of a timer or of BlueZ leaves the objects of       *)
(* AirPodsLink alone or takes one step of its owner.                         *)
LEMMA LinkStep == ManagerTypeOK /\ [Next]_vars => [LinkNext]_linkVars
<1> SUFFICES ASSUME ManagerTypeOK, [Next]_vars PROVE [LinkNext]_linkVars
    OBVIOUS
<1>1. CASE UNCHANGED vars
    BY <1>1 DEF vars
<1>2. CASE CommandStep
    <2>1. ASSUME NEW n \in Adapter, AdapterAvailable(n) PROVE UNCHANGED linkVars
        BY <2>1 DEF AdapterAvailable
    <2>2. ASSUME NEW n \in Adapter, AdapterLost(n) PROVE [LinkNext]_linkVars
        <3> DEFINE lost == {a \in Addr : Known(a) /\ devices[a].adapter = n}
                   ts == UNION {HandleOf(a) : a \in lost}
        <3>1. ts \in SUBSET Task
            BY HandlesAreTasks
        <3>2. Abort(ts) \/ UNCHANGED linkVars
            BY <2>2 DEF AdapterLost
        <3> HIDE DEF ts
        <3> QED BY <3>1, <3>2 DEF LinkNext
    <2>3. ASSUME NEW n \in Adapter, AdapterError(n) PROVE UNCHANGED linkVars
        BY <2>3 DEF AdapterError
    <2>4. ASSUME NEW a \in Addr, BluetoothConnected(a) PROVE UNCHANGED linkVars
        BY <2>4 DEF BluetoothConnected
    <2>5. ASSUME NEW a \in Addr, NEW dev, NEW cmd, Known(a), StartDisconnect(cmd, a, dev)
          PROVE LinkNext
        <3>1. devices[a].inst \in Inst
            BY <2>5 DEF ManagerTypeOK, Known, ManagedDevice
        <3> QED BY <2>5, <3>1, HandlesAreTasks DEF StartDisconnect, LinkNext
    <2>6. ASSUME NEW a \in Addr, BluetoothDisconnected(a) \/ DeviceLost(a)
          PROVE [LinkNext]_linkVars
        BY <2>5, <2>6 DEF BluetoothDisconnected, DeviceLost
    <2>7. ASSUME NEW a \in Addr, RetryAAP(a) \/ AAPConnected(a) \/ AAPDisconnected(a)
          PROVE UNCHANGED linkVars
        BY <2>7 DEF RetryAAP, AAPConnected, AAPDisconnected
    <2>8. ASSUME NEW a \in Addr, NEW n \in Adapter, DeviceDiscovered(a, n)
          PROVE [LinkNext]_linkVars
        BY <2>8 DEF DeviceDiscovered, Discover, LinkNext
    <2> QED BY <1>2, <2>1, <2>2, <2>3, <2>4, <2>6, <2>7, <2>8 DEF CommandStep
<1>3. CASE HandlerStep
    <2>1. ASSUME NEW n \in Adapter, InitializeAdapter(n) PROVE UNCHANGED linkVars
        BY <2>1 DEF InitializeAdapter
    <2>2. ASSUME NEW a \in Addr, EstablishAapConnection(a) PROVE [LinkNext]_linkVars
        <3>1. CASE Reject(a)
            BY <3>1 DEF Reject
        <3>2. ASSUME NEW t \in Task, SpawnTask(a, t) PROVE LinkNext
            <4>1. devices[a].inst \in Inst
                BY <3>2 DEF SpawnTask, MayEstablish, ManagerTypeOK, Known, ManagedDevice
            <4> QED BY <3>2, <4>1 DEF SpawnTask, LinkNext
        <3> QED BY <2>2, <3>1, <3>2 DEF EstablishAapConnection
    <2>3. CASE FinishDisconnect
        <3>1. ending.inst \in Inst
            BY <2>3 DEF FinishDisconnect, ManagerTypeOK, Ending
        <3> QED BY <2>3, <3>1 DEF FinishDisconnect, LinkNext
    <2> QED BY <1>3, <2>1, <2>2, <2>3 DEF HandlerStep
<1>4. CASE TickStep
    BY <1>4 DEF TickStep, AdapterTick, HealthTick, HealthTickSeeing
<1>5. CASE UserStep
    <2>1. ASSUME NEW a \in Addr, ConnectAAP(a) PROVE UNCHANGED linkVars
        BY <2>1 DEF ConnectAAP
    <2>2. ASSUME NEW a \in Addr, DisconnectAAP(a) PROVE LinkNext
        <3>1. devices[a].inst \in Inst
            BY <2>2 DEF DisconnectAAP, ManagerTypeOK, Known, ManagedDevice
        <3> QED BY <2>2, <3>1, HandlesAreTasks DEF DisconnectAAP, StartDisconnect, LinkNext
    <2> QED BY <1>5, <2>1, <2>2 DEF UserStep
<1>6. CASE MonitorTaskStep
    BY <1>6 DEF MonitorTaskStep, MonitorReady, MonitorFails, MonitorEvent, MonitorEnds,
                MonitorStep
<1>7. CASE TimerStep
    BY <1>7 DEF TimerStep, RetryFires, PowerFires, RecoverFires, Fire
<1>8. CASE AapTaskStep
    BY <1>8 DEF AapTaskStep, TaskConnected, TaskDisconnected, LinkNext
<1>9. CASE BluezStep
    BY <1>9 DEF BluezStep, AdapterGone, AdapterBack, HeadsetUp, HeadsetDown
<1> QED BY <1>1, <1>2, <1>3, <1>4, <1>5, <1>6, <1>7, <1>8, <1>9 DEF Next

-----------------------------------------------------------------------------
(* Types of the manager's state. *)

(* Messages sent after one is taken are messages.                            *)
LEMMA ReceiveType ==
    ASSUME ManagerTypeOK, loopback # <<>>, NEW out \in Seq(Command), Receive(out)
    PROVE  loopback' \in Seq(Command)
BY DEF ManagerTypeOK, Receive

(* A message that is sent is a message.                                      *)
LEMMA SendType ==
    ASSUME ManagerTypeOK, NEW msg \in Command, loopback' = Append(loopback, msg)
    PROVE  loopback' \in Seq(Command)
BY DEF ManagerTypeOK

(* The two forms of a command, with their parameters.                        *)
LEMMA CommandForms ==
    /\ \A cmd \in {"AdapterAvailable", "AdapterLost", "AdapterError"}, n \in Adapter :
          [cmd |-> cmd, adapter |-> n] \in Command
    /\ \A a \in Addr, n \in Adapter :
          [cmd |-> "DeviceDiscovered", addr |-> a, adapter |-> n] \in Command
    /\ \A cmd \in {"BluetoothConnected", "BluetoothDisconnected", "AAPConnected",
                   "AAPDisconnected", "DeviceLost", "EstablishAAP"}, a \in Addr :
          [cmd |-> cmd, addr |-> a] \in Command
BY DEF Command

(* Starting a monitor keeps the monitor tasks well formed.                   *)
LEMMA StartMonitorType ==
    ASSUME ManagerTypeOK, NEW m \in Mon, NEW n \in Adapter, StartMonitor(m, n)
    PROVE  monitors' \in [Mon -> MonitorTask]
BY DEF ManagerTypeOK, StartMonitor, MonitorTask, FreeMonitor

(* Updated entries are entries.                                              *)
LEMMA AdapterInfoUpdates ==
    /\ \A r \in AdapterInfo : /\ [r EXCEPT !.state = "Active"] \in AdapterInfo
                              /\ [r EXCEPT !.state = "Failed"] \in AdapterInfo
    /\ \A m \in Mon : [state |-> "Active", monitor |-> m] \in AdapterInfo
    /\ [state |-> "Lost", monitor |-> None] \in AdapterInfo
BY DEF AdapterInfo

(* What a monitor's phase changes do to its record.                         *)
LEMMA MonitorUpdates ==
    /\ FreeMonitor \in MonitorTask
    /\ \A r \in MonitorTask, phase \in {"listening", "ending", "done"} :
          r.phase # "none" => /\ r.adapter \in Adapter
                              /\ [r EXCEPT !.phase = phase] \in MonitorTask
BY DEF MonitorTask, FreeMonitor

(* What the handlers do to a ManagedDevice leaves it one.                   *)
LEMMA DeviceUpdates ==
    /\ None \notin ManagedDevice
    /\ \A d \in ManagedDevice :
          /\ [d EXCEPT !.aap = "Failed", !.handle = None] \in ManagedDevice
          /\ [d EXCEPT !.aap = "Disconnected", !.handle = None] \in ManagedDevice
          /\ [d EXCEPT !.bt = "Disconnected", !.aap = "Disconnected", !.handle = None]
                \in ManagedDevice
          /\ [d EXCEPT !.bt = "Connected"] \in ManagedDevice
          /\ \A p \in {"Connected", "WaitingToReconnect", "Disconnected"} :
                [d EXCEPT !.aap = p] \in ManagedDevice
          /\ \A t \in Task : [d EXCEPT !.handle = t, !.aap = "Connecting"] \in ManagedDevice
<1>1. None \notin ManagedDevice
    BY NoRecordAssumption
<1>2. ASSUME NEW d \in ManagedDevice
      PROVE  /\ [d EXCEPT !.aap = "Failed", !.handle = None] \in ManagedDevice
             /\ [d EXCEPT !.aap = "Disconnected", !.handle = None] \in ManagedDevice
             /\ [d EXCEPT !.bt = "Disconnected", !.aap = "Disconnected", !.handle = None]
                   \in ManagedDevice
             /\ [d EXCEPT !.bt = "Connected"] \in ManagedDevice
             /\ \A p \in {"Connected", "WaitingToReconnect", "Disconnected"} :
                   [d EXCEPT !.aap = p] \in ManagedDevice
             /\ \A t \in Task : [d EXCEPT !.handle = t, !.aap = "Connecting"] \in ManagedDevice
    BY <1>2 DEF ManagedDevice
<1> QED BY <1>1, <1>2

(* Starting a timer and waking one stay within the bound.                   *)
LEMMA TimerUpdates ==
    ASSUME ManagerTypeOK, NEW tm \in Timer
    PROVE  /\ StartTimer(tm) => timers' \in [Timer -> 0..MaxTimers]
           /\ timers[tm] > 0 => [timers EXCEPT ![tm] = @ - 1] \in [Timer -> 0..MaxTimers]
<1>1. timers[tm] \in 0..MaxTimers /\ MaxTimers \in Nat
    BY BoundsAssumption DEF ManagerTypeOK
<1>2. StartTimer(tm) => timers[tm] + 1 \in 0..MaxTimers
    BY <1>1 DEF StartTimer
<1>3. timers[tm] > 0 => timers[tm] - 1 \in 0..MaxTimers
    BY <1>1
<1> QED BY <1>2, <1>3 DEF StartTimer, ManagerTypeOK

(* Handlers of adapter commands keep the types.                              *)
LEMMA AdapterTypes ==
    ASSUME ManagerTypeOK, NEW n \in Adapter,
           AdapterAvailable(n) \/ AdapterLost(n) \/ AdapterError(n) \/ InitializeAdapter(n)
    PROVE  ManagerTypeOK'
<1> USE DEF ManagerTypeOK
<1>e. <<>> \in Seq(Command)
    OBVIOUS
<1>1. CASE AdapterAvailable(n)
    <2>1. loopback' \in Seq(Command)
        BY <1>1, <1>e, ReceiveType, CheckType DEF AdapterAvailable, Handling
    <2>2. adapters' \in [Adapter -> AdapterInfo] /\ monitors' \in [Mon -> MonitorTask]
        <3>1. CASE UNCHANGED <<adapters, monitors>>
            BY <3>1
        <3>2. CASE adapters' = [adapters EXCEPT ![n].state = "Active"] /\ UNCHANGED monitors
            BY <3>2, AdapterInfoUpdates
        <3>3. ASSUME NEW m \in Mon, StartMonitor(m, n),
                     adapters' = [adapters EXCEPT ![n] = [state |-> "Active", monitor |-> m]]
              PROVE  adapters' \in [Adapter -> AdapterInfo] /\ monitors' \in [Mon -> MonitorTask]
            BY <3>3, StartMonitorType, AdapterInfoUpdates
        <3> QED BY <1>1, <3>1, <3>2, <3>3 DEF AdapterAvailable
    <2>3. todo' \subseteq Work
        BY <1>1 DEF AdapterAvailable, Work, Establishing, ToReconnect
    <2> QED BY <1>1, <2>1, <2>2, <2>3 DEF AdapterAvailable, bluezVars
<1>2. CASE AdapterLost(n)
    <2>1. loopback' \in Seq(Command)
        BY <1>2, <1>e, ReceiveType DEF AdapterLost, Handling
    <2>2. CASE ~KnownAdapter(n)
        BY <1>2, <2>1, <2>2 DEF AdapterLost, bluezVars
    <2>3. CASE KnownAdapter(n)
        <3> DEFINE lost == {a \in Addr : Known(a) /\ devices[a].adapter = n}
        <3>1. adapters' \in [Adapter -> AdapterInfo]
            BY <1>2, <2>3, AdapterInfoUpdates DEF AdapterLost
        <3>2. monitors' \in [Mon -> MonitorTask]
            BY <1>2, <2>3, MonitorUpdates DEF AdapterLost
        <3>3. ASSUME NEW a \in lost
              PROVE  [devices[a] EXCEPT !.aap = "Failed", !.handle = None] \in ManagedDevice
            BY DeviceUpdates DEF Known
        <3>4. devices' = [a \in Addr |->
                  IF a \in lost THEN [devices[a] EXCEPT !.aap = "Failed", !.handle = None]
                               ELSE devices[a]]
            BY <1>2, <2>3, Zenon DEF AdapterLost
        <3>5. devices' \in [Addr -> ManagedDevice \cup {None}]
            BY <3>3, <3>4, Zenon
        <3>6. timers' \in [Timer -> 0..MaxTimers]
            <4>1. [kind |-> "recover", on |-> n] \in Timer
                BY DEF Timer
            <4> QED BY <1>2, <2>3, <4>1, TimerUpdates DEF AdapterLost
        <3> QED BY <1>2, <2>1, <3>1, <3>2, <3>5, <3>6 DEF AdapterLost, bluezVars
    <2> QED BY <2>2, <2>3
<1>3. CASE AdapterError(n)
    <2>1. loopback' \in Seq(Command)
        BY <1>3, <1>e, ReceiveType DEF AdapterError, Handling
    <2>2. adapters' \in [Adapter -> AdapterInfo]
        BY <1>3, AdapterInfoUpdates DEF AdapterError
    <2> QED BY <1>3, <2>1, <2>2 DEF AdapterError, bluezVars
<1>4. CASE InitializeAdapter(n)
    <2>1. loopback' \in Seq(Command)
        <3>1. ASSUME NEW found \in CheckConnected(n), loopback' = loopback \o found
              PROVE  loopback' \in Seq(Command)
            BY <3>1, CheckType
        <3> QED BY <1>4, <3>1 DEF InitializeAdapter
    <2>2. adapters' \in [Adapter -> AdapterInfo]
        BY <1>4, AdapterInfoUpdates DEF InitializeAdapter
    <2>3. monitors' \in [Mon -> MonitorTask]
        BY <1>4, StartMonitorType DEF InitializeAdapter
    <2>4. timers' \in [Timer -> 0..MaxTimers]
        <3>1. [kind |-> "power", on |-> n] \in Timer
            BY DEF Timer
        <3> QED BY <1>4, <3>1, TimerUpdates DEF InitializeAdapter
    <2> QED BY <1>4, <2>1, <2>2, <2>3, <2>4 DEF InitializeAdapter, bluezVars
<1> QED BY <1>1, <1>2, <1>3, <1>4

(* The map's entry of a managed device is a ManagedDevice.                   *)
LEMMA KnownDevice ==
    ASSUME ManagerTypeOK, NEW a \in Addr, Known(a)
    PROVE  devices[a] \in ManagedDevice
BY DEF ManagerTypeOK, Known

(* Handlers of device commands keep the types.                               *)
LEMMA DeviceTypes ==
    ASSUME ManagerTypeOK, NEW a \in Addr,
           \/ \E n \in Adapter : DeviceDiscovered(a, n)
           \/ BluetoothConnected(a) \/ BluetoothDisconnected(a) \/ DeviceLost(a)
           \/ DisconnectAAP(a) \/ FinishDisconnect
    PROVE  ManagerTypeOK'
<1> USE DEF ManagerTypeOK
<1>e. <<>> \in Seq(Command)
    OBVIOUS
<1>t. Establishing({a}) \subseteq Work
    BY DEF Establishing, Work
<1>1. ASSUME NEW n \in Adapter, DeviceDiscovered(a, n) PROVE ManagerTypeOK'
    <2>1. loopback' \in Seq(Command)
        BY <1>1, <1>e, ReceiveType DEF DeviceDiscovered, Handling
    <2>2. ASSUME NEW i \in Inst, Discover(a, n, i)
          PROVE  devices' \in [Addr -> ManagedDevice \cup {None}] /\ todo' \subseteq Work
        <3>1. [inst |-> i, bt |-> "Connected", aap |-> "Disconnected", adapter |-> n,
               handle |-> None] \in ManagedDevice
            BY DEF ManagedDevice
        <3> QED BY <2>2, <3>1, <1>t DEF Discover
    <2>3. devices' \in [Addr -> ManagedDevice \cup {None}] /\ todo' \subseteq Work
        BY <1>1, <2>2 DEF DeviceDiscovered
    <2> QED BY <1>1, <2>1, <2>3 DEF DeviceDiscovered, bluezVars
<1>2. CASE BluetoothConnected(a)
    <2>1. loopback' \in Seq(Command)
        <3>1. ASSUME NEW n \in Adapter,
                     Receive(<<[cmd |-> "DeviceDiscovered", addr |-> a, adapter |-> n]>>)
              PROVE  loopback' \in Seq(Command)
            <4>1. [cmd |-> "DeviceDiscovered", addr |-> a, adapter |-> n] \in Command
                BY CommandForms
            <4>2. <<[cmd |-> "DeviceDiscovered", addr |-> a, adapter |-> n]>> \in Seq(Command)
                BY <4>1
            <4> QED BY <1>2, <3>1, <4>2, ReceiveType DEF BluetoothConnected, Handling
        <3>2. CASE Receive(<<>>)
            BY <1>2, <3>2, <1>e, ReceiveType DEF BluetoothConnected, Handling
        <3> QED BY <1>2, <3>1, <3>2 DEF BluetoothConnected
    <2>2. devices' \in [Addr -> ManagedDevice \cup {None}] /\ todo' \subseteq Work
        <3>1. CASE Known(a) /\ devices' = [devices EXCEPT ![a].bt = "Connected"]
                   /\ todo' = Establishing({a})
            <4>1. [devices[a] EXCEPT !.bt = "Connected"] \in ManagedDevice
                BY <3>1, KnownDevice, DeviceUpdates
            <4>2. devices' = [devices EXCEPT ![a] = [devices[a] EXCEPT !.bt = "Connected"]]
                BY <3>1, Zenon
            <4> QED BY <3>1, <4>1, <4>2, <1>t
        <3> QED BY <1>2, <3>1 DEF BluetoothConnected
    <2> QED BY <1>2, <2>1, <2>2 DEF BluetoothConnected, bluezVars
<1>3. ASSUME NEW dev \in ManagedDevice \cup {None}, Known(a),
             NEW cmd \in {"BluetoothDisconnected", "DisconnectAAP", "DeviceLost"},
             StartDisconnect(cmd, a, dev)
      PROVE  devices' \in [Addr -> ManagedDevice \cup {None}] /\ ending' \in Ending \cup {None}
    <2>1. devices[a].inst \in Inst
        BY <1>3, KnownDevice DEF ManagedDevice
    <2>2. [cmd |-> cmd, addr |-> a, inst |-> devices[a].inst] \in Ending
        BY <2>1 DEF Ending
    <2> QED BY <1>3, <2>2 DEF StartDisconnect
<1>4. CASE BluetoothDisconnected(a)
    <2>1. loopback' \in Seq(Command) /\ connecting' \subseteq Addr
        BY <1>4, <1>e, ReceiveType DEF BluetoothDisconnected, Handling
    <2>2. devices' \in [Addr -> ManagedDevice \cup {None}] /\ ending' \in Ending \cup {None}
        <3>1. CASE Known(a)
            <4> DEFINE dev == [devices[a] EXCEPT !.bt = "Disconnected", !.aap = "Disconnected",
                                                 !.handle = None]
            <4>1. dev \in ManagedDevice
                BY <3>1, KnownDevice, DeviceUpdates
            <4>2. StartDisconnect("BluetoothDisconnected", a, dev)
                BY <1>4, <3>1 DEF BluetoothDisconnected
            <4> HIDE DEF dev
            <4> QED BY <1>3, <3>1, <4>1, <4>2
        <3>2. CASE ~Known(a)
            BY <1>4, <3>2 DEF BluetoothDisconnected
        <3> QED BY <3>1, <3>2
    <2> QED BY <1>4, <2>1, <2>2 DEF BluetoothDisconnected, bluezVars
<1>5. CASE DeviceLost(a)
    <2>1. loopback' \in Seq(Command) /\ connecting' \subseteq Addr
        BY <1>5, <1>e, ReceiveType DEF DeviceLost, Handling
    <2>2. devices' \in [Addr -> ManagedDevice \cup {None}] /\ ending' \in Ending \cup {None}
        BY <1>3, <1>5 DEF DeviceLost
    <2> QED BY <1>5, <2>1, <2>2 DEF DeviceLost, bluezVars
<1>6. CASE DisconnectAAP(a)
    <2> DEFINE dev == [devices[a] EXCEPT !.aap = "Disconnected", !.handle = None]
    <2>1. dev \in ManagedDevice
        BY <1>6, KnownDevice, DeviceUpdates DEF DisconnectAAP
    <2>2. Known(a) /\ StartDisconnect("DisconnectAAP", a, dev)
        BY <1>6 DEF DisconnectAAP
    <2>3. devices' \in [Addr -> ManagedDevice \cup {None}] /\ ending' \in Ending \cup {None}
        <3> HIDE DEF dev
        <3> QED BY <1>3, <2>1, <2>2
    <2> QED BY <1>6, <2>3 DEF DisconnectAAP, bluezVars
<1>7. CASE FinishDisconnect
    BY <1>7 DEF FinishDisconnect, bluezVars
<1> QED BY <1>1, <1>2, <1>4, <1>5, <1>6, <1>7

(* Handlers and reports of AAP connections keep the types.                   *)
LEMMA AapTypes ==
    ASSUME ManagerTypeOK, NEW a \in Addr,
           \/ RetryAAP(a) \/ ConnectAAP(a) \/ EstablishAapConnection(a)
           \/ AAPConnected(a) \/ AAPDisconnected(a)
    PROVE  ManagerTypeOK'
<1> USE DEF ManagerTypeOK
<1>e. <<>> \in Seq(Command)
    OBVIOUS
<1>t. Establishing({a}) \subseteq Work
    BY DEF Establishing, Work
<1>1. CASE RetryAAP(a)
    <2>1. loopback' \in Seq(Command)
        BY <1>1, <1>e, ReceiveType DEF RetryAAP, Handling
    <2> QED BY <1>1, <2>1, <1>t DEF RetryAAP, bluezVars
<1>2. CASE ConnectAAP(a)
    BY <1>2, <1>t DEF ConnectAAP, bluezVars
<1>3. CASE EstablishAapConnection(a)
    <2>1. ASSUME NEW t \in Task, SpawnTask(a, t)
          PROVE  devices' \in [Addr -> ManagedDevice \cup {None}] /\ connecting' \subseteq Addr
        <3>1. [devices[a] EXCEPT !.handle = t, !.aap = "Connecting"] \in ManagedDevice
            BY <2>1, KnownDevice, DeviceUpdates DEF SpawnTask, MayEstablish
        <3>2. devices' = [devices EXCEPT ![a] = [devices[a] EXCEPT !.handle = t, !.aap = "Connecting"]]
            BY <2>1, Zenon DEF SpawnTask
        <3> QED BY <2>1, <3>1, <3>2 DEF SpawnTask
    <2>2. CASE Reject(a)
        BY <1>3, <2>2 DEF EstablishAapConnection, Reject, bluezVars
    <2>3. CASE \E t \in Task : SpawnTask(a, t)
        BY <1>3, <2>1, <2>3 DEF EstablishAapConnection, bluezVars
    <2> QED BY <1>3, <2>2, <2>3 DEF EstablishAapConnection
<1>4. ASSUME NEW p \in {"Connected", "WaitingToReconnect", "Disconnected"}, Known(a),
             devices' = [devices EXCEPT ![a].aap = p]
      PROVE  devices' \in [Addr -> ManagedDevice \cup {None}]
    <2>1. [devices[a] EXCEPT !.aap = p] \in ManagedDevice
        BY <1>4, KnownDevice, DeviceUpdates
    <2>2. devices' = [devices EXCEPT ![a] = [devices[a] EXCEPT !.aap = p]]
        BY <1>4, Zenon
    <2> QED BY <2>1, <2>2
<1>5. CASE AAPConnected(a)
    <2>1. loopback' \in Seq(Command) /\ connecting' \subseteq Addr
        BY <1>5, <1>e, ReceiveType DEF AAPConnected, Handling
    <2>2. devices' \in [Addr -> ManagedDevice \cup {None}]
        BY <1>4, <1>5 DEF AAPConnected
    <2> QED BY <1>5, <2>1, <2>2 DEF AAPConnected, bluezVars
<1>6. CASE AAPDisconnected(a)
    <2>1. loopback' \in Seq(Command) /\ connecting' \subseteq Addr
        BY <1>6, <1>e, ReceiveType DEF AAPDisconnected, Handling
    <2>2. devices' \in [Addr -> ManagedDevice \cup {None}]
        BY <1>4, <1>6 DEF AAPDisconnected
    <2>3. timers' \in [Timer -> 0..MaxTimers]
        <3>1. [kind |-> "retry", on |-> a] \in Timer
            BY DEF Timer
        <3> QED BY <1>6, <3>1, TimerUpdates DEF AAPDisconnected
    <2> QED BY <1>6, <2>1, <2>2, <2>3 DEF AAPDisconnected, bluezVars
<1> QED BY <1>1, <1>2, <1>3, <1>5, <1>6

(* A task reports for the address of its object.                             *)
LEMMA ReportAddr ==
    ASSUME LinkInv, NEW t \in Task, attempt[t] # "idle"
    PROVE  AddrOf[target[t]] \in Addr
BY AddrOfAssumption DEF LinkInv, TasksSound

(* The monitor tasks keep the types.                                         *)
LEMMA MonitorTypes ==
    ASSUME ManagerTypeOK, NEW m \in Mon,
           \/ MonitorReady(m) \/ MonitorFails(m) \/ MonitorEnds(m)
           \/ \E a \in Addr : MonitorEvent(m, a)
    PROVE  ManagerTypeOK'
<1> USE DEF ManagerTypeOK
<1>1. ASSUME NEW msg \in Command, Send(msg) PROVE loopback' \in Seq(Command)
    BY <1>1, SendType DEF Send
<1>2. monitors[m].phase # "none" /\ monitors[m] \in MonitorTask
    BY DEF MonitorReady, MonitorFails, MonitorEvent, MonitorEnds
<1>3. monitors[m].adapter \in Adapter
    BY <1>2, MonitorUpdates
<1>4. ASSUME NEW phase \in {"listening", "done"}, MonitorStep(m, phase)
      PROVE  monitors' \in [Mon -> MonitorTask]
    <2>1. Finished(m) \in MonitorTask /\ [monitors[m] EXCEPT !.phase = phase] \in MonitorTask
        BY <1>2, MonitorUpdates DEF Finished
    <2>2. CASE phase = "done"
        BY <1>4, <2>1, <2>2 DEF MonitorStep
    <2>3. CASE phase = "listening"
        <3>1. monitors' = [monitors EXCEPT ![m] = [monitors[m] EXCEPT !.phase = phase]]
            BY <1>4, <2>3 DEF MonitorStep
        <3> QED BY <2>1, <3>1
    <2> QED BY <2>2, <2>3
<1>5. CASE MonitorReady(m)
    BY <1>4, <1>5 DEF MonitorReady, MonitorStep, bluezVars
<1>6. CASE MonitorFails(m)
    <2>1. loopback' \in Seq(Command)
        BY <1>1, <1>3, <1>6, CommandForms DEF MonitorFails
    <2> QED BY <1>4, <1>6, <2>1 DEF MonitorFails, MonitorStep, bluezVars
<1>7. ASSUME NEW a \in Addr, MonitorEvent(m, a) PROVE ManagerTypeOK'
    <2>1. loopback' \in Seq(Command)
        BY <1>1, <1>3, <1>7, CommandForms DEF MonitorEvent
    <2> QED BY <1>4, <1>7, <2>1 DEF MonitorEvent, MonitorStep, bluezVars
<1>8. CASE MonitorEnds(m)
    <2>1. loopback' \in Seq(Command)
        BY <1>1, <1>3, <1>8, CommandForms DEF MonitorEnds
    <2> QED BY <1>4, <1>8, <2>1 DEF MonitorEnds, MonitorStep, bluezVars
<1> QED BY <1>5, <1>6, <1>7, <1>8

(* A sleeping task keeps the types.                                          *)
LEMMA TimerTypes ==
    ASSUME ManagerTypeOK, TimerStep
    PROVE  ManagerTypeOK'
<1>1. ASSUME NEW tm \in Timer, NEW msg \in Command, Fire(tm, msg) PROVE ManagerTypeOK'
    <2>1. timers' \in [Timer -> 0..MaxTimers]
        BY <1>1, TimerUpdates DEF Fire
    <2>2. loopback' \in Seq(Command)
        BY <1>1, SendType DEF Fire
    <2> QED BY <1>1, <2>1, <2>2 DEF Fire, ManagerTypeOK, bluezVars
<1>2. ASSUME NEW a \in Addr PROVE [kind |-> "retry", on |-> a] \in Timer
    BY DEF Timer
<1>3. ASSUME NEW n \in Adapter
      PROVE  [kind |-> "power", on |-> n] \in Timer /\ [kind |-> "recover", on |-> n] \in Timer
    BY DEF Timer
<1> QED BY <1>1, <1>2, <1>3, CommandForms DEF TimerStep, RetryFires, PowerFires, RecoverFires

(* Ticks, tasks and BlueZ keep the types.                                    *)
LEMMA OtherTypes ==
    ASSUME LinkInv, ManagerTypeOK, TickStep \/ AapTaskStep \/ BluezStep
    PROVE  ManagerTypeOK'
<1> USE DEF ManagerTypeOK
<1>1. CASE AdapterTick
    <2>1. todo' \subseteq Work
        BY <1>1 DEF AdapterTick, Work
    <2> QED BY <1>1, <2>1 DEF AdapterTick, bluezVars
<1>2. CASE HealthTick
    <2>0. PICK up \in SUBSET Addr, seen \in SUBSET {a \in Addr : btOn[a] # None} :
              \E s1 \in SetToSeqs(HealthMessages(up)), s2 \in SetToSeqs(ScanMessages(seen)) :
                  loopback' = loopback \o s1 \o s2
        BY <1>2 DEF HealthTick, HealthTickSeeing, BtConnected, BtPresent
    <2>1. PICK s1 \in SetToSeqs(HealthMessages(up)), s2 \in SetToSeqs(ScanMessages(seen)) :
              loopback' = loopback \o s1 \o s2
        BY <2>0
    <2>2. s1 \in Seq(Command) /\ s2 \in Seq(Command)
        BY HealthType, ScanType
    <2>3. loopback' \in Seq(Command)
        BY <2>1, <2>2
    <2> QED BY <1>2, <2>3 DEF HealthTick, HealthTickSeeing, bluezVars
<1>3. ASSUME NEW t \in Task, TaskConnected(t) \/ TaskDisconnected(t) PROVE ManagerTypeOK'
    <2>1. attempt[t] # "idle"
        BY <1>3 DEF TaskConnected, TaskDisconnected, ReportUp, ReportDown
    <2>2. AddrOf[target[t]] \in Addr
        BY <2>1, ReportAddr
    <2>3. loopback' \in Seq(Command)
        BY <1>3, <2>2, CommandForms, SendType DEF TaskConnected, TaskDisconnected, Send
    <2> QED BY <1>3, <2>3 DEF TaskConnected, TaskDisconnected, bluezVars
<1>4. CASE UNCHANGED <<managerVars, bluezVars>>
    BY <1>4 DEF managerVars, bluezVars
<1>5. ASSUME NEW n \in Adapter, AdapterGone(n) PROVE ManagerTypeOK'
    <2>1. ASSUME NEW m \in Mon, monitors[m].phase = "listening"
          PROVE  [monitors[m] EXCEPT !.phase = "ending"] \in MonitorTask
        BY <2>1, MonitorUpdates
    <2>2. monitors' = [m \in Mon |->
              IF monitors[m].adapter = n /\ monitors[m].phase = "listening"
              THEN [monitors[m] EXCEPT !.phase = "ending"] ELSE monitors[m]]
        BY <1>5, Zenon DEF AdapterGone
    <2>3. monitors' \in [Mon -> MonitorTask]
        BY <2>1, <2>2, Zenon
    <2> QED BY <1>5, <2>3 DEF AdapterGone
<1>6. ASSUME NEW n \in Adapter, AdapterBack(n) PROVE ManagerTypeOK'
    BY <1>6 DEF AdapterBack, managerVars
<1>7. ASSUME NEW n \in Adapter, NEW a \in Addr, HeadsetUp(a, n) \/ HeadsetDown(a)
      PROVE  ManagerTypeOK'
    BY <1>7 DEF HeadsetUp, HeadsetDown, managerVars
<1>8. CASE BluezStep
    <2>1. ASSUME NEW a \in Addr, HeadsetDown(a) PROVE ManagerTypeOK'
        BY <2>1 DEF HeadsetDown, managerVars
    <2> QED BY <1>5, <1>6, <1>7, <1>8, <2>1 DEF BluezStep
<1> QED BY <1>1, <1>2, <1>3, <1>4, <1>8 DEF TickStep, AapTaskStep

(* Every step keeps the types.                                               *)
LEMMA TypeStep == LinkInv /\ ManagerTypeOK /\ [Next]_vars => ManagerTypeOK'
<1> SUFFICES ASSUME LinkInv, ManagerTypeOK, [Next]_vars PROVE ManagerTypeOK'
    OBVIOUS
<1>1. CASE UNCHANGED vars
    BY <1>1 DEF vars, managerVars, bluezVars, ManagerTypeOK
<1>2. CASE CommandStep
    BY <1>2, AdapterTypes, DeviceTypes, AapTypes DEF CommandStep
<1>3. CASE HandlerStep
    <2>1. CASE FinishDisconnect
        BY <2>1 DEF FinishDisconnect, bluezVars, ManagerTypeOK
    <2> QED BY <1>3, <2>1, AdapterTypes, AapTypes DEF HandlerStep
<1>4. CASE UserStep
    BY <1>4, DeviceTypes, AapTypes DEF UserStep
<1>5. CASE MonitorTaskStep
    BY <1>5, MonitorTypes DEF MonitorTaskStep
<1> QED BY <1>1, <1>2, <1>3, <1>4, <1>5, TimerTypes, OtherTypes DEF Next

-----------------------------------------------------------------------------
(* Messages that stay in the channel. *)

Sent(ms) == \E k \in DOMAIN loopback : loopback[k] \in ms
Reports(a) ==
    {m \in Command : m.cmd \in {"AAPConnected", "AAPDisconnected"} /\ m.addr = a}
Outcomes(n) ==
    {m \in Command : m.cmd \in {"AdapterAvailable", "AdapterError"} /\ m.adapter = n}

(* A message stays where it is when more are appended.                       *)
LEMMA AppendKeeps ==
    ASSUME NEW q \in Seq(Command), NEW out \in Seq(Command), NEW k \in DOMAIN q
    PROVE  k \in DOMAIN (q \o out) /\ (q \o out)[k] = q[k]
OBVIOUS

(* ... and one place closer when the first is taken.                         *)
LEMMA TailKeeps ==
    ASSUME NEW q \in Seq(Command), NEW k \in DOMAIN q, k # 1
    PROVE  k - 1 \in DOMAIN Tail(q) /\ Tail(q)[k - 1] = q[k]
OBVIOUS

(* Sending keeps every message in the channel.                               *)
LEMMA SentAfterSend ==
    ASSUME ManagerTypeOK, NEW out \in Seq(Command), loopback' = loopback \o out, NEW ms, Sent(ms)
    PROVE  Sent(ms)'
BY AppendKeeps DEF Sent, ManagerTypeOK

(* A sent message stays in the channel when another is appended to it.      *)
LEMMA SentAfterAppend ==
    ASSUME ManagerTypeOK, NEW msg \in Command, loopback' = Append(loopback, msg), NEW ms
    PROVE  /\ Sent(ms) => Sent(ms)'
           /\ msg \in ms => Sent(ms)'
<1>1. loopback' = loopback \o <<msg>> /\ <<msg>> \in Seq(Command)
    BY DEF ManagerTypeOK
<1>2. Sent(ms) => Sent(ms)'
    BY <1>1, SentAfterSend
<1>3. Len(loopback) + 1 \in DOMAIN loopback' /\ loopback'[Len(loopback) + 1] = msg
    BY DEF ManagerTypeOK
<1> QED BY <1>2, <1>3 DEF Sent

(* Handling a message keeps every other one.                                 *)
LEMMA SentAfterReceive ==
    ASSUME ManagerTypeOK, NEW out \in Seq(Command), loopback # <<>>, Receive(out),
           NEW ms, Head(loopback) \notin ms, Sent(ms)
    PROVE  Sent(ms)'
<1>1. PICK k \in DOMAIN loopback : loopback[k] \in ms
    BY DEF Sent
<1>2. k # 1 /\ loopback \in Seq(Command) /\ Tail(loopback) \in Seq(Command)
    BY <1>1 DEF ManagerTypeOK
<1>3. k - 1 \in DOMAIN Tail(loopback) /\ Tail(loopback)[k - 1] = loopback[k]
    BY <1>1, <1>2, TailKeeps
<1>4. loopback' = Tail(loopback) \o out
    BY DEF Receive
<1>5. k - 1 \in DOMAIN loopback' /\ loopback'[k - 1] \in ms
    BY <1>1, <1>2, <1>3, <1>4, AppendKeeps
<1> QED BY <1>5 DEF Sent

(* The two facts about the channel that properties state.                    *)
LEMMA SentMeaning ==
    ASSUME ManagerTypeOK
    PROVE  /\ \A a \in Addr : Reporting(a) <=> Sent(Reports(a))
           /\ \A n \in Adapter : Sent(Outcomes(n)) <=>
                \E k \in DOMAIN loopback :
                    /\ loopback[k].cmd \in {"AdapterAvailable", "AdapterError"}
                    /\ loopback[k].adapter = n
<1>1. \A k \in DOMAIN loopback : loopback[k] \in Command
    BY DEF ManagerTypeOK
<1> QED BY <1>1 DEF Reporting, Sent, Reports, Outcomes

(* Every step sends, or takes one message and sends.                         *)
LEMMA ChannelStep ==
    ASSUME LinkInv, ManagerTypeOK, Next
    PROVE  \/ \E out \in Seq(Command) : loopback' = loopback \o out
           \/ /\ CommandStep /\ loopback # <<>>
              /\ \E out \in Seq(Command) : Receive(out)
<1>e. <<>> \in Seq(Command) /\ loopback \o <<>> = loopback
    BY DEF ManagerTypeOK
<1>1. CASE CommandStep
    <2>1. ASSUME NEW n \in Adapter, AdapterAvailable(n)
          PROVE  loopback # <<>> /\ \E out \in Seq(Command) : Receive(out)
        BY <1>e, <2>1, CheckType DEF AdapterAvailable, Handling
    <2>2. ASSUME NEW n \in Adapter, AdapterLost(n) \/ AdapterError(n)
          PROVE  loopback # <<>> /\ \E out \in Seq(Command) : Receive(out)
        BY <1>e, <2>2 DEF AdapterLost, AdapterError, Handling
    <2>3. ASSUME NEW a \in Addr, NEW n \in Adapter, DeviceDiscovered(a, n)
          PROVE  loopback # <<>> /\ \E out \in Seq(Command) : Receive(out)
        BY <1>e, <2>3 DEF DeviceDiscovered, Handling
    <2>4. ASSUME NEW a \in Addr, BluetoothConnected(a)
          PROVE  loopback # <<>> /\ \E out \in Seq(Command) : Receive(out)
        <3>1. ASSUME NEW n \in Adapter
              PROVE  <<[cmd |-> "DeviceDiscovered", addr |-> a, adapter |-> n]>> \in Seq(Command)
            <4>1. [cmd |-> "DeviceDiscovered", addr |-> a, adapter |-> n] \in Command
                BY CommandForms
            <4> QED BY <4>1
        <3> QED BY <1>e, <2>4, <3>1 DEF BluetoothConnected, Handling
    <2>5. ASSUME NEW a \in Addr, \/ BluetoothDisconnected(a) \/ DeviceLost(a) \/ RetryAAP(a)
                                 \/ AAPConnected(a) \/ AAPDisconnected(a)
          PROVE  loopback # <<>> /\ \E out \in Seq(Command) : Receive(out)
        BY <1>e, <2>5 DEF BluetoothDisconnected, DeviceLost, RetryAAP, AAPConnected,
                          AAPDisconnected, Handling
    <2> QED BY <1>1, <2>1, <2>2, <2>3, <2>4, <2>5 DEF CommandStep
<1>2. CASE HandlerStep
    <2>1. ASSUME NEW n \in Adapter, InitializeAdapter(n)
          PROVE  \E out \in Seq(Command) : loopback' = loopback \o out
        BY <1>e, <2>1, CheckType DEF InitializeAdapter
    <2> QED BY <1>2, <1>e, <2>1 DEF HandlerStep, EstablishAapConnection, FinishDisconnect
<1>3. CASE HealthTick
    <2>0. PICK up \in SUBSET Addr, seen \in SUBSET {a \in Addr : btOn[a] # None} :
              \E s1 \in SetToSeqs(HealthMessages(up)), s2 \in SetToSeqs(ScanMessages(seen)) :
                  loopback' = loopback \o s1 \o s2
        BY <1>3 DEF HealthTick, HealthTickSeeing, BtConnected, BtPresent
    <2>1. PICK s1 \in SetToSeqs(HealthMessages(up)), s2 \in SetToSeqs(ScanMessages(seen)) :
              loopback' = loopback \o s1 \o s2
        BY <2>0
    <2>2. s1 \in Seq(Command) /\ s2 \in Seq(Command) /\ loopback \in Seq(Command)
        BY HealthType, ScanType DEF ManagerTypeOK
    <2>3. loopback' = loopback \o (s1 \o s2) /\ s1 \o s2 \in Seq(Command)
        BY <2>1, <2>2
    <2> QED BY <2>3
<1>4. ASSUME UNCHANGED loopback PROVE \E out \in Seq(Command) : loopback' = loopback \o out
    BY <1>e, <1>4
<1>5. ASSUME NEW msg \in Command, loopback' = Append(loopback, msg)
      PROVE  \E out \in Seq(Command) : loopback' = loopback \o out
    <2>1. <<msg>> \in Seq(Command) /\ loopback' = loopback \o <<msg>>
        BY <1>5 DEF ManagerTypeOK
    <2> QED BY <2>1
<1>6. CASE AdapterTick \/ UserStep \/ BluezStep
    BY <1>4, <1>6 DEF AdapterTick, UserStep, ConnectAAP, DisconnectAAP, BluezStep,
                      AdapterGone, AdapterBack, HeadsetUp, HeadsetDown, managerVars
<1>7. CASE MonitorTaskStep
    <2>1. ASSUME NEW m \in Mon, monitors[m].phase # "none" PROVE monitors[m].adapter \in Adapter
        BY <2>1, MonitorUpdates DEF ManagerTypeOK
    <2> QED BY <1>4, <1>5, <1>7, <2>1, CommandForms
            DEF MonitorTaskStep, MonitorReady, MonitorFails, MonitorEvent, MonitorEnds, Send
<1>8. CASE TimerStep
    BY <1>5, <1>8, CommandForms DEF TimerStep, RetryFires, PowerFires, RecoverFires, Fire
<1>9. CASE AapTaskStep
    <2>1. ASSUME NEW t \in Task, TaskConnected(t) \/ TaskDisconnected(t)
          PROVE  \E out \in Seq(Command) : loopback' = loopback \o out
        <3>1. AddrOf[target[t]] \in Addr
            BY <2>1, ReportAddr DEF TaskConnected, TaskDisconnected, ReportUp, ReportDown
        <3> QED BY <1>5, <2>1, <3>1, CommandForms DEF TaskConnected, TaskDisconnected, Send
    <2> QED BY <1>4, <1>9, <2>1 DEF AapTaskStep, managerVars
<1> QED BY <1>1, <1>2, <1>3, <1>6, <1>7, <1>8, <1>9 DEF Next, TickStep

-----------------------------------------------------------------------------
(* The recovery of a lost adapter. *)

(* Starting a timer stops no other.                                          *)
LEMMA StartKeeps ==
    ASSUME ManagerTypeOK, NEW u \in Timer, StartTimer(u)
    PROVE  /\ timers'[u] > 0
           /\ \A tm \in Timer : timers[tm] > 0 => timers'[tm] > 0
<1>1. timers \in [Timer -> 0..MaxTimers] /\ MaxTimers \in Nat
    BY BoundsAssumption DEF ManagerTypeOK
<1>2. timers' = [timers EXCEPT ![u] = timers[u] + 1]
    BY DEF StartTimer
<1>3. timers[u] + 1 > 0
    BY <1>1
<1>4. timers'[u] = timers[u] + 1 /\ \A tm \in Timer : tm # u => timers'[tm] = timers[tm]
    BY <1>1, <1>2
<1> QED BY <1>3, <1>4

(* A recovery is started with the loss, and ends only in a message that, when *)
(* it is handled, says what became of the adapter.                           *)
LEMMA RecoveryStep ==
    LinkInv /\ ManagerTypeOK /\ RecoveryPending /\ [Next]_vars => RecoveryPending'
<1> SUFFICES ASSUME LinkInv, ManagerTypeOK, RecoveryPending, [Next]_vars
             PROVE  RecoveryPending'
    OBVIOUS
<1>s. \A n \in Adapter : Sent(Outcomes(n))' =>
          \E k \in DOMAIN loopback' : /\ loopback'[k].cmd \in {"AdapterAvailable", "AdapterError"}
                                      /\ loopback'[k].adapter = n
    BY DEF Sent, Outcomes
<1> SUFFICES ASSUME NEW n \in Adapter, adapters'[n].state = "Lost"
             PROVE  timers'[[kind |-> "recover", on |-> n]] > 0 \/ Sent(Outcomes(n))'
    BY <1>s DEF RecoveryPending
<1> DEFINE tm == [kind |-> "recover", on |-> n]
<1>t. tm \in Timer /\ timers[tm] \in Nat
    BY BoundsAssumption DEF ManagerTypeOK, Timer
<1>p. adapters[n].state = "Lost" => timers[tm] > 0 \/ Sent(Outcomes(n))
    BY SentMeaning DEF RecoveryPending
<1>1. CASE UNCHANGED vars
    BY <1>1, <1>p DEF vars, managerVars, Sent
<1>2. ASSUME NEW l \in Adapter, AdapterLost(l) PROVE timers'[tm] > 0 \/ Sent(Outcomes(n))'
    <2>1. Head(loopback) \notin Outcomes(n) /\ loopback # <<>> /\ Receive(<<>>)
        BY <1>2 DEF AdapterLost, Handling, Outcomes
    <2>2. Sent(Outcomes(n)) => Sent(Outcomes(n))'
        <3>1. <<>> \in Seq(Command)
            OBVIOUS
        <3> QED BY <2>1, <3>1, SentAfterReceive
    <2>0. [kind |-> "recover", on |-> l] \in Timer
        BY DEF Timer
    <2>3. timers[tm] > 0 => timers'[tm] > 0
        BY <1>2, <1>t, <2>0, StartKeeps DEF AdapterLost
    <2>4. CASE KnownAdapter(l) /\ l = n
        BY <1>2, <2>0, <2>4, StartKeeps DEF AdapterLost
    <2>5. CASE ~(KnownAdapter(l) /\ l = n)
        <3>1. adapters'[n] = adapters[n]
            BY <1>2, <2>5 DEF AdapterLost, ManagerTypeOK
        <3> QED BY <1>p, <1>t, <2>2, <2>3, <3>1
    <2> QED BY <2>4, <2>5
<1>3. ASSUME NEW l \in Adapter, RecoverFires(l)
      PROVE  timers'[tm] > 0 \/ Sent(Outcomes(n))'
    <2>1. PICK cmd \in {"AdapterAvailable", "AdapterError"} :
              Fire([kind |-> "recover", on |-> l], [cmd |-> cmd, adapter |-> l])
        BY <1>3 DEF RecoverFires
    <2>2. [cmd |-> cmd, adapter |-> l] \in Command
        BY <2>1, CommandForms
    <2>3. Sent(Outcomes(n)) => Sent(Outcomes(n))'
        BY <2>1, <2>2, SentAfterAppend DEF Fire
    <2>4. CASE l = n
        <3>1. [cmd |-> cmd, adapter |-> l] \in Outcomes(n)
            BY <2>1, <2>2, <2>4 DEF Outcomes
        <3> QED BY <2>1, <2>2, <3>1, SentAfterAppend DEF Fire
    <2>5. CASE l # n
        <3>1. timers'[tm] = timers[tm] /\ UNCHANGED adapters
            BY <1>t, <2>1, <2>5 DEF Fire, ManagerTypeOK
        <3> QED BY <1>p, <2>3, <3>1
    <2> QED BY <2>4, <2>5
<1>4. ASSUME NEW l \in Adapter, AdapterAvailable(l) \/ AdapterError(l)
      PROVE  timers'[tm] > 0 \/ Sent(Outcomes(n))'
    <2>1. CASE l = n
        <3>1. adapters'[n].state # "Lost"
            BY <1>4, <2>1 DEF AdapterAvailable, AdapterError, KnownAdapter, ManagerTypeOK,
                              AdapterInfo
        <3> QED BY <3>1
    <2>2. CASE l # n
        <3>1. adapters'[n] = adapters[n] /\ UNCHANGED timers
            BY <1>4, <2>2 DEF AdapterAvailable, AdapterError, ManagerTypeOK
        <3>2. Head(loopback) \notin Outcomes(n) /\ loopback # <<>>
            BY <1>4, <2>2 DEF AdapterAvailable, AdapterError, Handling, Outcomes
        <3>3. \E out \in Seq(Command) : Receive(out)
            <4>1. <<>> \in Seq(Command)
                OBVIOUS
            <4> QED BY <1>4, <4>1, CheckType DEF AdapterAvailable, AdapterError
        <3>4. Sent(Outcomes(n)) => Sent(Outcomes(n))'
            BY <3>2, <3>3, SentAfterReceive
        <3> QED BY <1>p, <3>1, <3>4
    <2> QED BY <2>1, <2>2
<1>5. ASSUME NEW l \in Adapter, InitializeAdapter(l)
      PROVE  timers'[tm] > 0 \/ Sent(Outcomes(n))'
    <2>1. Sent(Outcomes(n)) => Sent(Outcomes(n))'
        BY <1>5, CheckType, SentAfterSend DEF InitializeAdapter, Sent
    <2>0. [kind |-> "power", on |-> l] \in Timer
        BY DEF Timer
    <2>2. timers[tm] > 0 => timers'[tm] > 0
        BY <1>5, <1>t, <2>0, StartKeeps DEF InitializeAdapter
    <2>3. adapters'[n].state = "Lost" => adapters[n].state = "Lost"
        BY <1>5 DEF InitializeAdapter, ManagerTypeOK
    <2> QED BY <1>p, <1>t, <2>1, <2>2, <2>3
<1>6. ASSUME UNCHANGED <<adapters, timers>>, Sent(Outcomes(n)) => Sent(Outcomes(n))'
      PROVE  timers'[tm] > 0 \/ Sent(Outcomes(n))'
    BY <1>p, <1>6
<1>7. ASSUME NEW out \in Seq(Command), loopback # <<>>, Receive(out),
             Head(loopback).cmd \notin {"AdapterAvailable", "AdapterError"}
      PROVE  Sent(Outcomes(n)) => Sent(Outcomes(n))'
    BY <1>7, SentAfterReceive DEF Outcomes
<1>8. ASSUME CommandStep, UNCHANGED <<adapters, timers>>,
             Head(loopback).cmd \notin {"AdapterAvailable", "AdapterError"}
      PROVE  timers'[tm] > 0 \/ Sent(Outcomes(n))'
    BY <1>6, <1>7, <1>8, ChannelStep, SentAfterSend DEF Next
<1>9. ASSUME NEW a \in Addr, \/ BluetoothConnected(a) \/ BluetoothDisconnected(a) \/ DeviceLost(a)
                             \/ RetryAAP(a) \/ AAPConnected(a)
                             \/ \E l \in Adapter : DeviceDiscovered(a, l)
      PROVE  timers'[tm] > 0 \/ Sent(Outcomes(n))'
    <2>1. CommandStep
        BY <1>9 DEF CommandStep
    <2> QED BY <1>8, <1>9, <2>1 DEF BluetoothConnected, BluetoothDisconnected, DeviceLost, RetryAAP,
               AAPConnected, DeviceDiscovered, Handling
<1>10. ASSUME NEW a \in Addr, AAPDisconnected(a)
       PROVE  timers'[tm] > 0 \/ Sent(Outcomes(n))'
    <2>1. [kind |-> "retry", on |-> a] \in Timer
        BY DEF Timer
    <2>2. timers[tm] > 0 => timers'[tm] > 0
        BY <1>10, <1>t, <2>1, StartKeeps DEF AAPDisconnected
    <2>3. <<>> \in Seq(Command) /\ loopback # <<>> /\ Receive(<<>>)
        BY <1>10 DEF AAPDisconnected, Handling
    <2>4. Sent(Outcomes(n)) => Sent(Outcomes(n))'
        BY <1>7, <1>10, <2>3 DEF AAPDisconnected, Handling
    <2> QED BY <1>p, <1>10, <2>2, <2>4 DEF AAPDisconnected
<1>11. CASE CommandStep
    BY <1>2, <1>4, <1>9, <1>10, <1>11 DEF CommandStep
<1>12. ASSUME Next, ~CommandStep PROVE Sent(Outcomes(n)) => Sent(Outcomes(n))'
    BY <1>12, ChannelStep, SentAfterSend
<1>13. ASSUME Next, ~CommandStep, UNCHANGED <<adapters, timers>>
       PROVE  timers'[tm] > 0 \/ Sent(Outcomes(n))'
    BY <1>6, <1>12, <1>13
<1>14. ASSUME Next, ~CommandStep, NEW u \in Timer, u.kind # "recover",
              NEW msg, Fire(u, msg)
       PROVE  timers'[tm] > 0 \/ Sent(Outcomes(n))'
    <2>1. timers'[tm] = timers[tm] /\ UNCHANGED adapters
        BY <1>t, <1>14 DEF Fire, ManagerTypeOK
    <2> QED BY <1>p, <1>12, <1>14, <2>1
<1>15. ASSUME Next, ~CommandStep PROVE timers'[tm] > 0 \/ Sent(Outcomes(n))'
    <2>1. CASE HandlerStep
        BY <1>5, <1>13, <1>15, <2>1 DEF HandlerStep, EstablishAapConnection, FinishDisconnect
    <2>2. CASE TimerStep
        <3>1. ASSUME NEW a \in Addr
              PROVE  [kind |-> "retry", on |-> a] \in Timer
            BY DEF Timer
        <3>2. ASSUME NEW l \in Adapter
              PROVE  [kind |-> "power", on |-> l] \in Timer
            BY DEF Timer
        <3>3. ASSUME NEW a \in Addr, RetryFires(a) PROVE timers'[tm] > 0 \/ Sent(Outcomes(n))'
            BY <1>14, <1>15, <3>1, <3>3 DEF RetryFires
        <3>4. ASSUME NEW l \in Adapter, PowerFires(l) PROVE timers'[tm] > 0 \/ Sent(Outcomes(n))'
            BY <1>14, <1>15, <3>2, <3>4 DEF PowerFires
        <3> QED BY <1>3, <2>2, <3>3, <3>4 DEF TimerStep
    <2>3. CASE TickStep \/ UserStep
        BY <1>13, <1>15, <2>3 DEF TickStep, UserStep, AdapterTick, HealthTick, HealthTickSeeing, ConnectAAP,
                                  DisconnectAAP
    <2>4. CASE MonitorTaskStep \/ BluezStep
        BY <1>13, <1>15, <2>4 DEF MonitorTaskStep, MonitorReady, MonitorFails, MonitorEvent,
           MonitorEnds, MonitorStep, BluezStep, AdapterGone, AdapterBack, HeadsetUp, HeadsetDown,
           managerVars
    <2>5. CASE AapTaskStep
        BY <1>13, <1>15, <2>5 DEF AapTaskStep, TaskConnected, TaskDisconnected, managerVars
    <2> QED BY <1>15, <2>1, <2>2, <2>3, <2>4, <2>5 DEF Next
<1> QED BY <1>1, <1>11, <1>15

-----------------------------------------------------------------------------
(* Devices, aap_connecting and the task handles. *)

(* While disconnect() is awaited the handler has nothing else to do, and the *)
(* device it is for is disconnected or gone.                                 *)
EndingSound ==
    ending # None =>
        /\ todo = {}
        /\ ending.cmd = "DeviceLost" => ~Known(ending.addr)
        /\ ending.cmd # "DeviceLost" =>
              Known(ending.addr) /\ devices[ending.addr].aap = "Disconnected"

(* A handle belongs to one device, and its task, while it runs, works on     *)
(* that device's object.                                                     *)
HandlesSound ==
    /\ \A a \in Addr : Known(a) => AddrOf[devices[a].inst] = a
    /\ \A a, b \in Addr : a # b => HandleOf(a) \cap HandleOf(b) = {}
    /\ \A a \in Addr : \A t \in HandleOf(a) : attempt[t] # "idle" => target[t] = devices[a].inst
    /\ \A t \in Task : attempt[t] = "idle" => ~aborted[t]

MgrInv ==
    /\ LinkInv /\ ManagerTypeOK /\ RecoveryPending
    /\ EndingSound /\ ConnectingMarked /\ ConnectingManaged
    /\ HandlesSound /\ ConnectingProgress

\* A step that leaves the devices as they are.
Quiet ==
    /\ UNCHANGED <<devices, connecting, ending>>
    /\ ending # None => todo' = {}
    /\ UNCHANGED linkVars \/ AapTaskStep

\* The steps that change a device, or what is said of it.
Loud ==
    \/ \E n \in Adapter : AdapterLost(n)
    \/ \E a \in Addr :
          \/ \E n \in Adapter : DeviceDiscovered(a, n)
          \/ BluetoothConnected(a) \/ BluetoothDisconnected(a) \/ DeviceLost(a)
          \/ DisconnectAAP(a) \/ AAPConnected(a) \/ AAPDisconnected(a)
          \/ /\ [do |-> "establish", on |-> a] \in todo
             /\ UNCHANGED <<adapters, monitors, loopback, timers, ending, bluezVars>>
             /\ todo' = todo \ Establishing({a})
             /\ \E t \in Task : SpawnTask(a, t)
    \/ FinishDisconnect

(* Every step is one or the other.                                           *)
LEMMA QuietOrLoud == EndingSound /\ Next => Quiet \/ Loud
<1> SUFFICES ASSUME EndingSound, Next PROVE Quiet \/ Loud
    OBVIOUS
<1>1. CASE CommandStep
    <2>1. ASSUME NEW n \in Adapter, AdapterAvailable(n) \/ AdapterError(n) PROVE Quiet
        BY <2>1 DEF AdapterAvailable, AdapterError, Handling, Idle, Quiet
    <2>2. ASSUME NEW a \in Addr, RetryAAP(a) PROVE Quiet
        BY <2>2 DEF RetryAAP, Handling, Idle, Quiet
    <2> QED BY <1>1, <2>1, <2>2 DEF CommandStep, Loud
<1>2. CASE HandlerStep
    <2>1. ASSUME NEW n \in Adapter, InitializeAdapter(n) PROVE Quiet
        BY <2>1 DEF InitializeAdapter, EndingSound, Quiet
    <2>2. ASSUME NEW a \in Addr, EstablishAapConnection(a) PROVE Quiet \/ Loud
        <3>1. CASE Reject(a)
            BY <2>2, <3>1 DEF EstablishAapConnection, Reject, MayEstablish, EndingSound, Quiet
        <3> QED BY <2>2, <3>1 DEF EstablishAapConnection, Loud
    <2> QED BY <1>2, <2>1, <2>2 DEF HandlerStep, Loud
<1>3. CASE TickStep
    BY <1>3 DEF TickStep, AdapterTick, HealthTick, HealthTickSeeing, Idle, Quiet
<1>4. CASE UserStep
    BY <1>4 DEF UserStep, ConnectAAP, Idle, Quiet, Loud
<1>5. CASE MonitorTaskStep
    BY <1>5 DEF MonitorTaskStep, MonitorReady, MonitorFails, MonitorEvent, MonitorEnds,
                MonitorStep, EndingSound, Quiet
<1>6. CASE TimerStep
    BY <1>6 DEF TimerStep, RetryFires, PowerFires, RecoverFires, Fire, EndingSound, Quiet
<1>7. CASE AapTaskStep
    BY <1>7 DEF AapTaskStep, TaskConnected, TaskDisconnected, managerVars, EndingSound, Quiet
<1>8. CASE BluezStep
    BY <1>8 DEF BluezStep, AdapterGone, AdapterBack, HeadsetUp, HeadsetDown, managerVars,
                EndingSound, Quiet
<1> QED BY <1>1, <1>2, <1>3, <1>4, <1>5, <1>6, <1>7, <1>8 DEF Next

(* What each of those steps makes of the devices: one entry changes, or, when *)
(* an adapter is lost, the entries of that adapter.                          *)
LEMMA AdapterLostEffect ==
    ASSUME ManagerTypeOK, NEW n \in Adapter, AdapterLost(n), NEW b \in Addr
    PROVE  \/ devices'[b] = devices[b]
           \/ /\ Known(b) /\ devices'[b] # None
              /\ devices'[b].inst = devices[b].inst
              /\ devices'[b].aap = "Failed" /\ devices'[b].handle = None
<1>1. CASE KnownAdapter(n)
    <2> DEFINE lost == {a \in Addr : Known(a) /\ devices[a].adapter = n}
    <2>1. devices' = [a \in Addr |->
              IF a \in lost THEN [devices[a] EXCEPT !.aap = "Failed", !.handle = None]
                           ELSE devices[a]]
        BY <1>1, Zenon DEF AdapterLost
    <2>2. CASE b \in lost
        <3> DEFINE dev == [devices[b] EXCEPT !.aap = "Failed", !.handle = None]
        <3>1. devices[b] \in ManagedDevice
            BY <2>2, KnownDevice
        <3>2. dev.inst = devices[b].inst /\ dev.aap = "Failed" /\ dev.handle = None
            BY <3>1 DEF ManagedDevice
        <3>4. dev # None
            BY <3>1, DeviceUpdates
        <3>3. devices'[b] = dev
            BY <2>1, <2>2, Zenon
        <3> HIDE DEF dev
        <3> QED BY <2>2, <3>2, <3>3, <3>4
    <2>3. CASE b \notin lost
        BY <2>1, <2>3, Zenon
    <2> QED BY <2>2, <2>3
<1>2. CASE ~KnownAdapter(n)
    BY <1>2 DEF AdapterLost
<1> QED BY <1>1, <1>2

(* handle_bluetooth_disconnected and disconnect_aap: the device is marked   *)
(* disconnected, its task aborted, and no other device is touched.          *)
LEMMA DisconnectEffect ==
    ASSUME ManagerTypeOK, NEW a \in Addr, Known(a),
           BluetoothDisconnected(a) \/ DisconnectAAP(a)
    PROVE  /\ devices'[a] # None /\ devices'[a].inst = devices[a].inst
           /\ devices'[a].aap = "Disconnected" /\ devices'[a].handle = None
           /\ \A b \in Addr : b # a => devices'[b] = devices[b]
           /\ DisconnectBegin(devices[a].inst, HandleOf(a))
           /\ ending' = [cmd |-> IF BluetoothDisconnected(a) THEN "BluetoothDisconnected"
                                                            ELSE "DisconnectAAP",
                         addr |-> a, inst |-> devices[a].inst]
<1>1. devices[a] \in ManagedDevice
    BY KnownDevice
<1>2. ASSUME NEW cmd, NEW dev \in ManagedDevice, StartDisconnect(cmd, a, dev)
      PROVE  /\ devices'[a] = dev /\ \A b \in Addr : b # a => devices'[b] = devices[b]
             /\ DisconnectBegin(devices[a].inst, HandleOf(a))
             /\ ending' = [cmd |-> cmd, addr |-> a, inst |-> devices[a].inst]
    BY <1>2 DEF StartDisconnect, ManagerTypeOK
<1>3. CASE BluetoothDisconnected(a)
    <2> DEFINE dev == [devices[a] EXCEPT !.bt = "Disconnected", !.aap = "Disconnected",
                                         !.handle = None]
    <2>1. dev.inst = devices[a].inst /\ dev.aap = "Disconnected" /\ dev.handle = None
        BY <1>1 DEF ManagedDevice
    <2>3. dev \in ManagedDevice /\ dev # None
        BY <1>1, DeviceUpdates
    <2>2. StartDisconnect("BluetoothDisconnected", a, dev)
        BY <1>3 DEF BluetoothDisconnected
    <2> HIDE DEF dev
    <2> QED BY <1>2, <1>3, <2>1, <2>2, <2>3
<1>4. CASE DisconnectAAP(a) /\ ~BluetoothDisconnected(a)
    <2> DEFINE dev == [devices[a] EXCEPT !.aap = "Disconnected", !.handle = None]
    <2>1. dev.inst = devices[a].inst /\ dev.aap = "Disconnected" /\ dev.handle = None
        BY <1>1 DEF ManagedDevice
    <2>3. dev \in ManagedDevice /\ dev # None
        BY <1>1, DeviceUpdates
    <2>2. StartDisconnect("DisconnectAAP", a, dev)
        BY <1>4 DEF DisconnectAAP
    <2> HIDE DEF dev
    <2> QED BY <1>2, <1>4, <2>1, <2>2, <2>3
<1> QED BY <1>3, <1>4

(* handle_device_lost: the device leaves the map and its task is aborted.   *)
LEMMA DeviceLostEffect ==
    ASSUME ManagerTypeOK, NEW a \in Addr, Known(a), DeviceLost(a)
    PROVE  /\ devices'[a] = None
           /\ \A b \in Addr : b # a => devices'[b] = devices[b]
           /\ DisconnectBegin(devices[a].inst, HandleOf(a))
           /\ ending' = [cmd |-> "DeviceLost", addr |-> a, inst |-> devices[a].inst]
           /\ UNCHANGED <<connecting, todo>>
<1>1. StartDisconnect("DeviceLost", a, None) /\ UNCHANGED <<connecting, todo>>
    BY DEF DeviceLost
<1> QED BY <1>1 DEF StartDisconnect, ManagerTypeOK

(* handle_device_discovered: at most one device enters the map, with a new object.*)
LEMMA DiscoverEffect ==
    ASSUME ManagerTypeOK, NEW a \in Addr, NEW n \in Adapter, DeviceDiscovered(a, n)
    PROVE  \/ UNCHANGED <<devices, linkVars>>
           \/ \E i \in Inst :
                 /\ ~Known(a) /\ AddrOf[i] = a /\ Create(i)
                 /\ devices'[a] # None /\ devices'[a].inst = i
                 /\ devices'[a].aap = "Disconnected" /\ devices'[a].handle = None
                 /\ \A b \in Addr : b # a => devices'[b] = devices[b]
<1>1. ASSUME NEW i \in Inst, Discover(a, n, i), ~Known(a)
      PROVE  /\ AddrOf[i] = a /\ Create(i)
             /\ devices'[a] # None /\ devices'[a].inst = i
             /\ devices'[a].aap = "Disconnected" /\ devices'[a].handle = None
             /\ \A b \in Addr : b # a => devices'[b] = devices[b]
    <2> DEFINE dev == [inst |-> i, bt |-> "Connected", aap |-> "Disconnected", adapter |-> n,
                       handle |-> None]
    <2>1. dev \in ManagedDevice
        BY DEF ManagedDevice
    <2>2. dev # None
        BY <2>1, NoRecordAssumption
    <2>3. devices' = [devices EXCEPT ![a] = dev]
        BY <1>1 DEF Discover
    <2> QED BY <1>1, <2>2, <2>3 DEF Discover, ManagerTypeOK
<1> QED BY <1>1 DEF DeviceDiscovered

(* handle_bluetooth_connected leaves the AAP state of every device alone.   *)
LEMMA ConnectedEffect ==
    ASSUME ManagerTypeOK, NEW a \in Addr, BluetoothConnected(a), NEW b \in Addr
    PROVE  /\ Known(b) <=> devices'[b] # None
           /\ Known(b) => /\ devices'[b].inst = devices[b].inst
                          /\ devices'[b].aap = devices[b].aap
                          /\ devices'[b].handle = devices[b].handle
<1>1. CASE ~Known(a)
    BY <1>1 DEF BluetoothConnected, Known
<1>2. CASE Known(a)
    <2> DEFINE dev == [devices[a] EXCEPT !.bt = "Connected"]
    <2>1. devices[a] \in ManagedDevice
        BY <1>2, KnownDevice
    <2>2. /\ dev.inst = devices[a].inst /\ dev.aap = devices[a].aap
          /\ dev.handle = devices[a].handle
        BY <2>1 DEF ManagedDevice
    <2>4. dev # None
        BY <2>1, DeviceUpdates
    <2>3. devices' = [devices EXCEPT ![a] = dev]
        BY <1>2, Zenon DEF BluetoothConnected
    <2> HIDE DEF dev
    <2> QED BY <1>2, <2>2, <2>3, <2>4 DEF ManagerTypeOK, Known
<1> QED BY <1>1, <1>2

(* The reports of a task end the Connecting state of their device only.     *)
LEMMA AapEffect ==
    ASSUME ManagerTypeOK, NEW a \in Addr, Known(a), AAPConnected(a) \/ AAPDisconnected(a)
    PROVE  /\ devices'[a] # None /\ devices'[a].inst = devices[a].inst
           /\ devices'[a].aap # "Connecting" /\ devices'[a].handle = devices[a].handle
           /\ \A b \in Addr : b # a => devices'[b] = devices[b]
<1>1. devices[a] \in ManagedDevice
    BY KnownDevice
<1>2. PICK p \in {"Connected", "WaitingToReconnect", "Disconnected"} :
          devices' = [devices EXCEPT ![a].aap = p]
    BY DEF AAPConnected, AAPDisconnected
<1> DEFINE dev == [devices[a] EXCEPT !.aap = p]
<1>3. dev.inst = devices[a].inst /\ dev.aap = p /\ dev.handle = devices[a].handle
    BY <1>1, <1>2 DEF ManagedDevice
<1>5. dev # None
    BY <1>1, <1>2, DeviceUpdates
<1>4. devices' = [devices EXCEPT ![a] = dev]
    BY <1>2, Zenon
<1> HIDE DEF dev
<1> QED BY <1>2, <1>3, <1>4, <1>5 DEF ManagerTypeOK

(* A spawned task is the handle of its device, which is marked connecting.  *)
LEMMA SpawnEffect ==
    ASSUME ManagerTypeOK, NEW a \in Addr, NEW t \in Task, SpawnTask(a, t)
    PROVE  /\ Known(a) /\ devices'[a] # None /\ devices'[a].inst = devices[a].inst
           /\ devices'[a].aap = "Connecting" /\ devices'[a].handle = t
           /\ \A b \in Addr : b # a => devices'[b] = devices[b]
           /\ connecting' = connecting \cup {a}
<1>1. Known(a) /\ connecting' = connecting \cup {a}
    BY DEF SpawnTask, MayEstablish
<1>2. devices[a] \in ManagedDevice
    BY <1>1, KnownDevice
<1> DEFINE dev == [devices[a] EXCEPT !.handle = t, !.aap = "Connecting"]
<1>3. dev.inst = devices[a].inst /\ dev.aap = "Connecting" /\ dev.handle = t
    BY <1>2 DEF ManagedDevice
<1>5. dev # None
    BY <1>2, DeviceUpdates
<1>4. devices' = [devices EXCEPT ![a] = dev]
    BY Zenon DEF SpawnTask
<1> HIDE DEF dev
<1> QED BY <1>1, <1>3, <1>4, <1>5 DEF ManagerTypeOK

(* The device a handler waits for stays as it is, a connecting device is     *)
(* marked, and a marked one is managed.                                      *)
Marked == EndingSound /\ ConnectingMarked /\ ConnectingManaged
(* Every step keeps the devices, the marks and the pending handler in agreement.*)
LEMMA MarkedStep == ManagerTypeOK /\ Marked /\ (Quiet \/ Loud) => Marked'
<1> SUFFICES ASSUME ManagerTypeOK, Marked, Quiet \/ Loud PROVE Marked'
    OBVIOUS
<1> USE DEF Marked, EndingSound, ConnectingMarked, ConnectingManaged, Known
<1>c. connecting \subseteq Addr
    BY DEF ManagerTypeOK
<1>e. ending # None => ending.addr \in Addr /\ ending.cmd # "AAPConnected"
    BY DEF ManagerTypeOK, Ending
<1> USE <1>c
<1>1. CASE Quiet
    BY <1>1 DEF Quiet
<1>2. ASSUME NEW n \in Adapter, AdapterLost(n) PROVE Marked'
    <2>1. ending = None /\ UNCHANGED <<connecting, todo, ending>>
        BY <1>2 DEF AdapterLost, Handling, Idle
    <2>2. ASSUME NEW b \in Addr
          PROVE  \/ devices'[b] = devices[b]
                 \/ devices[b] # None /\ devices'[b] # None /\ devices'[b].aap = "Failed"
        BY <1>2, AdapterLostEffect DEF Known
    <2> QED BY <2>1, <2>2
<1>3. ASSUME NEW a \in Addr, NEW n \in Adapter, DeviceDiscovered(a, n) PROVE Marked'
    <2>1. ending = None /\ UNCHANGED <<connecting, ending>>
        BY <1>3 DEF DeviceDiscovered, Handling, Idle
    <2>2. \/ UNCHANGED devices
          \/ /\ devices[a] = None /\ devices'[a] # None /\ devices'[a].aap = "Disconnected"
             /\ \A b \in Addr : b # a => devices'[b] = devices[b]
        BY <1>3, DiscoverEffect DEF Known
    <2> QED BY <2>1, <2>2
<1>4. ASSUME NEW a \in Addr, BluetoothConnected(a) PROVE Marked'
    <2>1. ending = None /\ UNCHANGED <<connecting, ending>>
        BY <1>4 DEF BluetoothConnected, Handling, Idle
    <2>2. ASSUME NEW b \in Addr
          PROVE  /\ devices[b] # None <=> devices'[b] # None
                 /\ devices[b] # None => devices'[b].aap = devices[b].aap
        BY <1>4, ConnectedEffect DEF Known
    <2> QED BY <2>1, <2>2
<1>5. ASSUME NEW a \in Addr, BluetoothDisconnected(a) \/ DisconnectAAP(a) PROVE Marked'
    <2>1. /\ ending = None /\ todo = {} /\ todo' = {}
          /\ connecting' \subseteq connecting /\ connecting \subseteq connecting' \cup {a}
        BY <1>5 DEF BluetoothDisconnected, DisconnectAAP, Handling, Idle
    <2>2. CASE ~Known(a)
        <3>1. UNCHANGED <<devices, ending>> /\ connecting' = connecting \ {a}
            BY <1>5, <2>2 DEF BluetoothDisconnected, DisconnectAAP
        <3> QED BY <2>1, <2>2, <3>1
    <2>3. CASE Known(a)
        <3>1. ending'.addr = a /\ ending'.cmd # "DeviceLost"
            BY <1>5, <2>3, DisconnectEffect
        <3>2. /\ devices'[a] # None /\ devices'[a].aap = "Disconnected"
              /\ \A b \in Addr : b # a => devices'[b] = devices[b]
            BY <1>5, <2>3, DisconnectEffect
        <3> QED BY <2>1, <2>3, <3>1, <3>2
    <2> QED BY <2>2, <2>3
<1>6. ASSUME NEW a \in Addr, DeviceLost(a) PROVE Marked'
    <2>1. ending = None /\ todo = {}
        BY <1>6 DEF DeviceLost, Handling, Idle
    <2>2. CASE ~Known(a)
        <3>1. UNCHANGED <<devices, ending>> /\ connecting' = connecting \ {a}
            BY <1>6, <2>2 DEF DeviceLost
        <3> QED BY <2>1, <2>2, <3>1
    <2>3. CASE Known(a)
        <3>1. ending'.addr = a /\ ending'.cmd = "DeviceLost"
            BY <1>6, <2>3, DeviceLostEffect
        <3>2. /\ devices'[a] = None /\ \A b \in Addr : b # a => devices'[b] = devices[b]
              /\ UNCHANGED <<connecting, todo>>
            BY <1>6, <2>3, DeviceLostEffect
        <3>3. ending' # None
            <4>1. devices[a].inst \in Inst
                BY <2>3, KnownDevice DEF ManagedDevice
            <4>2. ending' \in Ending
                BY <1>6, <2>3, <4>1, DeviceLostEffect DEF Ending
            <4> QED BY <4>2, NoRecordAssumption
        <3> QED BY <2>1, <2>3, <3>1, <3>2, <3>3
    <2> QED BY <2>2, <2>3
<1>7. ASSUME NEW a \in Addr, AAPConnected(a) \/ AAPDisconnected(a) PROVE Marked'
    <2>1. ending = None /\ UNCHANGED ending /\ connecting' = connecting \ {a}
        BY <1>7 DEF AAPConnected, AAPDisconnected, Handling, Idle
    <2>2. CASE ~Known(a)
        <3>1. UNCHANGED devices
            BY <1>7, <2>2 DEF AAPConnected, AAPDisconnected
        <3> QED BY <2>1, <2>2, <3>1
    <2>3. CASE Known(a)
        <3>1. /\ devices'[a] # None /\ devices'[a].aap # "Connecting"
              /\ \A b \in Addr : b # a => devices'[b] = devices[b]
            BY <1>7, <2>3, AapEffect
        <3> QED BY <2>1, <2>3, <3>1
    <2> QED BY <2>2, <2>3
<1>8. ASSUME NEW a \in Addr, NEW t \in Task, SpawnTask(a, t),
             [do |-> "establish", on |-> a] \in todo, UNCHANGED ending
      PROVE  Marked'
    <2>1. ending = None
        BY <1>8
    <2>2. /\ devices[a] # None /\ devices'[a] # None
          /\ \A b \in Addr : b # a => devices'[b] = devices[b]
          /\ connecting' = connecting \cup {a}
        BY <1>8, SpawnEffect DEF Known
    <2> QED BY <1>8, <2>1, <2>2
<1>9. CASE FinishDisconnect
    <2>1. ending # None /\ ending' = None /\ UNCHANGED <<devices, todo>>
        BY <1>9 DEF FinishDisconnect
    <2>2. connecting' = IF ending.cmd = "BluetoothDisconnected" THEN connecting
                        ELSE connecting \ {ending.addr}
        BY <1>9 DEF FinishDisconnect
    <2> QED BY <1>e, <2>1, <2>2
<1> QED BY <1>1, <1>2, <1>3, <1>4, <1>5, <1>6, <1>7, <1>8, <1>9 DEF Loud

(* What a task does on its own, as far as handles are concerned.             *)
LEMMA TaskEffect ==
    ASSUME LinkInv, HandlesSound, NEW t \in Task,
           TaskStep(t) \/ ReportUp(t) \/ ReportDown(t)
    PROVE  /\ \A u \in Task : u # t => /\ attempt'[u] = attempt[u]
                                       /\ target'[u] = target[u]
                                       /\ aborted'[u] = aborted[u]
           /\ attempt'[t] # "idle" => /\ target'[t] = target[t] /\ aborted'[t] = aborted[t]
                                      /\ attempt[t] # "idle"
           /\ attempt'[t] = "idle" => ~aborted'[t]
<1> USE DEF LinkInv, LinkTypeOK, HandlesSound
<1>1. CASE Vanish(t) BY <1>1 DEF Vanish, Leave, Settled
<1>2. CASE TakeLock(t) BY <1>2 DEF TakeLock
<1>3. CASE StartProcessor(t) BY <1>3 DEF StartProcessor
<1>4. CASE StoreConn(t) BY <1>4 DEF StoreConn
<1>5. CASE ConnectFail(t) BY <1>5 DEF ConnectFail
<1>6. CASE RecvError(t) BY <1>6 DEF RecvError
<1>7. CASE TransportClosed(t) BY <1>7 DEF TransportClosed, Leave, Settled
<1>8. CASE RecvOrphan(t) BY <1>8 DEF RecvOrphan, Leave, Settled
<1>9. CASE ReportUp(t) BY <1>9 DEF ReportUp
<1>10. CASE ReportDown(t) BY <1>10 DEF ReportDown, Leave, Settled
<1> QED BY <1>1, <1>2, <1>3, <1>4, <1>5, <1>6, <1>7, <1>8, <1>9, <1>10 DEF TaskStep

(* What the owner's steps do to the tasks.                                   *)
LEMMA OwnerEffect ==
    ASSUME LinkInv, HandlesSound
    PROVE  /\ \A i \in Inst : Create(i) \/ DropInner(i) \/ (\E keep \in BOOLEAN : DisconnectEnd(i, keep))
                 => UNCHANGED <<attempt, target, aborted>>
           /\ \A ts \in SUBSET Task :
                 Abort(ts) \/ (\E i \in Inst : DisconnectBegin(i, ts))
                 => /\ UNCHANGED <<attempt, target>>
                    /\ \A t \in Task : attempt[t] = "idle" => ~aborted'[t]
                    /\ \A t \in Task \ ts : aborted'[t] = aborted[t]
<1> USE DEF LinkInv, LinkTypeOK, HandlesSound
<1>1. ASSUME NEW i \in Inst, Create(i) \/ DropInner(i) \/ (\E keep \in BOOLEAN : DisconnectEnd(i, keep))
      PROVE  UNCHANGED <<attempt, target, aborted>>
    BY <1>1 DEF Create, DropInner, DisconnectEnd
<1>2. ASSUME NEW ts \in SUBSET Task, Abort(ts) \/ (\E i \in Inst : DisconnectBegin(i, ts))
      PROVE  /\ UNCHANGED <<attempt, target>>
             /\ \A t \in Task : attempt[t] = "idle" => ~aborted'[t]
             /\ \A t \in Task \ ts : aborted'[t] = aborted[t]
    BY <1>2 DEF Abort, DisconnectBegin, AbortEffect
<1> QED BY <1>1, <1>2

(* Handles stay distinct and keep pointing at tasks of their device.         *)
LEMMA HandlesStep ==
    LinkInv /\ ManagerTypeOK /\ HandlesSound /\ (Quiet \/ Loud) => HandlesSound'
<1> SUFFICES ASSUME LinkInv, ManagerTypeOK, HandlesSound, Quiet \/ Loud PROVE HandlesSound'
    OBVIOUS
<1>h. \A a \in Addr : HandleOf(a) \subseteq Task
    BY HandlesAreTasks
<1>1. ASSUME UNCHANGED <<devices, attempt, target>>,
             \A t \in Task : attempt[t] = "idle" => ~aborted'[t]
      PROVE  HandlesSound'
    BY <1>1 DEF HandlesSound, HandleOf, Known
<1>2. ASSUME \A b \in Addr : devices'[b] # None =>
                 /\ AddrOf[devices'[b].inst] = b
                 /\ devices'[b].handle # None =>
                       /\ devices[b] # None /\ devices'[b].handle = devices[b].handle
                       /\ devices'[b].inst = devices[b].inst,
             UNCHANGED <<attempt, target>>,
             \A t \in Task : attempt[t] = "idle" => ~aborted'[t]
      PROVE  HandlesSound'
    BY <1>2 DEF HandlesSound, HandleOf, Known
<1>3. CASE Quiet
    <2>1. CASE UNCHANGED linkVars
        BY <1>1, <1>3, <2>1 DEF Quiet, linkVars, HandlesSound
    <2>2. ASSUME NEW t \in Task, TaskStep(t) \/ ReportUp(t) \/ ReportDown(t)
          PROVE  HandlesSound'
        <3>1. UNCHANGED devices
            BY <1>3 DEF Quiet
        <3> QED BY <1>h, <2>2, <3>1, TaskEffect DEF HandlesSound, HandleOf, Known
    <2>3. ASSUME NEW i \in Inst, DropInner(i) PROVE HandlesSound'
        BY <1>1, <1>3, <2>3, OwnerEffect DEF Quiet, HandlesSound
    <2> QED BY <1>3, <2>1, <2>2, <2>3 DEF Quiet, AapTaskStep, TaskConnected, TaskDisconnected
<1>4. ASSUME NEW n \in Adapter, AdapterLost(n) PROVE HandlesSound'
    <2>1. ASSUME NEW b \in Addr, devices'[b] # None
          PROVE  /\ AddrOf[devices'[b].inst] = b
                 /\ devices'[b].handle # None =>
                       /\ devices[b] # None /\ devices'[b].handle = devices[b].handle
                       /\ devices'[b].inst = devices[b].inst
        BY <1>4, <2>1, AdapterLostEffect DEF HandlesSound, Known
    <2> DEFINE ts == UNION {HandleOf(a) : a \in {x \in Addr : Known(x) /\ devices[x].adapter = n}}
    <2>2. ts \in SUBSET Task /\ (Abort(ts) \/ UNCHANGED linkVars)
        <3>1. ts \in SUBSET Task
            BY <1>h
        <3>2. CASE KnownAdapter(n)
            <4>1. Abort(ts)
                BY <1>4, <3>2, Zenon DEF AdapterLost
            <4> QED BY <3>1, <4>1
        <3>3. CASE ~KnownAdapter(n)
            <4>1. UNCHANGED linkVars
                BY <1>4, <3>3, Zenon DEF AdapterLost
            <4> QED BY <3>1, <4>1
        <3> QED BY <3>2, <3>3
    <2>3. UNCHANGED <<attempt, target>> /\ \A t \in Task : attempt[t] = "idle" => ~aborted'[t]
        <3> HIDE DEF ts
        <3>1. CASE Abort(ts) BY <2>2, <3>1, OwnerEffect
        <3>2. CASE UNCHANGED linkVars BY <3>2 DEF linkVars, HandlesSound
        <3> QED BY <2>2, <3>1, <3>2
    <2> QED BY <1>2, <2>1, <2>3
<1>5. ASSUME NEW a \in Addr, NEW n \in Adapter, DeviceDiscovered(a, n) PROVE HandlesSound'
    <2>1. CASE UNCHANGED <<devices, linkVars>>
        BY <1>1, <2>1 DEF linkVars, HandlesSound
    <2>2. ASSUME NEW i \in Inst, ~Known(a), AddrOf[i] = a, Create(i),
                 devices'[a] # None, devices'[a].inst = i, devices'[a].handle = None,
                 \A b \in Addr : b # a => devices'[b] = devices[b]
          PROVE  HandlesSound'
        <3>1. UNCHANGED <<attempt, target>> /\ \A t \in Task : attempt[t] = "idle" => ~aborted'[t]
            BY <2>2, OwnerEffect DEF HandlesSound
        <3>2. \A b \in Addr : devices'[b] # None =>
                 /\ AddrOf[devices'[b].inst] = b
                 /\ devices'[b].handle # None =>
                       /\ devices[b] # None /\ devices'[b].handle = devices[b].handle
                       /\ devices'[b].inst = devices[b].inst
            BY <2>2 DEF HandlesSound, Known
        <3> QED BY <1>2, <3>1, <3>2
    <2> QED BY <1>5, <2>1, <2>2, DiscoverEffect
<1>6. ASSUME NEW a \in Addr, BluetoothConnected(a) PROVE HandlesSound'
    <2>1. ASSUME NEW b \in Addr, devices'[b] # None
          PROVE  /\ AddrOf[devices'[b].inst] = b
                 /\ devices'[b].handle # None =>
                       /\ devices[b] # None /\ devices'[b].handle = devices[b].handle
                       /\ devices'[b].inst = devices[b].inst
        BY <1>6, <2>1, ConnectedEffect DEF HandlesSound, Known
    <2>2. UNCHANGED <<attempt, target>> /\ \A t \in Task : attempt[t] = "idle" => ~aborted'[t]
        BY <1>6 DEF BluetoothConnected, linkVars, HandlesSound
    <2> QED BY <1>2, <2>1, <2>2
<1>7. ASSUME NEW a \in Addr,
             devices'[a] = None \/ (Known(a) /\ devices'[a].inst = devices[a].inst
                                    /\ devices'[a].handle \in {None, devices[a].handle}),
             \A b \in Addr : b # a => devices'[b] = devices[b]
      PROVE  \A b \in Addr : devices'[b] # None =>
                 /\ AddrOf[devices'[b].inst] = b
                 /\ devices'[b].handle # None =>
                       /\ devices[b] # None /\ devices'[b].handle = devices[b].handle
                       /\ devices'[b].inst = devices[b].inst
    BY <1>7 DEF HandlesSound, Known
<1>8. ASSUME NEW a \in Addr, BluetoothDisconnected(a) \/ DisconnectAAP(a) \/ DeviceLost(a)
      PROVE  HandlesSound'
    <2>1. CASE ~Known(a)
        <3>1. UNCHANGED <<devices, linkVars>>
            BY <1>8, <2>1 DEF BluetoothDisconnected, DisconnectAAP, DeviceLost
        <3> QED BY <1>1, <3>1 DEF linkVars, HandlesSound
    <2>2. CASE Known(a)
        <3>1. /\ \/ devices'[a] = None
                 \/ devices'[a].inst = devices[a].inst /\ devices'[a].handle = None
              /\ \A b \in Addr : b # a => devices'[b] = devices[b]
              /\ DisconnectBegin(devices[a].inst, HandleOf(a))
            BY <1>8, <2>2, DisconnectEffect, DeviceLostEffect
        <3>2. devices[a].inst \in Inst
            BY <2>2, KnownDevice DEF ManagedDevice
        <3>3. UNCHANGED <<attempt, target>> /\ \A t \in Task : attempt[t] = "idle" => ~aborted'[t]
            BY <1>h, <3>1, <3>2, OwnerEffect
        <3> QED BY <1>2, <1>7, <2>2, <3>1, <3>3
    <2> QED BY <2>1, <2>2
<1>9. ASSUME NEW a \in Addr, AAPConnected(a) \/ AAPDisconnected(a) PROVE HandlesSound'
    <2>1. UNCHANGED <<attempt, target>> /\ \A t \in Task : attempt[t] = "idle" => ~aborted'[t]
        BY <1>9 DEF AAPConnected, AAPDisconnected, linkVars, HandlesSound
    <2>2. CASE ~Known(a)
        <3>1. UNCHANGED devices
            BY <1>9, <2>2 DEF AAPConnected, AAPDisconnected
        <3> QED BY <1>1, <2>1, <3>1
    <2>3. CASE Known(a)
        BY <1>2, <1>7, <1>9, <2>1, <2>3, AapEffect
    <2> QED BY <2>2, <2>3
<1>10. ASSUME NEW a \in Addr, NEW t \in Task, SpawnTask(a, t) PROVE HandlesSound'
    <2>1. /\ Known(a) /\ devices'[a] # None /\ devices'[a].inst = devices[a].inst
          /\ devices'[a].handle = t /\ \A b \in Addr : b # a => devices'[b] = devices[b]
        BY <1>10, SpawnEffect
    <2>2. \A b \in Addr : t \notin HandleOf(b)
        BY <1>10 DEF SpawnTask, Referenced
    <2>3. /\ attempt[t] = "idle" /\ attempt'[t] = "queued" /\ target'[t] = devices[a].inst
          /\ UNCHANGED aborted
          /\ \A u \in Task : u # t => attempt'[u] = attempt[u] /\ target'[u] = target[u]
        BY <1>10 DEF SpawnTask, Spawn, Unused, LinkInv, LinkTypeOK
    <2>4. \A b \in Addr : HandleOf(b)' = IF b = a THEN {t} ELSE HandleOf(b)
        BY <2>1, NoneAssumption DEF HandleOf, Known
    <2>5. \A b \in Addr : devices'[b] # None => AddrOf[devices'[b].inst] = b
        BY <2>1 DEF HandlesSound, Known
    <2>6. \A b, c \in Addr : b # c => HandleOf(b)' \cap HandleOf(c)' = {}
        BY <2>2, <2>4 DEF HandlesSound
    <2>7. ASSUME NEW b \in Addr, NEW u \in HandleOf(b)', attempt'[u] # "idle"
          PROVE  target'[u] = devices'[b].inst
        BY <1>h, <2>1, <2>2, <2>3, <2>4, <2>7 DEF HandlesSound
    <2>8. \A u \in Task : attempt'[u] = "idle" => ~aborted'[u]
        BY <2>3 DEF HandlesSound
    <2> QED BY <2>5, <2>6, <2>7, <2>8 DEF HandlesSound, Known
<1>11. CASE FinishDisconnect
    <2>1. UNCHANGED devices /\ UNCHANGED <<attempt, target, aborted>>
        BY <1>11 DEF FinishDisconnect, DisconnectEnd
    <2> QED BY <1>1, <2>1 DEF HandlesSound
<1> QED BY <1>3, <1>4, <1>5, <1>6, <1>8, <1>9, <1>10, <1>11 DEF Loud

(* A report for a stays in the channel until one for a is handled.           *)
LEMMA ReportsKept ==
    ASSUME LinkInv, ManagerTypeOK, Next, NEW a \in Addr, Reporting(a),
           ~AAPConnected(a), ~AAPDisconnected(a)
    PROVE  Reporting(a)'
<1>1. Sent(Reports(a))
    BY SentMeaning
<1>2. Sent(Reports(a))' => Reporting(a)'
    BY DEF Sent, Reports, Reporting
<1>3. CommandStep => Head(loopback) \notin Reports(a)
    <2>1. ASSUME NEW n \in Adapter, AdapterAvailable(n) \/ AdapterLost(n) \/ AdapterError(n)
          PROVE  Head(loopback) \notin Reports(a)
        BY <2>1 DEF AdapterAvailable, AdapterLost, AdapterError, Handling, Reports
    <2>2. ASSUME NEW b \in Addr, \/ BluetoothConnected(b) \/ BluetoothDisconnected(b)
                                 \/ DeviceLost(b) \/ RetryAAP(b)
                                 \/ \E n \in Adapter : DeviceDiscovered(b, n)
          PROVE  Head(loopback) \notin Reports(a)
        BY <2>2 DEF BluetoothConnected, BluetoothDisconnected, DeviceLost, RetryAAP,
                    DeviceDiscovered, Handling, Reports
    <2>3. ASSUME NEW b \in Addr, AAPConnected(b) \/ AAPDisconnected(b)
          PROVE  Head(loopback) \notin Reports(a)
        <3>1. Head(loopback).addr = b /\ b # a
            BY <2>3 DEF AAPConnected, AAPDisconnected
        <3> QED BY <3>1 DEF Reports
    <2> QED BY <2>1, <2>2, <2>3 DEF CommandStep
<1>4. Sent(Reports(a))'
    BY <1>1, <1>3, ChannelStep, SentAfterSend, SentAfterReceive
<1> QED BY <1>2, <1>4

(* A task that is at it stays at it, except to report.                       *)
LEMMA TaskProgress ==
    ASSUME LinkInv, NEW t \in Task, TaskStep(t), ~aborted[t],
           attempt[t] \notin {"idle", "serving"}
    PROVE  attempt'[t] \notin {"idle", "serving"}
<1> USE DEF LinkInv, LinkTypeOK
<1>1. CASE Vanish(t) BY <1>1 DEF Vanish
<1>2. CASE TakeLock(t) BY <1>2 DEF TakeLock
<1>3. CASE StartProcessor(t) BY <1>3 DEF StartProcessor
<1>4. CASE StoreConn(t) BY <1>4 DEF StoreConn
<1>5. CASE ConnectFail(t) BY <1>5 DEF ConnectFail
<1>6. CASE RecvError(t) BY <1>6 DEF RecvError
<1>7. CASE TransportClosed(t) BY <1>7 DEF TransportClosed, Leave
<1>8. CASE RecvOrphan(t) BY <1>8 DEF RecvOrphan, Leave
<1> QED BY <1>1, <1>2, <1>3, <1>4, <1>5, <1>6, <1>7, <1>8 DEF TaskStep

(* A device that is still connecting after a step has a task at it, or a     *)
(* report in the channel.                                                    *)
LEMMA ProgressStep ==
    LinkInv /\ ManagerTypeOK /\ HandlesSound /\ ConnectingProgress /\ Next /\ (Quiet \/ Loud)
        => ConnectingProgress'
<1> SUFFICES ASSUME LinkInv, ManagerTypeOK, HandlesSound, ConnectingProgress, Next, Quiet \/ Loud,
                    NEW a \in Addr, devices'[a] # None, devices'[a].aap = "Connecting"
             PROVE  \/ \E t \in HandleOf(a)' : ~aborted'[t] /\ attempt'[t] \notin {"idle", "serving"}
                    \/ Reporting(a)'
    BY DEF ConnectingProgress, Known
<1> DEFINE AtIt == \E t \in HandleOf(a) : ~aborted[t] /\ attempt[t] \notin {"idle", "serving"}
<1>h. \A b \in Addr : HandleOf(b) \subseteq Task
    BY HandlesAreTasks
<1>p. Known(a) /\ devices[a].aap = "Connecting" => AtIt \/ Reporting(a)
    BY DEF ConnectingProgress
<1>r. ~AAPConnected(a) /\ ~AAPDisconnected(a) /\ Reporting(a) => Reporting(a)'
    BY ReportsKept
<1>1. ASSUME Known(a), devices[a].aap = "Connecting", HandleOf(a)' = HandleOf(a),
             \A t \in HandleOf(a) : aborted'[t] = aborted[t] /\ attempt'[t] = attempt[t],
             ~AAPConnected(a), ~AAPDisconnected(a)
      PROVE  AtIt' \/ Reporting(a)'
    BY <1>1, <1>p, <1>r
<1>2. CASE Quiet
    <2>1. ~AAPConnected(a) /\ ~AAPDisconnected(a)
        <3>1. ASSUME AAPConnected(a) \/ AAPDisconnected(a) PROVE FALSE
            <4>1. Known(a)
                BY <1>2 DEF Quiet, Known
            <4>2. devices'[a].aap # "Connecting"
                BY <3>1, <4>1, AapEffect
            <4> QED BY <4>2
        <3> QED BY <3>1
    <2>2. Known(a) /\ devices[a].aap = "Connecting" /\ HandleOf(a)' = HandleOf(a)
        BY <1>2 DEF Quiet, Known, HandleOf
    <2>3. CASE UNCHANGED <<attempt, aborted>>
        BY <1>1, <2>1, <2>2, <2>3
    <2>4. ASSUME NEW t \in Task, TaskStep(t) PROVE AtIt' \/ Reporting(a)'
        BY <1>h, <1>p, <1>r, <2>1, <2>2, <2>4, TaskEffect, TaskProgress
    <2>5. ASSUME NEW t \in Task, TaskConnected(t) \/ TaskDisconnected(t)
          PROVE  AtIt' \/ Reporting(a)'
        <3>1. CASE t \notin HandleOf(a)
            <4>1. \A u \in HandleOf(a) : aborted'[u] = aborted[u] /\ attempt'[u] = attempt[u]
                BY <1>h, <2>5, <3>1, TaskEffect DEF TaskConnected, TaskDisconnected
            <4> QED BY <1>1, <2>1, <2>2, <4>1
        <3>2. CASE t \in HandleOf(a)
            <4>1. attempt[t] # "idle"
                BY <2>5 DEF TaskConnected, TaskDisconnected, ReportUp, ReportDown
            <4>2. AddrOf[target[t]] = a
                BY <2>2, <3>2, <4>1 DEF HandlesSound
            <4>3. PICK cmd \in {"AAPConnected", "AAPDisconnected"} :
                      loopback' = Append(loopback, [cmd |-> cmd, addr |-> a])
                BY <2>5, <4>2 DEF TaskConnected, TaskDisconnected, Send
            <4>4. Len(loopback) + 1 \in DOMAIN loopback'
                  /\ loopback'[Len(loopback) + 1] = [cmd |-> cmd, addr |-> a]
                <5>1. loopback \in Seq(Command) /\ [cmd |-> cmd, addr |-> a] \in Command
                    BY <4>3, CommandForms DEF ManagerTypeOK
                <5> QED BY <4>3, <5>1
            <4> QED BY <4>3, <4>4 DEF Reporting
        <3> QED BY <3>1, <3>2
    <2>6. ASSUME NEW i \in Inst, DropInner(i) PROVE UNCHANGED <<attempt, aborted>>
        BY <2>6 DEF DropInner
    <2> QED BY <1>2, <2>3, <2>4, <2>5, <2>6 DEF Quiet, AapTaskStep, linkVars, Known
<1>3. ASSUME ~AAPConnected(a), ~AAPDisconnected(a), devices'[a] = devices[a],
             \A t \in HandleOf(a) : aborted'[t] = aborted[t] /\ attempt'[t] = attempt[t]
      PROVE  AtIt' \/ Reporting(a)'
    <2>1. Known(a) /\ devices[a].aap = "Connecting" /\ HandleOf(a)' = HandleOf(a)
        BY <1>3 DEF Known, HandleOf
    <2> QED BY <1>1, <1>3, <2>1
<1>4. ASSUME ~Handling("AAPConnected"), ~Handling("AAPDisconnected")
      PROVE  ~AAPConnected(a) /\ ~AAPDisconnected(a)
    BY <1>4 DEF AAPConnected, AAPDisconnected
<1>5. ASSUME NEW n \in Adapter, AdapterLost(n) PROVE AtIt' \/ Reporting(a)'
    <2> DEFINE lost == {x \in Addr : Known(x) /\ devices[x].adapter = n}
               ts == UNION {HandleOf(x) : x \in lost}
    <2>1. devices'[a] = devices[a] /\ Known(a)
        BY <1>5, AdapterLostEffect DEF Known
    <2>2. CASE KnownAdapter(n)
        <3>1. a \notin lost
            <4>1. SUFFICES ASSUME a \in lost PROVE FALSE
                OBVIOUS
            <4>2. devices'[a] = [devices[a] EXCEPT !.aap = "Failed", !.handle = None]
                BY <1>5, <2>2, <4>1, Zenon DEF AdapterLost
            <4>3. devices[a] \in ManagedDevice
                BY <2>1, KnownDevice
            <4>4. [devices[a] EXCEPT !.aap = "Failed", !.handle = None].aap = "Failed"
                BY <4>3 DEF ManagedDevice
            <4> QED BY <4>2, <4>4
        <3>2. Abort(ts) /\ ts \in SUBSET Task
            BY <1>h, <1>5, <2>2 DEF AdapterLost
        <3>3. \A t \in HandleOf(a) : t \notin ts
            BY <3>1 DEF HandlesSound
        <3>4. \A t \in HandleOf(a) : aborted'[t] = aborted[t] /\ attempt'[t] = attempt[t]
            <4> HIDE DEF ts
            <4> QED BY <1>h, <3>2, <3>3, OwnerEffect
        <3> QED BY <1>3, <1>4, <1>5, <2>1, <3>4 DEF AdapterLost, Handling
    <2>3. CASE ~KnownAdapter(n)
        <3>1. UNCHANGED <<attempt, aborted>>
            BY <1>5, <2>3 DEF AdapterLost, linkVars
        <3> QED BY <1>3, <1>4, <1>5, <2>1, <3>1 DEF AdapterLost, Handling
    <2> QED BY <2>2, <2>3
<1>6. ASSUME NEW b \in Addr, NEW n \in Adapter, DeviceDiscovered(b, n) PROVE AtIt' \/ Reporting(a)'
    <2>1. devices'[a] = devices[a]
        BY <1>6, DiscoverEffect
    <2>2. UNCHANGED <<attempt, aborted>>
        BY <1>6, DiscoverEffect, OwnerEffect DEF linkVars
    <2> QED BY <1>3, <1>4, <1>6, <2>1, <2>2 DEF DeviceDiscovered, Handling
<1>7. ASSUME NEW b \in Addr, BluetoothConnected(b) PROVE AtIt' \/ Reporting(a)'
    <2>1. Known(a) /\ devices[a].aap = "Connecting" /\ devices'[a].handle = devices[a].handle
        BY <1>7, ConnectedEffect
    <2>2. HandleOf(a)' = HandleOf(a)
        BY <2>1 DEF HandleOf, Known
    <2>3. UNCHANGED <<attempt, aborted>>
        BY <1>7 DEF BluetoothConnected, linkVars
    <2> QED BY <1>1, <1>4, <1>7, <2>1, <2>2, <2>3 DEF BluetoothConnected, Handling
<1>8. ASSUME NEW b \in Addr, BluetoothDisconnected(b) \/ DisconnectAAP(b) \/ DeviceLost(b)
      PROVE  AtIt' \/ Reporting(a)'
    <2>1. ~AAPConnected(a) /\ ~AAPDisconnected(a)
        <3>1. CASE DisconnectAAP(b)
            <4>1. Known(b)
                BY <3>1 DEF DisconnectAAP
            <4>2. ending = None /\ ending' # None
                <5>1. devices[b].inst \in Inst
                    BY <4>1, KnownDevice DEF ManagedDevice
                <5>2. ending' \in Ending
                    BY <3>1, <5>1 DEF DisconnectAAP, StartDisconnect, Ending
                <5> QED BY <3>1, <5>2, NoRecordAssumption DEF DisconnectAAP, Idle
            <4> QED BY <4>2 DEF AAPConnected, AAPDisconnected
        <3> QED BY <1>4, <1>8, <3>1 DEF BluetoothDisconnected, DeviceLost, Handling
    <2>2. CASE ~Known(b)
        <3>1. UNCHANGED <<devices, attempt, aborted>>
            BY <1>8, <2>2 DEF BluetoothDisconnected, DisconnectAAP, DeviceLost, linkVars
        <3> QED BY <1>3, <2>1, <3>1
    <2>3. CASE Known(b)
        <3>1. /\ devices'[b] = None \/ devices'[b].aap = "Disconnected"
              /\ \A c \in Addr : c # b => devices'[c] = devices[c]
              /\ DisconnectBegin(devices[b].inst, HandleOf(b))
            BY <1>8, <2>3, DisconnectEffect, DeviceLostEffect
        <3>2. a # b /\ devices'[a] = devices[a] /\ devices[b].inst \in Inst
            BY <2>3, <3>1, KnownDevice DEF ManagedDevice
        <3>3. \A t \in HandleOf(a) : t \in Task \ HandleOf(b)
            BY <1>h, <3>2 DEF HandlesSound
        <3>4. \A t \in HandleOf(a) : aborted'[t] = aborted[t] /\ attempt'[t] = attempt[t]
            BY <1>h, <3>1, <3>2, <3>3, OwnerEffect
        <3> QED BY <1>3, <2>1, <3>2, <3>4
    <2> QED BY <2>2, <2>3
<1>9. ASSUME NEW b \in Addr, AAPConnected(b) \/ AAPDisconnected(b) PROVE AtIt' \/ Reporting(a)'
    <2>1. UNCHANGED <<attempt, aborted>> /\ Head(loopback).addr = b
        BY <1>9 DEF AAPConnected, AAPDisconnected, linkVars
    <2>2. a # b \/ ~Known(a)
        BY <1>9, AapEffect
    <2>3. devices'[a] = devices[a]
        BY <1>9, <2>2, AapEffect DEF AAPConnected, AAPDisconnected
    <2>4. a # b
        BY <2>2, <2>3 DEF Known
    <2>5. ~AAPConnected(a) /\ ~AAPDisconnected(a)
        BY <2>1, <2>4 DEF AAPConnected, AAPDisconnected
    <2> QED BY <1>3, <2>1, <2>3, <2>5
<1>10. ASSUME NEW b \in Addr, NEW t \in Task, SpawnTask(b, t),
              [do |-> "establish", on |-> b] \in todo
       PROVE  AtIt' \/ Reporting(a)'
    <2>1. /\ attempt[t] = "idle" /\ attempt'[t] = "queued" /\ UNCHANGED aborted
          /\ \A u \in Task : u # t => attempt'[u] = attempt[u]
        BY <1>10 DEF SpawnTask, Spawn, Unused, LinkInv, LinkTypeOK
    <2>2. CASE a = b
        <3>1. HandleOf(a)' = {t}
            BY <1>10, <2>2, SpawnEffect, NoneAssumption DEF HandleOf, Known
        <3>2. ~aborted[t]
            BY <2>1 DEF HandlesSound
        <3> QED BY <2>1, <3>1, <3>2
    <2>3. CASE a # b
        <3>1. devices'[a] = devices[a]
            BY <1>10, <2>3, SpawnEffect
        <3>2. t \notin HandleOf(a)
            BY <1>10 DEF SpawnTask, Referenced
        <3>3. \A u \in HandleOf(a) : aborted'[u] = aborted[u] /\ attempt'[u] = attempt[u]
            BY <1>h, <2>1, <3>2
        <3>4. ~AAPConnected(a) /\ ~AAPDisconnected(a)
            BY <1>4, <1>10 DEF Handling, Idle
        <3> QED BY <1>3, <3>1, <3>3, <3>4
    <2> QED BY <2>2, <2>3
<1>11. CASE FinishDisconnect
    <2>1. UNCHANGED <<devices, attempt, aborted>> /\ ending # None
        BY <1>11 DEF FinishDisconnect, DisconnectEnd
    <2> QED BY <1>3, <1>4, <2>1 DEF Handling, Idle
<1>12. CASE Loud
    <2>1. CASE \E n \in Adapter : AdapterLost(n)
        BY <1>5, <2>1
    <2>2. CASE FinishDisconnect
        BY <1>11, <2>2
    <2>3. ASSUME NEW b \in Addr,
                 \/ \E n \in Adapter : DeviceDiscovered(b, n)
                 \/ BluetoothConnected(b) \/ BluetoothDisconnected(b) \/ DeviceLost(b)
                 \/ DisconnectAAP(b) \/ AAPConnected(b) \/ AAPDisconnected(b)
          PROVE  AtIt' \/ Reporting(a)'
        BY <1>6, <1>7, <1>8, <1>9, <2>3
    <2>4. ASSUME NEW b \in Addr, [do |-> "establish", on |-> b] \in todo,
                 \E t \in Task : SpawnTask(b, t)
          PROVE  AtIt' \/ Reporting(a)'
        BY <1>10, <2>4
    <2>5. CASE \E b \in Addr :
                 \/ \E n \in Adapter : DeviceDiscovered(b, n)
                 \/ BluetoothConnected(b) \/ BluetoothDisconnected(b) \/ DeviceLost(b)
                 \/ DisconnectAAP(b) \/ AAPConnected(b) \/ AAPDisconnected(b)
        BY <2>3, <2>5
    <2>6. CASE \E b \in Addr : /\ [do |-> "establish", on |-> b] \in todo
                               /\ \E t \in Task : SpawnTask(b, t)
        BY <2>4, <2>6
    <2> QED BY <1>12, <2>1, <2>2, <2>5, <2>6, Zenon DEF Loud
<1> QED BY <1>2, <1>12

-----------------------------------------------------------------------------
(* Theorems. *)

(* The service starts with no device, no task and nothing in the channel.    *)
LEMMA InitInv == Init => MgrInv
<1> SUFFICES ASSUME Init PROVE MgrInv
    OBVIOUS
<1>1. LinkInv
    BY LinkInitInv DEF Init
<1>2. ManagerTypeOK
    <2>1. adapters \in [Adapter -> AdapterInfo]
        BY DEF Init, AdapterInfo
    <2>2. monitors \in [Mon -> MonitorTask]
        BY DEF Init, MonitorTask
    <2>3. todo \subseteq Work
        BY DEF Init, Work
    <2>4. timers \in [Timer -> 0..MaxTimers]
        BY BoundsAssumption DEF Init
    <2> QED BY <2>1, <2>2, <2>3, <2>4 DEF Init, ManagerTypeOK
<1>3. RecoveryPending
    BY DEF Init, RecoveryPending
<1>4. EndingSound /\ ConnectingMarked /\ ConnectingManaged /\ ConnectingProgress
    BY DEF Init, EndingSound, ConnectingMarked, ConnectingManaged, ConnectingProgress, Known
<1>5. HandlesSound
    BY DEF Init, LinkInit, HandlesSound, HandleOf, Known
<1> QED BY <1>1, <1>2, <1>3, <1>4, <1>5 DEF MgrInv

(* The invariant is inductive.                                               *)
LEMMA StepInv == MgrInv /\ [Next]_vars => MgrInv'
<1> SUFFICES ASSUME MgrInv, [Next]_vars PROVE MgrInv'
    OBVIOUS
<1> USE DEF MgrInv
<1>1. LinkInv'
    BY LinkStep, LinkStepInv
<1>2. ManagerTypeOK'
    BY TypeStep
<1>3. RecoveryPending'
    BY RecoveryStep
<1>4. CASE UNCHANGED vars
    <2>1. EndingSound' /\ ConnectingMarked' /\ ConnectingManaged'
        BY <1>4 DEF vars, managerVars, EndingSound, ConnectingMarked, ConnectingManaged, Known
    <2>2. HandlesSound' /\ ConnectingProgress'
        BY <1>4 DEF vars, managerVars, linkVars, HandlesSound, ConnectingProgress, HandleOf,
                    Known, Reporting
    <2> QED BY <1>1, <1>2, <1>3, <2>1, <2>2
<1>5. CASE Next
    <2>1. Quiet \/ Loud
        BY <1>5, QuietOrLoud
    <2>2. EndingSound' /\ ConnectingMarked' /\ ConnectingManaged'
        BY <2>1, MarkedStep DEF Marked
    <2>3. HandlesSound'
        BY <2>1, HandlesStep
    <2>4. ConnectingProgress'
        BY <1>5, <2>1, ProgressStep
    <2> QED BY <1>1, <1>2, <1>3, <2>2, <2>3, <2>4
<1> QED BY <1>4, <1>5

(* The invariant holds of every behaviour of the manager.                    *)
THEOREM ManagerInvariant == Spec => []MgrInv
<1> QED BY InitInv, StepInv, PTL DEF Spec

(* The manager's state is well formed, for any number of adapters, headsets, *)
(* monitors, tasks and objects and any capacity of the channel.              *)
THEOREM ManagerTypes == Spec => []TypeOK
<1>1. MgrInv => TypeOK
    BY DEF MgrInv, LinkInv, TypeOK
<1> QED BY <1>1, ManagerInvariant, PTL

(* The manager, its timers and BlueZ use the AirPods objects only as their    *)
(* owner in AirPodsLink may: the composition implements that module.         *)
THEOREM ManagerImplementsLink == Spec => LinkSafeSpec
<1>1. Init => LinkInit
    BY DEF Init
<1>2. MgrInv /\ [Next]_vars => [LinkNext]_linkVars
    BY LinkStep DEF MgrInv
<1> QED BY <1>1, <1>2, ManagerInvariant, PTL DEF Spec, LinkSafeSpec

(* Under the manager too, whatever handlers abort or replace, a stored       *)
(* connection has a live packet processor.                                   *)
THEOREM ManagedConnWatched == Spec => []ConnWatched
<1> QED BY ManagerImplementsLink, ConnAlwaysWatched, PTL

(* A device shown as connecting is in aap_connecting.                        *)
THEOREM AlwaysMarked == Spec => []ConnectingMarked
<1>1. MgrInv => ConnectingMarked
    BY DEF MgrInv
<1> QED BY <1>1, ManagerInvariant, PTL

(* Only a device that is managed, or whose removal is being finished, is in   *)
(* aap_connecting.                                                           *)
THEOREM AlwaysManaged == Spec => []ConnectingManaged
<1>1. MgrInv => ConnectingManaged
    BY DEF MgrInv
<1> QED BY <1>1, ManagerInvariant, PTL

(* A connecting device has its own task still at it, not aborted, or a report *)
(* that ends the state in the channel: no order of aborts, reports, losses    *)
(* and commands takes both away.                                             *)
THEOREM AlwaysProgress == Spec => []ConnectingProgress
<1>1. MgrInv => ConnectingProgress
    BY DEF MgrInv
<1> QED BY <1>1, ManagerInvariant, PTL

(* The recovery of a lost adapter is asleep or its outcome is in the channel. *)
THEOREM AlwaysRecovering == Spec => []RecoveryPending
<1>1. MgrInv => RecoveryPending
    BY DEF MgrInv
<1> QED BY <1>1, ManagerInvariant, PTL
=============================================================================
