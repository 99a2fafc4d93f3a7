-------------------------- MODULE BluetoothManager --------------------------
(***************************************************************************)
(* The ManagerActor of bluetooth/manager.rs: one task that owns the maps   *)
(* of adapters and devices and the set of addresses with a connection      *)
(* attempt in progress, and that handles one command or tick at a time.    *)
(* Around it run the adapter monitors, the AAP tasks and packet processors *)
(* of AirPodsLink, and the sleeping tasks that send a command to the       *)
(* loopback channel later.                                                 *)
(*                                                                         *)
(* A handler is one step, except where it awaits something that another    *)
(* task of the service can delay or observe: AirPods::disconnect() (the    *)
(* write lock of the device) and the is_paired() query of                  *)
(* establish_aap_connection.  While the rest of the handler is outstanding *)
(* it is in `ending` or `todo`, and the manager takes nothing else.        *)
(***************************************************************************)
EXTENDS AirPodsLink, SequencesExt

CONSTANTS
    Adapter,    \* adapter names
    Addr,       \* addresses of supported headsets
    AddrOf,     \* the address an AirPods object was created for
    Mon,        \* identities of adapter monitor tasks
    Faulty,     \* bound: adapters that BlueZ may lose or fail to serve
    Removable,  \* bound: headsets that BlueZ may forget (unpair)
    Commanded,  \* bound: headsets that D-Bus clients connect and disconnect
    MaxQueue,   \* bound: messages in the loopback channel (1000 in the code);
                \* a timer finds one more place
    MaxTimers   \* bound: sleeping tasks of one kind for one key

ASSUME AddrAssumption == IsFiniteSet(Addr)
ASSUME AddrOfAssumption == AddrOf \in [Inst -> Addr]
ASSUME MonAssumption == None \notin Mon
ASSUME BoundsAssumption == MaxQueue \in Nat \ {0} /\ MaxTimers \in Nat \ {0}

VARIABLES
    adapters,   \* HashMap of AdapterInfo: state and monitor_handle
    monitors,   \* the monitor tasks
    devices,    \* HashMap of ManagedDevice
    connecting, \* aap_connecting
    loopback,   \* loopback_tx / loopback_rx
    timers,     \* tasks that sleep before they send a command
    todo,       \* rest of a handler: adapters to initialize, devices to connect
    ending,     \* rest of a handler that awaits disconnect()
    adapterUp,  \* BlueZ: the adapter exists
    btOn        \* BlueZ: the adapter a headset is connected through

managerVars == <<adapters, monitors, devices, connecting, loopback, timers,
                 todo, ending>>
bluezVars == <<adapterUp, btOn>>
vars == <<linkVars, managerVars, bluezVars>>

AdapterInfo == [state : {"Unknown", "Active", "Lost", "Failed"},
                monitor : Mon \cup {None}]
FreeMonitor == [adapter |-> None, phase |-> "none"]
MonitorTask == {FreeMonitor} \cup
    [adapter : Adapter, phase : {"starting", "listening", "ending", "done"}]
ManagedDevice ==
    [inst : Inst, bt : {"Connected", "Disconnected"},
     aap : {"Disconnected", "Connecting", "Connected", "Failed", "WaitingToReconnect"},
     adapter : Adapter, handle : Task \cup {None}]

Command ==
    [cmd : {"AdapterAvailable", "AdapterLost", "AdapterError"}, adapter : Adapter]
    \cup [cmd : {"DeviceDiscovered"}, addr : Addr, adapter : Adapter]
    \cup [cmd : {"BluetoothConnected", "BluetoothDisconnected", "AAPConnected",
                 "AAPDisconnected", "DeviceLost", "EstablishAAP"}, addr : Addr]

Timer == [kind : {"recover", "power"}, on : Adapter] \cup [kind : {"retry"}, on : Addr]
Work == [do : {"init"}, on : Adapter] \cup [do : {"establish"}, on : Addr]
Ending == [cmd : {"BluetoothDisconnected", "DisconnectAAP", "DeviceLost"},
           addr : Addr, inst : Inst]

ASSUME NoRecordAssumption == None \notin ManagedDevice /\ None \notin Ending

ManagerTypeOK ==
    /\ adapters \in [Adapter -> AdapterInfo]
    /\ monitors \in [Mon -> MonitorTask]
    /\ devices \in [Addr -> ManagedDevice \cup {None}]
    /\ connecting \subseteq Addr
    /\ loopback \in Seq(Command)
    /\ timers \in [Timer -> 0..MaxTimers]
    /\ todo \subseteq Work
    /\ ending \in Ending \cup {None}
    /\ adapterUp \in [Adapter -> BOOLEAN]
    /\ btOn \in [Addr -> Adapter \cup {None}]
TypeOK == LinkTypeOK /\ ManagerTypeOK

-----------------------------------------------------------------------------
(* What the handlers ask of the state. *)

Idle == todo = {} /\ ending = None
Known(a) == devices[a] # None
KnownAdapter(n) == adapters[n].state # "Unknown"
HasAapConnection(a) == Known(a) /\ devices[a].aap \in {"Connected", "Connecting"}
HandleOf(a) == IF Known(a) THEN {devices[a].handle} \ {None} ELSE {}
Referenced(t) == \E a \in Addr : t \in HandleOf(a)

\* The guards of establish_aap_connection that need no D-Bus query.
MayEstablish(a) ==
    /\ a \notin connecting
    /\ Known(a)
    /\ adapters[devices[a].adapter].state = "Active"
    /\ devices[a].bt = "Connected"

Establishing(as) == {[do |-> "establish", on |-> a] : a \in as}

Room(k) == Len(loopback) + k <= MaxQueue
Send(msg) == Room(1) /\ loopback' = Append(loopback, msg)

\* A command is taken off the loopback channel; out is what its handler sends.
Handling(cmd) == Idle /\ loopback # <<>> /\ Head(loopback).cmd = cmd
Receive(out) == Room(Len(out) - 1) /\ loopback' = Tail(loopback) \o out

\* Monitor m has ended, or its handle was dropped: it is forgotten after both.
IsHandle(m) == \E n \in Adapter : adapters[n].monitor = m
Finished(m) == IF IsHandle(m) THEN [monitors[m] EXCEPT !.phase = "done"] ELSE FreeMonitor
StartMonitor(m, n) ==
    /\ \/ monitors[m] = FreeMonitor
       \/ m = adapters[n].monitor /\ monitors[m].phase = "done"
    /\ monitors' = [l \in Mon |->
          CASE l = m -> [adapter |-> n, phase |-> "starting"]
            [] l # m /\ l = adapters[n].monitor /\ monitors[l].phase = "done" -> FreeMonitor
            [] OTHER -> monitors[l]]

\* DeviceDiscovered for headsets that are not managed (check_connected_devices);
\* a D-Bus query that fails reads as "not connected".  BlueZ lists them in any order.
CheckConnected(n) ==
    SetToAllKPermutations({[cmd |-> "DeviceDiscovered", addr |-> a, adapter |-> n] :
                               a \in {x \in Addr : btOn[x] = n /\ ~Known(x)}})

StartTimer(tm) == timers[tm] < MaxTimers /\ timers' = [timers EXCEPT ![tm] = @ + 1]

-----------------------------------------------------------------------------
(* Adapters. *)

\* initialize_adapter: BlueZ may refuse the adapter, or refuse to power it on
\* (then try again later); otherwise the entry is replaced and a monitor runs.
InitializeAdapter(n) ==
    /\ [do |-> "init", on |-> n] \in todo
    /\ todo' = todo \ {[do |-> "init", on |-> n]}
    /\ \/ /\ n \in Faulty
          /\ UNCHANGED <<adapters, monitors, loopback, timers>>
       \/ /\ n \in Faulty
          /\ StartTimer([kind |-> "power", on |-> n])
          /\ UNCHANGED <<adapters, monitors, loopback>>
       \/ \E m \in Mon, found \in CheckConnected(n) :
             /\ StartMonitor(m, n)
             /\ adapters' = [adapters EXCEPT ![n] = [state |-> "Active", monitor |-> m]]
             /\ Room(Len(found))
             /\ loopback' = loopback \o found
             /\ UNCHANGED timers
    /\ UNCHANGED <<linkVars, devices, connecting, ending, bluezVars>>

\* Devices whose AAP connection a returning adapter takes up again.
ToReconnect(n) ==
    {a \in Addr : /\ Known(a)
                  /\ devices[a].adapter = n
                  /\ devices[a].bt = "Connected"
                  /\ devices[a].aap \in {"Failed", "Disconnected"}}

\* handle_adapter_available
AdapterAvailable(n) ==
    /\ Handling("AdapterAvailable")
    /\ n = Head(loopback).adapter
    /\ IF ~KnownAdapter(n)
       THEN /\ todo' = {[do |-> "init", on |-> n]}
            /\ Receive(<<>>)
            /\ UNCHANGED <<adapters, monitors>>
       ELSE /\ \/ /\ adapters[n].monitor # None
                  /\ adapters' = [adapters EXCEPT ![n].state = "Active"]
                  /\ UNCHANGED monitors
               \/ /\ adapters[n].monitor = None
                  /\ \E m \in Mon :
                        /\ StartMonitor(m, n)
                        /\ adapters' = [adapters EXCEPT ![n] = [state |-> "Active", monitor |-> m]]
            /\ \E found \in CheckConnected(n) : Receive(found)
            /\ todo' = Establishing(ToReconnect(n))
    /\ UNCHANGED <<linkVars, devices, connecting, timers, ending, bluezVars>>

\* mutant: the tasks are aborted, the devices keep their states
AdapterLostKeepingStates(n) ==
    LET lost == {a \in Addr : Known(a) /\ devices[a].adapter = n} IN
    /\ Handling("AdapterLost")
    /\ n = Head(loopback).adapter
    /\ KnownAdapter(n)
    /\ Receive(<<>>)
    /\ adapters' = [adapters EXCEPT ![n] = [state |-> "Lost", monitor |-> None]]
    /\ monitors' = [m \in Mon |-> IF m = adapters[n].monitor THEN FreeMonitor ELSE monitors[m]]
    /\ devices' = [a \in Addr |->
          IF a \in lost THEN [devices[a] EXCEPT !.handle = None] ELSE devices[a]]
    /\ Abort(UNION {HandleOf(a) : a \in lost})
    /\ StartTimer([kind |-> "recover", on |-> n])
    /\ UNCHANGED <<connecting, todo, ending, bluezVars>>

\* handle_adapter_lost: every device of the adapter fails and its task is
\* aborted; the address stays in aap_connecting and the connection in its slot.
AdapterLost(n) ==
    LET lost == {a \in Addr : Known(a) /\ devices[a].adapter = n} IN
    /\ Handling("AdapterLost")
    /\ n = Head(loopback).adapter
    /\ Receive(<<>>)
    /\ IF ~KnownAdapter(n)
       THEN UNCHANGED <<adapters, monitors, devices, timers, linkVars>>
       ELSE /\ adapters' = [adapters EXCEPT ![n] = [state |-> "Lost", monitor |-> None]]
            /\ monitors' = [m \in Mon |-> IF m = adapters[n].monitor THEN FreeMonitor
                                                                   ELSE monitors[m]]
            /\ devices' = [a \in Addr |->
                  IF a \in lost THEN [devices[a] EXCEPT !.aap = "Failed", !.handle = None]
                               ELSE devices[a]]
            /\ Abort(UNION {HandleOf(a) : a \in lost})
            /\ StartTimer([kind |-> "recover", on |-> n])
    /\ UNCHANGED <<connecting, todo, ending, bluezVars>>

\* handle_adapter_error: the monitor handle is kept.
AdapterError(n) ==
    /\ Handling("AdapterError")
    /\ n = Head(loopback).adapter
    /\ Receive(<<>>)
    /\ adapters' = IF KnownAdapter(n) THEN [adapters EXCEPT ![n].state = "Failed"]
                                      ELSE adapters
    /\ UNCHANGED <<linkVars, monitors, devices, connecting, timers, todo, ending, bluezVars>>

\* discover_new_adapters, every 10 s: BlueZ lists the adapters it has (or
\* fails, which reads as an empty list).
AdapterTick ==
    /\ Idle
    /\ todo' = {[do |-> "init", on |-> n] :
                   n \in {x \in Adapter : adapterUp[x] /\ adapters[x].state # "Active"}}
    /\ todo' # {}
    /\ UNCHANGED <<linkVars, adapters, monitors, devices, connecting, loopback, timers,
                   ending, bluezVars>>

-----------------------------------------------------------------------------
(* The adapter monitor task. *)

MonitorStep(m, phase) ==
    /\ monitors' = [monitors EXCEPT ![m] = IF phase = "done" THEN Finished(m)
                                           ELSE [@ EXCEPT !.phase = phase]]
    /\ UNCHANGED <<linkVars, adapters, devices, connecting, timers, todo, ending, bluezVars>>

\* adapter.events() succeeds, or fails and the monitor ends.
MonitorReady(m) ==
    /\ monitors[m].phase = "starting"
    /\ MonitorStep(m, "listening")
    /\ UNCHANGED loopback

MonitorFails(m) ==
    /\ monitors[m].phase = "starting"
    /\ monitors[m].adapter \in Faulty
    /\ Send([cmd |-> "AdapterError", adapter |-> monitors[m].adapter])
    /\ MonitorStep(m, "done")

\* DeviceAdded and DeviceRemoved.
MonitorEvent(m, a) ==
    /\ monitors[m].phase = "listening"
    /\ \/ Send([cmd |-> "DeviceDiscovered", addr |-> a, adapter |-> monitors[m].adapter])
       \/ /\ a \in Removable /\ btOn[a] # monitors[m].adapter
          /\ Send([cmd |-> "DeviceLost", addr |-> a])
    /\ MonitorStep(m, "listening")

\* The event stream ended.
MonitorEnds(m) ==
    /\ monitors[m].phase = "ending"
    /\ Send([cmd |-> "AdapterLost", adapter |-> monitors[m].adapter])
    /\ MonitorStep(m, "done")

-----------------------------------------------------------------------------
(* Devices. *)

\* handle_device_discovered: an unmanaged headset that BlueZ reports connected
\* through a known adapter becomes a managed device, and is connected to.
Discover(a, n, i) ==
    /\ AddrOf[i] = a
    /\ Create(i)
    /\ devices' = [devices EXCEPT ![a] =
          [inst |-> i, bt |-> "Connected", aap |-> "Disconnected", adapter |-> n,
           handle |-> None]]
    /\ todo' = Establishing({a})

\* mutant: filed under the adapter BlueZ has it on, which may be none by now
DeviceDiscoveredAnywhere(a, n) ==
    /\ Handling("DeviceDiscovered")
    /\ Head(loopback) = [cmd |-> "DeviceDiscovered", addr |-> a, adapter |-> n]
    /\ Receive(<<>>)
    /\ \/ UNCHANGED <<linkVars, devices, todo>>
       \/ ~Known(a) /\ KnownAdapter(n) /\ \E i \in Inst : Discover(a, btOn[a], i)
    /\ UNCHANGED <<adapters, monitors, connecting, timers, ending, bluezVars>>

DeviceDiscovered(a, n) ==
    /\ Handling("DeviceDiscovered")
    /\ Head(loopback) = [cmd |-> "DeviceDiscovered", addr |-> a, adapter |-> n]
    /\ Receive(<<>>)
    /\ \/ UNCHANGED <<linkVars, devices, todo>>
       \/ /\ ~Known(a) /\ KnownAdapter(n) /\ btOn[a] = n
          /\ \E i \in Inst : Discover(a, n, i)
    /\ UNCHANGED <<adapters, monitors, connecting, timers, ending, bluezVars>>

\* handle_bluetooth_connected
BluetoothConnected(a) ==
    /\ Handling("BluetoothConnected")
    /\ a = Head(loopback).addr
    /\ \/ /\ Known(a)
          /\ devices' = [devices EXCEPT ![a].bt = "Connected"]
          /\ todo' = Establishing({a})
          /\ Receive(<<>>)
       \/ /\ ~Known(a)
          /\ \/ Receive(<<>>)
             \/ \E n \in Adapter :
                  /\ KnownAdapter(n)
                  /\ Receive(<<[cmd |-> "DeviceDiscovered", addr |-> a, adapter |-> n]>>)
          /\ UNCHANGED <<devices, todo>>
    /\ UNCHANGED <<linkVars, adapters, monitors, connecting, timers, ending, bluezVars>>

\* Take the connection of a down: abort its task, lower the flag, and await
\* the lock in disconnect().  dev is the map's entry from now on.
StartDisconnect(cmd, a, dev) ==
    /\ DisconnectBegin(devices[a].inst, HandleOf(a))
    /\ devices' = [devices EXCEPT ![a] = dev]
    /\ ending' = [cmd |-> cmd, addr |-> a, inst |-> devices[a].inst]

\* handle_bluetooth_disconnected, up to device.disconnect().await
BluetoothDisconnected(a) ==
    /\ Handling("BluetoothDisconnected")
    /\ a = Head(loopback).addr
    /\ Receive(<<>>)
    /\ connecting' = connecting \ {a}
    /\ IF Known(a)
       THEN StartDisconnect("BluetoothDisconnected", a,
              [devices[a] EXCEPT !.bt = "Disconnected", !.aap = "Disconnected", !.handle = None])
       ELSE UNCHANGED <<linkVars, devices, ending>>
    /\ UNCHANGED <<adapters, monitors, timers, todo, bluezVars>>

\* handle_device_lost, up to device.disconnect().await
DeviceLost(a) ==
    /\ Handling("DeviceLost")
    /\ a = Head(loopback).addr
    /\ Receive(<<>>)
    /\ \/ /\ Known(a)
          /\ StartDisconnect("DeviceLost", a, None)
          /\ UNCHANGED connecting
       \/ /\ ~Known(a)
          /\ connecting' = connecting \ {a}
          /\ UNCHANGED <<linkVars, devices, ending>>
    /\ UNCHANGED <<adapters, monitors, timers, todo, bluezVars>>

\* disconnect_aap (a D-Bus DisconnectDevice), up to device.disconnect().await
DisconnectAAP(a) ==
    /\ Idle
    /\ a \in Commanded
    /\ Known(a)
    /\ StartDisconnect("DisconnectAAP", a,
          [devices[a] EXCEPT !.aap = "Disconnected", !.handle = None])
    /\ UNCHANGED <<adapters, monitors, connecting, loopback, timers, todo, bluezVars>>

\* mutant: a lost device stays in aap_connecting
FinishLeavingMark ==
    /\ ending # None
    /\ DisconnectEnd(ending.inst, ending.cmd # "DeviceLost")
    /\ connecting' = IF ending.cmd = "DisconnectAAP" THEN connecting \ {ending.addr}
                     ELSE connecting
    /\ ending' = None
    /\ UNCHANGED <<adapters, monitors, devices, loopback, timers, todo, bluezVars>>

\* mutant: disconnect() does not take the lock
FinishUnlocked ==
    /\ ending # None
    /\ conn' = [conn EXCEPT ![ending.inst] = None]
    /\ closers' = closers \ {ending.inst}
    /\ held' = IF ending.cmd = "DeviceLost" THEN held \ {ending.inst} ELSE held
    /\ connecting' = IF ending.cmd = "BluetoothDisconnected" THEN connecting
                     ELSE connecting \ {ending.addr}
    /\ ending' = None
    /\ UNCHANGED <<attempt, aborted, target, proc, isConnected, adapters, monitors,
                   devices, loopback, timers, todo, bluezVars>>

\* The rest of those handlers, once disconnect() has the lock.
FinishDisconnect ==
    /\ ending # None
    /\ DisconnectEnd(ending.inst, ending.cmd # "DeviceLost")
    /\ connecting' = IF ending.cmd = "BluetoothDisconnected" THEN connecting
                     ELSE connecting \ {ending.addr}
    /\ ending' = None
    /\ UNCHANGED <<adapters, monitors, devices, loopback, timers, todo, bluezVars>>

-----------------------------------------------------------------------------
(* AAP connections. *)

\* EstablishAAP, from a retry timer.
RetryAAP(a) ==
    /\ Handling("EstablishAAP")
    /\ a = Head(loopback).addr
    /\ Receive(<<>>)
    /\ todo' = Establishing({a})
    /\ UNCHANGED <<linkVars, adapters, monitors, devices, connecting, timers, ending, bluezVars>>

\* EstablishAAP, from a D-Bus ConnectDevice.
ConnectAAP(a) ==
    /\ Idle
    /\ a \in Commanded
    /\ todo' = Establishing({a})
    /\ UNCHANGED <<linkVars, adapters, monitors, devices, connecting, loopback, timers,
                   ending, bluezVars>>

\* establish_aap_connection: rejected by its guards, or because BlueZ does not
\* say the headset is paired; or a task is spawned and its handle overwrites
\* the one there was.
Reject(a) ==
    /\ connecting' = IF MayEstablish(a) THEN connecting \ {a} ELSE connecting
    /\ UNCHANGED <<linkVars, devices>>

\* mutant: the attempt is not entered in aap_connecting
SpawnUnmarked(a, t) ==
    /\ MayEstablish(a)
    /\ ~Referenced(t)
    /\ Spawn(t, devices[a].inst)
    /\ devices' = [devices EXCEPT ![a].handle = t, ![a].aap = "Connecting"]
    /\ UNCHANGED connecting

SpawnTask(a, t) ==
    /\ MayEstablish(a)
    /\ ~Referenced(t)
    /\ Spawn(t, devices[a].inst)
    /\ devices' = [devices EXCEPT ![a].handle = t, ![a].aap = "Connecting"]
    /\ connecting' = connecting \cup {a}

EstablishAapConnection(a) ==
    /\ [do |-> "establish", on |-> a] \in todo
    /\ todo' = todo \ Establishing({a})
    /\ Reject(a) \/ \E t \in Task : SpawnTask(a, t)
    /\ UNCHANGED <<adapters, monitors, loopback, timers, ending, bluezVars>>

\* handle_aap_connected
AAPConnected(a) ==
    /\ Handling("AAPConnected")
    /\ a = Head(loopback).addr
    /\ Receive(<<>>)
    /\ devices' = IF Known(a) THEN [devices EXCEPT ![a].aap = "Connected"] ELSE devices
    /\ connecting' = connecting \ {a}
    /\ UNCHANGED <<linkVars, adapters, monitors, timers, todo, ending, bluezVars>>

\* handle_aap_disconnected.  A task always reports an error: it holds the
\* AirPods object, so its processor never ends for want of one.
AAPDisconnected(a) ==
    /\ Handling("AAPDisconnected")
    /\ a = Head(loopback).addr
    /\ Receive(<<>>)
    /\ connecting' = connecting \ {a}
    /\ \/ /\ Known(a) /\ devices[a].bt = "Connected"
          /\ devices' = [devices EXCEPT ![a].aap = "WaitingToReconnect"]
          /\ StartTimer([kind |-> "retry", on |-> a])
       \/ /\ Known(a) /\ devices[a].bt = "Disconnected"
          /\ devices' = [devices EXCEPT ![a].aap = "Disconnected"]
          /\ UNCHANGED timers
       \/ ~Known(a) /\ UNCHANGED <<devices, timers>>
    /\ UNCHANGED <<linkVars, adapters, monitors, todo, ending, bluezVars>>

\* The AAP task's reports.
TaskConnected(t) ==
    /\ ReportUp(t)
    /\ Send([cmd |-> "AAPConnected", addr |-> AddrOf[target[t]]])
    /\ UNCHANGED <<adapters, monitors, devices, connecting, timers, todo, ending, bluezVars>>

\* mutant: the task ends without a report
TaskEndsSilently(t) ==
    /\ ReportDown(t)
    /\ UNCHANGED <<adapters, monitors, devices, connecting, loopback, timers, todo, ending,
                   bluezVars>>

TaskDisconnected(t) ==
    /\ ReportDown(t)
    /\ Send([cmd |-> "AAPDisconnected", addr |-> AddrOf[target[t]]])
    /\ UNCHANGED <<adapters, monitors, devices, connecting, timers, todo, ending, bluezVars>>

-----------------------------------------------------------------------------
(* Ticks and timers. *)

\* mutant: only new connections are reported
HealthOnlyUp(up) ==
    {[cmd |-> "BluetoothConnected", addr |-> a] :
        a \in {x \in up : Known(x) /\ devices[x].bt = "Disconnected"}}

HealthMessages(up) ==
    {[cmd |-> "BluetoothDisconnected", addr |-> a] :
        a \in {x \in Addr : Known(x) /\ devices[x].bt = "Connected"} \ up}
    \cup {[cmd |-> "BluetoothConnected", addr |-> a] :
        a \in {x \in up : Known(x) /\ devices[x].bt = "Disconnected"}}

ScanMessages(up) ==
    {[cmd |-> "DeviceDiscovered", addr |-> a, adapter |-> btOn[a]] :
        a \in {x \in up : adapters[btOn[x]].state = "Active" /\ ~HasAapConnection(x)}}

\* What an answered query says: managed devices connected on their adapter, and
\* headsets connected on any.
BtConnected == {a \in Addr : Known(a) /\ KnownAdapter(devices[a].adapter)
                                      /\ btOn[a] = devices[a].adapter}
BtPresent == {a \in Addr : btOn[a] # None}

\* check_connection_health compares the state of every device with what BlueZ
\* answers, then scan_for_connected_airpods reports connected headsets.
HealthTickSeeing(up, seen) ==
    /\ Idle
    /\ \E s1 \in SetToSeqs(HealthMessages(up)), s2 \in SetToSeqs(ScanMessages(seen)) :
          /\ s1 \o s2 # <<>>
          /\ Room(Len(s1 \o s2))
          /\ loopback' = loopback \o s1 \o s2
    /\ UNCHANGED <<linkVars, adapters, monitors, devices, connecting, timers, todo,
                   ending, bluezVars>>

\* A query that fails reads as "not connected".
HealthTick ==
    \E up \in SUBSET BtConnected, seen \in SUBSET BtPresent : HealthTickSeeing(up, seen)

\* A sleeping task wakes and sends its command.
Fire(tm, msg) ==
    /\ timers[tm] > 0
    /\ timers' = [timers EXCEPT ![tm] = @ - 1]
    /\ Len(loopback) <= MaxQueue
    /\ loopback' = Append(loopback, msg)
    /\ UNCHANGED <<linkVars, adapters, monitors, devices, connecting, todo, ending, bluezVars>>

RetryFires(a) ==
    Fire([kind |-> "retry", on |-> a], [cmd |-> "EstablishAAP", addr |-> a])
PowerFires(n) ==
    Fire([kind |-> "power", on |-> n], [cmd |-> "AdapterAvailable", adapter |-> n])
\* mutant: the recovery of an adapter that is not back gives up silently
RecoverSilently(n) ==
    LET tm == [kind |-> "recover", on |-> n] IN
    \/ Fire(tm, [cmd |-> "AdapterAvailable", adapter |-> n])
    \/ /\ timers[tm] > 0
       /\ timers' = [timers EXCEPT ![tm] = @ - 1]
       /\ UNCHANGED <<linkVars, adapters, monitors, devices, connecting, loopback, todo,
                      ending, bluezVars>>

RecoverFires(n) ==
    \E cmd \in {"AdapterAvailable", "AdapterError"} :
        Fire([kind |-> "recover", on |-> n], [cmd |-> cmd, adapter |-> n])

-----------------------------------------------------------------------------
(* BlueZ. *)

AdapterGone(n) ==
    /\ n \in Faulty
    /\ adapterUp[n]
    /\ adapterUp' = [adapterUp EXCEPT ![n] = FALSE]
    /\ btOn' = [a \in Addr |-> IF btOn[a] = n THEN None ELSE btOn[a]]
    /\ monitors' = [m \in Mon |->
          IF monitors[m].adapter = n /\ monitors[m].phase = "listening"
          THEN [monitors[m] EXCEPT !.phase = "ending"] ELSE monitors[m]]
    /\ UNCHANGED <<linkVars, adapters, devices, connecting, loopback, timers, todo, ending>>

AdapterBack(n) ==
    /\ ~adapterUp[n]
    /\ adapterUp' = [adapterUp EXCEPT ![n] = TRUE]
    /\ UNCHANGED <<linkVars, managerVars, btOn>>

HeadsetUp(a, n) ==
    /\ adapterUp[n] /\ btOn[a] = None
    /\ btOn' = [btOn EXCEPT ![a] = n]
    /\ UNCHANGED <<linkVars, managerVars, adapterUp>>

HeadsetDown(a) ==
    /\ btOn[a] # None
    /\ btOn' = [btOn EXCEPT ![a] = None]
    /\ UNCHANGED <<linkVars, managerVars, adapterUp>>

-----------------------------------------------------------------------------
\* initialize_adapters, before the loop: the adapters BlueZ lists, or hci0.
Init ==
    /\ LinkInit
    /\ adapters = [n \in Adapter |-> [state |-> "Unknown", monitor |-> None]]
    /\ monitors = [m \in Mon |-> FreeMonitor]
    /\ devices = [a \in Addr |-> None]
    /\ connecting = {}
    /\ loopback = <<>>
    /\ timers = [tm \in Timer |-> 0]
    /\ \E ns \in SUBSET Adapter \ {{}} : todo = {[do |-> "init", on |-> n] : n \in ns}
    /\ ending = None
    /\ adapterUp = [n \in Adapter |-> TRUE]
    /\ btOn = [a \in Addr |-> None]

\* A command from the loopback channel.
CommandStep ==
    \/ \E n \in Adapter : AdapterAvailable(n) \/ AdapterLost(n) \/ AdapterError(n)
    \/ \E a \in Addr : \/ BluetoothConnected(a) \/ BluetoothDisconnected(a)
                       \/ DeviceLost(a) \/ RetryAAP(a) \/ AAPConnected(a)
                       \/ AAPDisconnected(a)
                       \/ \E n \in Adapter : DeviceDiscovered(a, n)

\* The rest of a handler.
HandlerStep ==
    \/ \E n \in Adapter : InitializeAdapter(n)
    \/ \E a \in Addr : EstablishAapConnection(a)
    \/ FinishDisconnect

TickStep == AdapterTick \/ HealthTick

UserStep == \E a \in Addr : ConnectAAP(a) \/ DisconnectAAP(a)

MonitorTaskStep ==
    \E m \in Mon : \/ MonitorReady(m) \/ MonitorFails(m) \/ MonitorEnds(m)
                   \/ \E a \in Addr : MonitorEvent(m, a)

TimerStep ==
    \/ \E a \in Addr : RetryFires(a)
    \/ \E n \in Adapter : PowerFires(n) \/ RecoverFires(n)

AapTaskStep ==
    \/ \E t \in Task : TaskConnected(t) \/ TaskDisconnected(t)
    \/ /\ \/ \E t \in Task : TaskStep(t)
          \/ \E i \in Inst : DropInner(i)
       /\ UNCHANGED <<managerVars, bluezVars>>

BluezStep ==
    \/ \E n \in Adapter : AdapterGone(n) \/ AdapterBack(n)
    \/ \E a \in Addr : HeadsetDown(a) \/ \E n \in Adapter : HeadsetUp(a, n)

Next ==
    \/ CommandStep \/ HandlerStep \/ TickStep \/ UserStep \/ MonitorTaskStep \/ TimerStep
    \/ AapTaskStep \/ BluezStep

Spec == Init /\ [][Next]_vars

\* tokio runs every ready task and select! picks among ready branches at random,
\* so nothing that is ready again and again waits for ever: the channel and the
\* lock are FIFO, the interval branches stay ready until taken, and connect()
\* is cut off after 30 s.  BlueZ answers the queries of a health tick some time
\* or other; else users, BlueZ and the peer owe nothing.
TaskFairness(t) ==
    LET Alone(A) == A /\ UNCHANGED <<managerVars, bluezVars>> IN
    /\ SF_vars(TaskConnected(t)) /\ SF_vars(TaskDisconnected(t))
    /\ WF_vars(Alone(Vanish(t)))
    /\ WF_vars(Alone(StartProcessor(t) \/ ConnectFail(t))) /\ WF_vars(Alone(StoreConn(t)))
    /\ WF_vars(Alone(proc[t] = "reading" /\ WakeClosed(t)))
    /\ SF_vars(Alone(TransportClosed(t)))

Fairness ==
    /\ SF_vars(CommandStep) /\ SF_vars(HandlerStep) /\ SF_vars(HealthTickSeeing(BtConnected, BtPresent))
    /\ WF_vars(TimerStep)
    /\ \A t \in Task : TaskFairness(t)

FairSpec == Spec /\ Fairness

-----------------------------------------------------------------------------
(* Properties. *)

(* A device shown as connecting is really in aap_connecting.  *)
ConnectingMarked ==
    \A a \in Addr : Known(a) /\ devices[a].aap = "Connecting" => a \in connecting

(* Nothing is connected to on behalf of a device that is no longer managed. *)
ConnectingManaged ==
    \A a \in connecting : Known(a) \/ (ending # None /\ ending.addr = a)

(* A device never hangs in Connecting: its own task is still at it and was  *)
(* not aborted, or a report that ends the state is in the channel.          *)
Reporting(a) ==
    \E k \in DOMAIN loopback :
        loopback[k].cmd \in {"AAPConnected", "AAPDisconnected"} /\ loopback[k].addr = a
ConnectingProgress ==
    \A a \in Addr : Known(a) /\ devices[a].aap = "Connecting" =>
        \/ \E t \in HandleOf(a) : ~aborted[t] /\ attempt[t] \notin {"idle", "serving"}
        \/ Reporting(a)

(* A lost adapter is never forgotten: its recovery sleeps or its outcome is *)
(* in the channel, whatever monitors, ticks and errors come in between.     *)
RecoveryPending ==
    \A n \in Adapter : adapters[n].state = "Lost" =>
        \/ timers[[kind |-> "recover", on |-> n]] > 0
        \/ \E k \in DOMAIN loopback :
              /\ loopback[k].cmd \in {"AdapterAvailable", "AdapterError"}
              /\ loopback[k].adapter = n

(* "Try to reconnect failed AAP connections on this adapter" (manager.rs:531): *)
(* the attempt is not turned away because one is supposedly in progress.    *)
FailedReconnects ==
    \A a \in Addr : [do |-> "establish", on |-> a] \in todo /\ Known(a)
                    /\ devices[a].aap = "Failed" => a \notin connecting

(* No device is left in Connecting.                                         *)
ConnectingEnds ==
    \A a \in Addr : (Known(a) /\ devices[a].aap = "Connecting")
                       ~> ~(Known(a) /\ devices[a].aap = "Connecting")

(* A headset that BlueZ no longer reports connected is marked disconnected  *)
(* and its connection is taken down, unless it comes back first.            *)
LossNoticed ==
    \A a \in Addr :
        (Known(a) /\ devices[a].bt = "Connected" /\ btOn[a] = None)
            ~> \/ btOn[a] # None
               \/ ~Known(a)
               \/ devices[a].bt = "Disconnected" /\ conn[devices[a].inst] = None
=============================================================================
