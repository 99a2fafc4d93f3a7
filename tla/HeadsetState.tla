----------------------------- MODULE HeadsetState -----------------------------
(***************************************************************************)
(* What the service knows of a headset, and what its clients are shown.    *)
(*                                                                         *)
(* The state is cells that are written one at a time, with no lock around  *)
(* them: by the packet processor (airpods/device.rs, nothing/device.rs),   *)
(* from what the headset reports, and by the setters that D-Bus calls run  *)
(* (dbus.rs), once their commands are sent.  The Devices property is read  *)
(* cell by cell too, by calls and by the event dispatcher (main.rs).       *)
(*                                                                         *)
(* disconnect() does not wait for the processor of the connection it takes *)
(* down: it goes on with the reports it has, over an RFCOMM socket even    *)
(* with new ones, and then takes down what it finds stored.  One processor *)
(* at a time outlives its connection.                                      *)
(*                                                                         *)
(* A caller makes one call; frames are whole; an AirPods command is one    *)
(* packet.  The events of a connection made or ended are left out: they    *)
(* have the property published once more, with no cell changed.            *)
(***************************************************************************)
EXTENDS Naturals, Sequences

CONSTANTS
    Caller,     \* D-Bus calls
    Dispatcher, \* the task that dispatches events
    Request,    \* what calls may ask for
    Wear,       \* by kind, what may happen to a headset: [of, value]
    First,      \* by kind, what a headset may be like at first
    Followed,   \* by kind, the cells of to_json that are followed, in its order
    Asked,      \* by kind, the attributes a new connection asks for
    None,
    MaxChances  \* bound, by kind: chances

ASSUME DispatcherAssumption == Dispatcher \notin Caller
ASSUME HeadsetBounds == MaxChances \in [{"nothing", "airpods"} -> Nat]

VARIABLES
    kind,       \* AirPodsInner::kind
    hw,         \* the headset's own state, by attribute
    tx, rx,     \* packets to the headset, frames from it
    link,       \* "up"; "lost", its end not yet processed; "down", no conn
    proc,       \* how far the processor is with Head(rx)
    old,        \* a processor that outlives its connection, and its frames
    cache,      \* the cells of AirPodsInner and NothingState
    events,     \* events on their way to the dispatcher
    call,       \* the calls
    disp,       \* the dispatcher
    view,       \* what each publisher has read so far
    shown,      \* the last Devices property clients were sent
    chances,    \* calls, changes nobody asked for and lost connections so far,
                \* and connections cut, each of which counts as two
    raced,      \* ghost: cells a report reached while a call was setting them,
                \* or that an old processor wrote
    lapped,     \* ghost: publishers overtaken by another since they began
    crossed,    \* ghost: shown is from a publisher that was overtaken
    silent      \* ghost: cells the headset changed without an event

linkVars == <<kind, link, chances, old>>
headsetVars == <<hw, tx>>
cacheVars == <<cache, proc, events, rx>>
tellVars == <<disp, view, shown, lapped, crossed>>
vars == <<linkVars, headsetVars, cacheVars, call, tellVars, raced, silent>>

Publisher == Caller \cup {Dispatcher}

-----------------------------------------------------------------------------
(* The protocols.  An ANC level is 1..6, an ANC status the byte for it.     *)

\* anc_level_to_payload and anc_level_to_strength_payload, by level
LevelStatus == <<5, 7, 3, 1, 2, 4>>

\* anc_status_to_level, by status; 0 is none
StatusLevel == <<4, 5, 3, 6, 1, 0, 2>>

\* anc_level_to_mode, by level, and mode_to_anc_level
LevelMode == <<"off", "transparency", "anc", "anc", "anc", "adaptive">>
ModeLevel == [off |-> 1, transparency |-> 2, anc |-> 4, adaptive |-> 6]

\* mutant: the strength counts in every mode
ParseStrength(report) ==
    StatusLevel[IF report[2] = None THEN report[1] ELSE report[2]]

\* parse_anc_level: <<mode status, strength status or None>>
ParseAnc(report) ==
    StatusLevel[IF report[1] \in {5, 7} \/ report[2] = None THEN report[1] ELSE report[2]]

Put(cell, value) == [cell |-> cell, value |-> value]

SetFeature(v) == <<Put("present", TRUE), Put("feature", v)>>
SetLevel(l) == <<Put("level", l), Put("mode", LevelMode[l])>>

\* mutant: a status that stands for no level is taken for level 0
UpdatesUnchecked(frame) ==
    CASE frame.of = "anc" ->
            IF ParseAnc(frame.value) = 0 THEN <<Put("level", 0)>>
                                         ELSE SetLevel(ParseAnc(frame.value))
      [] frame.of = "feature" -> SetFeature(frame.value)
      [] OTHER -> <<Put(frame.of, frame.value)>>

\* The cells a report updates, in order; none if it does not parse.
Updates(frame) ==
    CASE frame.of = "anc" ->
            IF ParseAnc(frame.value) = 0 THEN <<>> ELSE SetLevel(ParseAnc(frame.value))
      [] frame.of = "feature" -> SetFeature(frame.value)
      [] OTHER -> <<Put(frame.of, frame.value)>>

Packet(of, value) == [of |-> of, value |-> value]

\* set_anc_level: two packets for a level that has a strength
AncPackets(l) ==
    LET mode == Packet("anc", <<1, LevelStatus[l]>>)
        strength == Packet("anc", <<2, LevelStatus[l]>>)
    IN  IF l \in {1, 2} THEN <<mode>> ELSE <<mode, strength>>

\* set_noise_control of a Nothing/CMF headset is a set_anc_level
IsAnc(r) == kind = "nothing" /\ r.of \in {"level", "mode"}
LevelAsked(r) == IF r.of = "level" THEN r.value ELSE ModeLevel[r.value]

Commands(r) == IF IsAnc(r) THEN AncPackets(LevelAsked(r)) ELSE <<Packet(r.of, r.value)>>

\* The cells a call stores once its commands are sent, in order.
Stores(r) ==
    IF IsAnc(r) THEN SetLevel(LevelAsked(r))
    ELSE IF r.of = "feature" THEN SetFeature(r.value)
    ELSE <<Put(r.of, r.value)>>

Supported(r) ==
    IF kind = "nothing" THEN r.of \in {"mode", "eq", "ring"} \/ (r.of = "level" /\ r.value \in 1..6)
                        ELSE r.of \in {"mode", "feature"}

\* to_json: what is read, in order; what a new connection asks for, in order
Devices == Followed[kind]
Reported == Asked[kind]

Cells == {"level", "eq", "ring", "battery", "mode", "ear", "present", "feature"}

\* What a headset of a kind has, and what an ANC report may carry.
Has(k) == DOMAIN CHOOSE h \in First[k] : TRUE
AncReport == (1..7) \X ((1..7) \cup {None})

ASSUME HeadsetAssumption ==
    /\ {"anc"} \subseteq Has("nothing") /\ Has("nothing") \subseteq {"anc", "eq", "ring", "battery"}
    /\ Has("airpods") \subseteq {"mode", "ear", "battery", "feature"}
    /\ \A k \in {"nothing", "airpods"} :
          /\ First[k] # {} /\ \A h \in First[k] : h = [a \in Has(k) |-> h[a]]
          /\ \A w \in Wear[k] : w.of \in Has(k)
          /\ Asked[k] \in Seq(Has(k) \ {"ring"}) /\ Followed[k] \in Seq(Cells)
    /\ \A h \in First["nothing"] : h["anc"] \in AncReport
    /\ \A w \in Wear["nothing"] : w.of = "anc" => w.value \in AncReport
    /\ \E i \in DOMAIN Asked["nothing"] : Asked["nothing"][i] = "anc"

ASSUME RequestAssumption ==
    \A r \in Request :
        /\ r.of = "mode" => r.value \in DOMAIN ModeLevel
        /\ r.of \in {"eq", "ring"} => r.of \in Has("nothing")
        /\ r.of \in {"mode", "feature"} => r.of \in Has("airpods")

Answers(ask) == IF ask = "all" THEN Reported ELSE <<ask>>

Frame(of, value) == [of |-> of, value |-> value]

HeadsetTypeOK ==
    /\ kind \in {"nothing", "airpods"} /\ link \in {"up", "lost", "down"}
    /\ DOMAIN hw = Has(kind)
    /\ \A i \in DOMAIN rx : rx[i].of \in DOMAIN hw
    /\ proc.n \in 0..2 /\ (proc.n > 0 => rx # <<>>)
    /\ \A i \in DOMAIN old.rx : old.rx[i].of \in DOMAIN hw
    /\ old.n \in 0..2 /\ (old.n > 0 => old.rx # <<>>) /\ (old.rx # <<>> => old.alive)
    /\ DOMAIN cache = Cells /\ cache["level"] \in 1..6 \cup {None}
    /\ events \in Nat
    /\ \A c \in Caller : call[c].pc \in {"new", "sending", "storing", "telling", "done", "failed"}
    /\ disp \in {"idle", "waiting", "telling"}
    /\ \A p \in Publisher : Len(view[p]) <= Len(Devices)
    /\ Len(shown) = Len(Devices)
    /\ chances \in 0..MaxChances[kind]
    /\ raced \cup silent \subseteq Cells /\ lapped \subseteq Publisher /\ crossed \in BOOLEAN

-----------------------------------------------------------------------------
\* Calls that have sent a command and not stored its effect
Setting(cell) ==
    \E c \in Caller :
        /\ call[c].pc = "storing" \/ (call[c].pc = "sending" /\ call[c].n > 0)
        /\ \E i \in DOMAIN Stores(call[c].req) : Stores(call[c].req)[i].cell = cell

\* who holds the read lock of conn, and of the D-Bus interface
UsesConn(c) == call[c].pc \in {"sending", "storing"}
UsesInterface(c) == UsesConn(c) \/ call[c].pc = "telling"

InitialCache ==
    [c \in Cells |-> IF c \in {"ring", "present", "feature"} THEN FALSE ELSE None]

Begun == [n |-> 0, changed |-> FALSE]
Gone == [alive |-> FALSE, rx |-> <<>>, n |-> 0, changed |-> FALSE]

Init ==
    /\ kind \in {"nothing", "airpods"} /\ hw \in First[kind]
    /\ link = "down" /\ tx = <<>> /\ rx = <<>>
    /\ cache = InitialCache /\ proc = Begun /\ old = Gone /\ events = 0
    /\ call = [c \in Caller |-> [pc |-> "new", req |-> None, n |-> 0]]
    /\ disp = "idle" /\ view = [p \in Publisher |-> <<>>]
    /\ shown = [i \in DOMAIN Devices |-> InitialCache[Devices[i]]]
    /\ chances = 0
    /\ raced = {} /\ lapped = {} /\ crossed = FALSE /\ silent = {}

(* The connection.                                                          *)

\* connect() waits for the write lock; request_initial_state asks for each
\* attribute, the handshake of AirPods for all at once
Connect ==
    /\ link = "down" /\ \A c \in Caller : ~UsesConn(c)
    /\ link' = "up"
    /\ tx' = IF kind = "airpods" THEN <<Packet("read", "all")>>
             ELSE [i \in DOMAIN Reported |-> Packet("read", Reported[i])]
    /\ UNCHANGED <<kind, chances, old, hw, cacheVars, call, tellVars, raced, silent>>

\* What the receiver has got by then: at least the frame the processor is at.
Received == {SubSeq(rx, 1, k) : k \in (IF proc.n > 0 THEN 1 ELSE 0)..Len(rx)}

\* What it has not got is lost.  So is a command on its way: one that is
\* carried out all the same is a change nobody asked for.
Drop ==
    /\ link = "up" /\ chances < MaxChances[kind]
    /\ chances' = chances + 1 /\ link' = "lost" /\ tx' = <<>>
    /\ rx' \in Received
    /\ UNCHANGED <<kind, old, hw, cache, proc, events, call, tellVars, raced, silent>>

\* notify_transport_disconnected, by the connection's own processor
TearDown ==
    /\ link = "lost" /\ rx = <<>> /\ \A c \in Caller : ~UsesConn(c)
    /\ link' = "down"
    /\ UNCHANGED <<kind, chances, old, headsetVars, cacheVars, call, tellVars, raced, silent>>

\* The connection is taken with the write lock, its processor goes on.
Taken ==
    /\ \A c \in Caller : ~UsesConn(c)
    /\ link' = "down" /\ tx' = <<>> /\ rx' = <<>> /\ proc' = Begun
    /\ \E got \in Received :
          old' = [alive |-> TRUE, rx |-> got, n |-> proc.n, changed |-> proc.changed]
    /\ UNCHANGED <<kind, hw, cache, events, call, tellVars, raced, silent>>

\* disconnect()
Disconnect ==
    /\ link # "down" /\ ~old.alive /\ chances + 1 < MaxChances[kind]
    /\ chances' = chances + 2
    /\ Taken

(* The headset: it carries out commands in order and reports every change.  *)

\* an attribute that is now, after command p
Applied(p, now) ==
    IF p.of # "anc" THEN p.value
    ELSE IF p.value[1] = 1 THEN <<p.value[2], now[2]>>
    ELSE IF now[2] = None THEN now
    ELSE <<now[1], p.value[2]>>

Becomes(of, value) ==
    /\ hw' = [hw EXCEPT ![of] = value]
    /\ rx' = IF link = "up" /\ hw[of] # value /\ of # "ring"
             THEN Append(rx, Frame(of, value)) ELSE rx
    /\ \/ UNCHANGED old
       \/ /\ kind = "nothing" /\ old.alive /\ hw[of] # value /\ of # "ring"
          /\ old' = [old EXCEPT !.rx = Append(@, Frame(of, value))]

Obey ==
    /\ link = "up" /\ tx # <<>> /\ tx' = Tail(tx)
    /\ LET p == Head(tx)
       IN  IF p.of = "read"
           THEN /\ rx' = rx \o [i \in DOMAIN Answers(p.value) |->
                                 Frame(Answers(p.value)[i], hw[Answers(p.value)[i]])]
                /\ UNCHANGED <<hw, old>>
           ELSE Becomes(p.of, Applied(p, hw[p.of]))
    /\ UNCHANGED <<kind, link, chances, cache, proc, events, call, tellVars, raced, silent>>

Worn ==
    /\ chances < MaxChances[kind] /\ chances' = chances + 1
    /\ \E w \in Wear[kind] : hw[w.of] # w.value /\ Becomes(w.of, w.value)
    /\ UNCHANGED <<kind, link, tx, cache, proc, events, call, tellVars, raced, silent>>

(* The processor: process_frame, process_packet.                            *)

\* mutant: only the last cell says whether there is news
UpdateLastCounts ==
    /\ rx # <<>> /\ proc.n < Len(Updates(Head(rx)))
    /\ LET u == Updates(Head(rx))[proc.n + 1]
           new == cache[u.cell] # u.value
       IN  /\ cache' = [cache EXCEPT ![u.cell] = u.value]
           /\ proc' = [n |-> proc.n + 1, changed |-> new]
           /\ raced' = IF Setting(u.cell) THEN raced \cup {u.cell} ELSE raced \ {u.cell}
           /\ silent' = IF new /\ Head(rx).of = "feature" THEN silent \cup {u.cell} ELSE silent
    /\ UNCHANGED <<linkVars, headsetVars, rx, events, call, tellVars>>

Update ==
    /\ rx # <<>> /\ proc.n < Len(Updates(Head(rx)))
    /\ LET u == Updates(Head(rx))[proc.n + 1]
           new == cache[u.cell] # u.value
       IN  /\ cache' = [cache EXCEPT ![u.cell] = u.value]
           /\ proc' = [n |-> proc.n + 1, changed |-> proc.changed \/ new]
           /\ raced' = IF Setting(u.cell) THEN raced \cup {u.cell} ELSE raced \ {u.cell}
           /\ silent' = IF new /\ Head(rx).of = "feature" THEN silent \cup {u.cell} ELSE silent
    /\ UNCHANGED <<linkVars, headsetVars, rx, events, call, tellVars>>

\* NoiseControlChanged, or DeviceInfoChanged for a level alone; none for features
Event(changed, frame) == IF changed /\ frame.of # "feature" THEN 1 ELSE 0
Told == Event(proc.changed, Head(rx))

Processed ==
    /\ rx # <<>> /\ proc.n = Len(Updates(Head(rx)))
    /\ rx' = Tail(rx) /\ proc' = Begun
    /\ events' = events + Told
    /\ UNCHANGED <<linkVars, headsetVars, cache, call, tellVars, raced, silent>>

(* The same of a processor whose connection is gone.                        *)

OldUpdate ==
    /\ old.rx # <<>> /\ old.n < Len(Updates(Head(old.rx)))
    /\ LET u == Updates(Head(old.rx))[old.n + 1]
           new == cache[u.cell] # u.value
       IN  /\ cache' = [cache EXCEPT ![u.cell] = u.value]
           /\ old' = [old EXCEPT !.n = @ + 1, !.changed = @ \/ new]
           /\ raced' = raced \cup {u.cell}
           /\ silent' = IF new /\ Head(old.rx).of = "feature" THEN silent \cup {u.cell}
                        ELSE silent
    /\ UNCHANGED <<kind, link, chances, headsetVars, rx, proc, events, call, tellVars>>

OldProcessed ==
    /\ old.rx # <<>> /\ old.n = Len(Updates(Head(old.rx)))
    /\ old' = [old EXCEPT !.rx = Tail(@), !.n = 0, !.changed = FALSE]
    /\ events' = events + Event(old.changed, Head(old.rx))
    /\ UNCHANGED <<kind, link, chances, headsetVars, rx, proc, cache, call, tellVars, raced,
                   silent>>

\* notify_transport_disconnected: the connection that it takes may be a new one
OldEnds ==
    /\ old.alive /\ old.rx = <<>> /\ UNCHANGED chances
    /\ IF link # "down" THEN Taken
       ELSE /\ \A c \in Caller : ~UsesConn(c)
            /\ old' = Gone
            /\ UNCHANGED <<kind, link, headsetVars, cacheVars, call, tellVars, raced, silent>>

(* The calls.                                                               *)

Goto(c, pc, n) == call' = [call EXCEPT ![c].pc = pc, ![c].n = n]
Ended(c, pc) == call' = [call EXCEPT ![c] = [pc |-> pc, req |-> None, n |-> 0]]

\* send_command: the dispatcher, waiting or at work, keeps new calls out
Begin(c) ==
    /\ call[c].pc = "new" /\ disp = "idle"
    /\ chances < MaxChances[kind] /\ chances' = chances + 1
    /\ \E r \in Request :
          IF link # "down" /\ Supported(r)
          THEN call' = [call EXCEPT ![c] = [pc |-> "sending", req |-> r, n |-> 0]]
          ELSE Ended(c, "failed")
    /\ UNCHANGED <<kind, link, old, headsetVars, cacheVars, tellVars, raced, silent>>

\* A packet sent over a lost link may be taken all the same.
Send(c) ==
    /\ call[c].pc = "sending"
    /\ LET cmds == Commands(call[c].req)
       IN  /\ tx' = IF link = "up" THEN Append(tx, cmds[call[c].n + 1]) ELSE tx
           /\ IF call[c].n + 1 = Len(cmds) THEN Goto(c, "storing", 0)
                                           ELSE Goto(c, "sending", call[c].n + 1)
    /\ UNCHANGED <<linkVars, hw, cacheVars, tellVars, raced, silent>>

\* The channel is closed; or the packet was not written, or for AirPods not
\* answered, in 10 s: it may be carried out yet.
SendFails(c) ==
    /\ call[c].pc = "sending"
    /\ \/ link = "lost" /\ UNCHANGED tx
       \/ link = "up" /\ tx' = Append(tx, Commands(call[c].req)[call[c].n + 1])
    /\ Ended(c, "failed")
    /\ UNCHANGED <<linkVars, hw, cacheVars, tellVars, raced, silent>>

Store(c) ==
    /\ call[c].pc = "storing"
    /\ LET stores == Stores(call[c].req)
           s == stores[call[c].n + 1]
       IN  /\ cache' = [cache EXCEPT ![s.cell] = s.value]
           /\ IF call[c].n + 1 = Len(stores) THEN Goto(c, "telling", 0)
                                             ELSE Goto(c, "storing", call[c].n + 1)
    /\ UNCHANGED <<linkVars, headsetVars, proc, events, rx, tellVars, raced, silent>>

(* Publishing the property: devices_changed.                                *)

\* dispatch: get_mut() waits for every call and lets no other in
Take ==
    /\ disp = "idle" /\ events > 0
    /\ events' = events - 1 /\ disp' = "waiting"
    /\ UNCHANGED <<linkVars, headsetVars, cache, proc, rx, call, view, shown, lapped,
                   crossed, raced, silent>>

Enter ==
    /\ disp = "waiting" /\ \A c \in Caller : ~UsesInterface(c)
    /\ disp' = "telling"
    /\ UNCHANGED <<linkVars, headsetVars, cacheVars, call, view, shown, lapped, crossed,
                   raced, silent>>

Telling(p) == IF p = Dispatcher THEN disp = "telling" ELSE call[p].pc = "telling"

Read(p) ==
    /\ Telling(p) /\ Len(view[p]) < Len(Devices)
    /\ view' = [view EXCEPT ![p] = Append(@, cache[Devices[Len(@) + 1]])]
    /\ UNCHANGED <<linkVars, headsetVars, cacheVars, call, disp, shown, lapped, crossed,
                   raced, silent>>

Emit(p) ==
    /\ Telling(p) /\ Len(view[p]) = Len(Devices)
    /\ shown' = view[p] /\ view' = [view EXCEPT ![p] = <<>>]
    /\ crossed' = (p \in lapped)
    /\ lapped' = {q \in Publisher : q # p /\ view[q] # <<>>}
    /\ IF p = Dispatcher THEN disp' = "idle" /\ UNCHANGED call
                         ELSE Ended(p, "done") /\ UNCHANGED disp
    /\ UNCHANGED <<linkVars, headsetVars, cacheVars, raced, silent>>

LinkStep == Connect \/ Drop \/ TearDown \/ Disconnect
HeadsetStep == Obey \/ Worn
ProcStep == Update \/ Processed
OldStep == OldUpdate \/ OldProcessed \/ OldEnds
CallStep == \E c \in Caller : Begin(c) \/ Send(c) \/ SendFails(c) \/ Store(c)
TellStep == Take \/ Enter \/ \E p \in Publisher : Read(p) \/ Emit(p)

Next == LinkStep \/ HeadsetStep \/ ProcStep \/ OldStep \/ CallStep \/ TellStep

Spec == Init /\ [][Next]_vars

-----------------------------------------------------------------------------
CallsEnded == \A c \in Caller : call[c].pc \in {"new", "done", "failed"}
Caught == link = "up" /\ tx = <<>> /\ rx = <<>> /\ CallsEnded

\* a headset that is at an ANC level: setting it to that level changes nothing
AtLevel(l) ==
    /\ hw["anc"][1] = LevelStatus[l]
    /\ l \in {1, 2} \/ hw["anc"][2] \in {None, LevelStatus[l]}

Agrees(cell, value) == cell \in raced \/ cache[cell] = value

(* When nothing is under way the cells are what the headset is, however     *)
(* calls overlapped, failed half-way or lost the link, and through both     *)
(* translations of ANC levels.  Except a cell that a report reached while a *)
(* call was setting it (nothing/device.rs:254), or that the processor of an *)
(* earlier connection wrote (airpods/device.rs:400), until the next report. *)
FollowsHeadset ==
    Caught =>
        /\ kind = "nothing" =>
              \A l \in 1..6 : AtLevel(l) => Agrees("level", l) /\ Agrees("mode", LevelMode[l])
        /\ \A i \in DOMAIN Reported : Reported[i] = "anc" \/ Agrees(Reported[i], hw[Reported[i]])

(* When nothing is under way clients have been shown what the service knows *)
(* ("so UI updates", dbus.rs:110), although cells are written and read one  *)
(* at a time; except the features a headset changed by itself, of which     *)
(* there is no event, and after two calls overtook one another.             *)
ShownIsKnown ==
    /\ CallsEnded /\ disp = "idle" /\ events = 0 /\ proc.n = 0 /\ old.n = 0
    => \/ crossed
       \/ \A i \in DOMAIN Devices : Devices[i] \in silent \/ shown[i] = cache[Devices[i]]
=============================================================================
