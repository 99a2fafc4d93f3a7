--------------------------- MODULE BatteryTracker ---------------------------
(***************************************************************************)
(* The drain history of one headset (battery_study.rs, BatteryTracker) and *)
(* the tasks that touch it: the packet processor, which stores a battery   *)
(* report and then records it; the manager's device tick, which asks       *)
(* should_save() and saves afterwards, the tracker unlocked in between;    *)
(* and the saves of disconnect() and notify_transport_disconnected().      *)
(*                                                                         *)
(* A history is what Ring keeps, with the tail as far as iter() can tell   *)
(* it.  The study's `samples += count` is modelled by marking the samples  *)
(* that have been counted; of a drain rate only its existence is kept, and *)
(* the noise mode it is filed under is not.  Samples one step of `now`     *)
(* apart differ in their second.  An AirPods headset: the Nothing and CMF  *)
(* path neither opens a session nor records, so its histories stay empty.  *)
(***************************************************************************)
EXTENDS Naturals, Sequences, FiniteSets

CONSTANTS
    Level,          \* battery levels, in percent
    Charging,       \* the report of a bud that charges
    Absent,         \* the report of a bud that is not connected
    NoPacket,       \* the processor is recording nothing
    N,              \* BATTERY_HISTORY_SIZE
    MinToSave,      \* MIN_SAMPLES_TO_SAVE
    MinSamples,     \* calculate_local_drain_rate: MIN_SAMPLES
    Keep,           \* trim_history: KEEP_COUNT
    SaveInterval,   \* tick: minutes between saves
    MaxAge,         \* calculate_local_drain_rate: MAX_AGE_HOURS
    MaxTime         \* bound: how long the model's clock runs

ASSUME LevelAssumption == Level \subseteq Nat
ASSUME ReportAssumption == Charging # Absent /\ {Charging, Absent} \cap Level = {}
ASSUME SizeAssumption ==
    /\ {N, MinToSave, MinSamples, Keep, SaveInterval, MaxAge, MaxTime} \subseteq Nat
    /\ 1 < MinSamples /\ 0 < Keep /\ Keep < N

Side == {"left", "right"}
Report == Level \cup {Charging, Absent}
Packet == [Side -> Report]

ASSUME PacketAssumption == NoPacket \notin Packet

VARIABLES
    hist,       \* left_history and right_history
    charging,   \* the buds charging in the last stored report
    packet,     \* the report stored but not yet recorded
    reading,    \* a packet processor is alive
    connected,  \* is_connected
    saveDue,    \* the tick was told to save
    opening,    \* connect() has still to call init_session
    studied,    \* the study has a record of the headset
    now
vars == <<hist, charging, packet, reading, connected, saveDue, opening, studied, now>>

Sample == [time : 0..MaxTime, level : Level, counted : BOOLEAN]
Empty == [samples |-> <<>>, tail |-> 0]

BatteryTypeOK ==
    /\ hist \in [Side -> [samples : Seq(Sample), tail : 0..(N + 1)]]
    /\ charging \subseteq Side
    /\ packet \in Packet \cup {NoPacket}
    /\ {reading, connected, saveDue, opening, studied} \subseteq BOOLEAN
    /\ now \in 0..MaxTime

-----------------------------------------------------------------------------
(* One bud's history. *)

Newest(count, s) == SubSeq(s, Len(s) - count + 1, Len(s))

\* Ring::push: past N the oldest goes, and every larger tail is alike
Pushed(h, sample) ==
    [samples |-> Append(IF Len(h.samples) = N THEN Tail(h.samples) ELSE h.samples, sample),
     tail    |-> IF h.tail > N THEN h.tail ELSE h.tail + 1]

\* mutant: every report is a sample
RecordAll(h, level) == Pushed(h, [time |-> now, level |-> level, counted |-> FALSE])

\* BatteryHistory::record_battery_drop
RecordDrop(h, level) ==
    IF h.samples # <<>> /\ level >= h.samples[Len(h.samples)].level THEN h
    ELSE Pushed(h, [time |-> now, level |-> level, counted |-> FALSE])

\* mutant: a charging bud is ignored like an absent one
RecordedKeeping(h, report) ==
    IF report \in Level THEN RecordDrop(h, report) ELSE h

\* one bud of BatteryTracker::record_battery_drop
Recorded(h, report) ==
    CASE report = Absent   -> h
      [] report = Charging -> Empty
      [] OTHER             -> RecordDrop(h, report)

\* mutant: the wrong end is kept
TrimmedOldest(h) ==
    IF Len(h.samples) <= Keep THEN h
    ELSE [samples |-> SubSeq(h.samples, 1, Keep), tail |-> Keep]

\* mutant: off by one
TrimmedLater(h) ==
    IF Len(h.samples) <= Keep + 1 THEN h
    ELSE [samples |-> Newest(Keep, h.samples), tail |-> Keep]

\* trim_history
Trimmed(h) ==
    IF Len(h.samples) <= Keep THEN h
    ELSE [samples |-> Newest(Keep, h.samples), tail |-> Keep]

\* What iter() yields: nothing when exactly N have been pushed (see Ring)
Iterable(h) == IF h.tail = N THEN {} ELSE 1..Len(h.samples)

Fresh(h) == {k \in Iterable(h) : h.samples[k].time + MaxAge >= now}

\* calculate_drain_rate is Some: enough samples, and a slope.  Levels fall
\* strictly, so there is one unless all are of the same second.
HasRate(h) ==
    /\ Cardinality(Fresh(h)) >= MinSamples
    /\ \E i, j \in Fresh(h) : h.samples[i].time # h.samples[j].time

-----------------------------------------------------------------------------
(* The tracker. *)

\* calculate_local_drain_rate: the left history if it has a rate
Rated == IF HasRate(hist["left"]) THEN {"left"}
         ELSE {s \in {"right"} : HasRate(hist[s])}

Stamps == {hist[s].samples[1].time : s \in {r \in Side : Iterable(hist[r]) # {}}}

\* should_save
ShouldSave ==
    /\ \E s \in Side : Len(hist[s].samples) >= MinToSave
    /\ charging = {}
    /\ \E t \in Stamps : now - t >= SaveInterval

Counted(h) == [h EXCEPT !.samples = [k \in 1..Len(h.samples) |->
                                        [h.samples[k] EXCEPT !.counted = TRUE]]]

\* save_to_study: update_drain_rate counts the whole history that gave the
\* rate; then both are trimmed, whether or not anything was saved.
SaveToStudy ==
    LET saved == IF studied THEN Rated ELSE {} IN
    hist' = [s \in Side |-> Trimmed(IF s \in saved THEN Counted(hist[s]) ELSE hist[s])]

-----------------------------------------------------------------------------
Init ==
    /\ hist = [s \in Side |-> Empty]
    /\ charging = {}
    /\ packet = NoPacket
    /\ reading = FALSE /\ connected = FALSE /\ saveDue = FALSE
    /\ opening = FALSE /\ studied = FALSE
    /\ now = 0

\* connect() succeeds.  Nothing is awaited in the rest of it, but from here on
\* the processor runs, on another thread.
Connect ==
    /\ ~opening
    /\ opening' = TRUE /\ reading' = TRUE /\ connected' = TRUE
    /\ UNCHANGED <<hist, charging, packet, saveDue, studied, now>>

\* init_session: makes the record, unless there is no study or it fails
InitSession ==
    /\ opening
    /\ opening' = FALSE /\ studied' \in {studied, TRUE}
    /\ UNCHANGED <<hist, charging, packet, reading, connected, saveDue, now>>

\* process_packet, a battery report: update_battery_info ...
Receive(p) ==
    /\ reading /\ packet = NoPacket
    /\ packet' = p
    /\ charging' = {s \in Side : p[s] = Charging}
    /\ UNCHANGED <<hist, reading, connected, saveDue, opening, studied, now>>

\* ... and record_battery_drop, which skips nothing by is_updated(): a report
\* like the last one would be recorded to no effect.
Record ==
    /\ packet # NoPacket
    /\ hist' = [s \in Side |-> Recorded(hist[s], packet[s])]
    /\ packet' = NoPacket
    /\ UNCHANGED <<charging, reading, connected, saveDue, opening, studied, now>>

\* device.tick(): should_save ...
TickCheck ==
    /\ connected /\ ~saveDue /\ ShouldSave
    /\ saveDue' = TRUE
    /\ UNCHANGED <<hist, charging, packet, reading, connected, opening, studied, now>>

\* ... and save_to_study, the lock taken anew.
TickSave ==
    /\ saveDue
    /\ saveDue' = FALSE
    /\ SaveToStudy
    /\ UNCHANGED <<charging, packet, reading, connected, opening, studied, now>>

\* disconnect(), by the manager, which also ticks
Disconnect ==
    /\ ~saveDue
    /\ SaveToStudy
    /\ connected' = FALSE
    /\ UNCHANGED <<charging, packet, reading, saveDue, opening, studied, now>>

\* The processor's recv fails, also after disconnect() closed the transport:
\* notify_transport_disconnected() saves again.
TransportLost ==
    /\ reading /\ packet = NoPacket
    /\ SaveToStudy
    /\ reading' = FALSE
    /\ connected' = FALSE
    /\ UNCHANGED <<charging, packet, saveDue, opening, studied, now>>

TimePasses ==
    /\ now < MaxTime
    /\ now' = now + 1
    /\ UNCHANGED <<hist, charging, packet, reading, connected, saveDue, opening, studied>>

Next ==
    \/ Connect
    \/ InitSession
    \/ \E p \in Packet : Receive(p)
    \/ Record
    \/ TickCheck
    \/ TickSave
    \/ Disconnect
    \/ TransportLost
    \/ TimePasses

Spec == Init /\ [][Next]_vars

-----------------------------------------------------------------------------
(* A history is one discharge: over reports that go up and down, evictions, *)
(* trims and clears its levels fall strictly and its times never run back,  *)
(* which is what makes every slope a drain (battery_study.rs:126).          *)
Discharge(h) ==
    /\ Len(h.samples) <= N
    /\ \A k \in 1..Len(h.samples) : h.samples[k].time <= now
    /\ \A i, j \in 1..Len(h.samples) : i < j =>
          /\ h.samples[j].level < h.samples[i].level
          /\ h.samples[i].time <= h.samples[j].time

OneDischarge == \A s \in Side : Discharge(hist[s])

(* Nothing measured before a bud charged survives in its history, once the  *)
(* report is recorded (battery_study.rs:473), whatever was saved meanwhile. *)
ChargingForgets ==
    packet = NoPacket => \A s \in charging : hist[s].samples = <<>>

(* The newest level only falls until a charge clears it: no save, trim or   *)
(* eviction loses it, so no level is recorded twice (battery_study.rs:126). *)
NewestFalls ==
    [][\A s \in Side : hist[s].samples # <<>> /\ hist'[s].samples # <<>> =>
          hist'[s].samples[Len(hist'[s].samples)].level
             <= hist[s].samples[Len(hist[s].samples)].level]_vars

(* The study adds up "Total samples" (battery_study.rs:217), yet a save     *)
(* leaves counted samples behind: never more than the Keep oldest of a      *)
(* history, so a later save counts no more than Keep a second time.         *)
RecountBounded ==
    \A s \in Side : \A k \in 1..Len(hist[s].samples) :
        hist[s].samples[k].counted => k <= Keep
=============================================================================
