---------------------------- MODULE NothingFramer ----------------------------
(***************************************************************************)
(* Framer::push of nothing/protocol.rs, fed by reads that cut the stream   *)
(* anywhere.  Each turn of push()'s loop is a step.  The headset sends     *)
(* frames, frames with a byte damaged on the way, and noise.               *)
(***************************************************************************)
EXTENDS NothingFrame

CONSTANTS
    Sends,      \* the frames the headset has to send
    Noise,      \* sequences of bytes between frames
    MaxItems    \* bound: frames and noises in all

\* One byte of the frame arrives as another.
Damaged(f, k) == [Build(f) EXCEPT ![k] = (@ + 1) % 256]

ASSUME SendsAssumption == Sends \subseteq Frame /\ \A f \in Sends : Len(f.payload) \in Byte
\* A checksum has 16 bits, and tells one damaged byte after the header.
ASSUME CrcAssumption == \A f \in Sends : Crc(Body(f)) \in Word
ASSUME DamageAssumption ==
    \A f \in Sends : \A k \in (HeaderLen + 1)..Len(Build(f)) : ~Sound(Damaged(f, k))
ASSUME NoiseAssumption == Noise \subseteq Seq(Byte)
ASSUME MaxItemsAssumption == MaxItems \in Nat

VARIABLES
    wire,       \* every byte the headset has sent
    got,        \* how many of them were read
    buf,        \* Framer::buf
    busy,       \* inside push()
    frames,     \* the frames push() has returned
    items,      \* how many things were sent
    intact,     \* ghost: the frames sent that were not damaged
    clean       \* ghost: no header was damaged, and no noise had a start byte

vars == <<wire, got, buf, busy, frames, items, intact, clean>>

FramerTypeOK ==
    /\ wire \in Seq(Byte) /\ got \in 0..Len(wire)
    /\ buf \in Seq(Byte) /\ busy \in BOOLEAN
    /\ frames \in Seq(Frame) /\ intact \in Seq(Sends)
    /\ items \in 0..MaxItems /\ clean \in BOOLEAN

Init ==
    /\ wire = <<>> /\ got = 0 /\ buf = <<>> /\ busy = FALSE
    /\ frames = <<>> /\ items = 0 /\ intact = <<>> /\ clean = TRUE

-----------------------------------------------------------------------------
Send(bytes) ==
    /\ items < MaxItems
    /\ items' = items + 1
    /\ wire' = wire \o bytes
    /\ UNCHANGED <<got, buf, busy, frames>>

SendFrame(f) == Send(Build(f)) /\ intact' = Append(intact, f) /\ UNCHANGED clean

SendNoise(noise) ==
    /\ Send(noise)
    /\ clean' = (clean /\ FromStart(noise) = <<>>)
    /\ UNCHANGED intact

SendDamaged(f) ==
    /\ \E k \in 1..Len(Build(f)) :
          /\ Send(Damaged(f, k))
          /\ clean' = (clean /\ k > HeaderLen)
    /\ UNCHANGED intact

-----------------------------------------------------------------------------
\* recv_thread's read, and push() with what it brought
Read ==
    /\ ~busy
    /\ \E n \in (got + 1)..Len(wire) :
          got' = n /\ buf' = buf \o SubSeq(wire, got + 1, n)
    /\ busy' = TRUE
    /\ UNCHANGED <<wire, frames, items, intact, clean>>

\* mutant: what is incomplete is thrown away
AwaitClearing ==
    /\ busy
    /\ ~Whole(FromStart(buf))
    /\ buf' = <<>>
    /\ busy' = FALSE
    /\ UNCHANGED <<wire, got, frames, items, intact, clean>>

\* No start byte, or not all of a frame: what comes before it is dropped.
Await ==
    /\ busy
    /\ ~Whole(FromStart(buf))
    /\ buf' = FromStart(buf)
    /\ busy' = FALSE
    /\ UNCHANGED <<wire, got, frames, items, intact, clean>>

\* mutant: one frame for each push()
TakeOne ==
    LET s == FromStart(buf)
        raw == SubSeq(s, 1, TotalLen(s))
    IN  /\ busy
        /\ Whole(s)
        /\ buf' = SubSeq(s, TotalLen(s) + 1, Len(s))
        /\ frames' = IF Sound(raw) THEN Append(frames, FrameOf(raw)) ELSE frames
        /\ busy' = FALSE
        /\ UNCHANGED <<wire, got, items, intact, clean>>

\* mutant: a bad checksum makes it look for the next start byte in the frame
TakeResync ==
    LET s == FromStart(buf)
        raw == SubSeq(s, 1, TotalLen(s))
    IN  /\ busy
        /\ Whole(s)
        /\ buf' = SubSeq(s, IF Sound(raw) THEN TotalLen(s) + 1 ELSE 2, Len(s))
        /\ frames' = IF Sound(raw) THEN Append(frames, FrameOf(raw)) ELSE frames
        /\ UNCHANGED <<wire, got, busy, items, intact, clean>>

\* A whole frame is drained, and kept unless its checksum is wrong.
Take ==
    LET s == FromStart(buf)
        raw == SubSeq(s, 1, TotalLen(s))
    IN  /\ busy
        /\ Whole(s)
        /\ buf' = SubSeq(s, TotalLen(s) + 1, Len(s))
        /\ frames' = IF Sound(raw) THEN Append(frames, FrameOf(raw)) ELSE frames
        /\ UNCHANGED <<wire, got, busy, items, intact, clean>>

Next ==
    \/ \E f \in Sends : SendFrame(f) \/ SendDamaged(f)
    \/ \E noise \in Noise : SendNoise(noise)
    \/ Read \/ Await \/ Take

Spec == Init /\ [][Next]_vars

-----------------------------------------------------------------------------
(* Between reads nothing that is complete is held back, and what is held is *)
(* the beginning of one frame: the buffer cannot grow past a frame's size   *)
(* (protocol.rs:50, 57).                                                    *)
NothingHeldBack ==
    ~busy /\ buf # <<>> =>
        /\ buf[1] = FrameStart
        /\ ~Whole(buf)
        /\ Len(buf) < HeaderLen + 255 + CrcLen

(* Once everything sent was read, exactly the frames that arrived intact    *)
(* were returned, in order: neither noise nor a frame dropped for its       *)
(* checksum (protocol.rs:70) costs a neighbour, wherever reads cut them.    *)
(* Not so once a header was damaged or noise looked like one: a wrong       *)
(* length swallows what follows, a wrong kind turns the check off.          *)
IntactReturned == ~busy /\ got = Len(wire) /\ clean => frames = intact

(* The frames found depend on the bytes and not on how reads cut them.      *)
Stream == INSTANCE FrameStream WITH
    received <- SubSeq(wire, 1, got), pos <- got - Len(buf)
RefinesStream == Stream!StreamSpec
=============================================================================
