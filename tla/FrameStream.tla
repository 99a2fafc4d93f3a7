----------------------------- MODULE FrameStream -----------------------------
(***************************************************************************)
(* What Framer promises: how a stream is cut into frames depends on its    *)
(* bytes alone, not on the reads that bring them.  The position moves over *)
(* bytes that start no frame, and over whole frames; it waits before one   *)
(* that is not all there.                                                  *)
(***************************************************************************)
EXTENDS NothingFrame

VARIABLES
    received,   \* every byte that was read
    pos,        \* how many of them are dealt with
    frames      \* the frames found

streamVars == <<received, pos, frames>>

Rest == SubSeq(received, pos + 1, Len(received))

StreamInit == received = <<>> /\ pos = 0 /\ frames = <<>>

Receive ==
    /\ Len(received) <= Len(received')
    /\ SubSeq(received', 1, Len(received)) = received
    /\ UNCHANGED <<pos, frames>>

Skip ==
    /\ pos' = Len(received) - Len(FromStart(Rest))
    /\ UNCHANGED <<received, frames>>

Take ==
    LET s == FromStart(Rest)
        raw == SubSeq(s, 1, TotalLen(s))
    IN  /\ Whole(s)
        /\ pos' = Len(received) - Len(s) + TotalLen(s)
        /\ frames' = IF Sound(raw) THEN Append(frames, FrameOf(raw)) ELSE frames
        /\ UNCHANGED received

StreamNext == Receive \/ Skip \/ Take

StreamSpec == StreamInit /\ [][StreamNext]_streamVars
=============================================================================
