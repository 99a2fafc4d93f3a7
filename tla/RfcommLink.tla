------------------------------ MODULE RfcommLink ------------------------------
(***************************************************************************)
(* How a Nothing/CMF headset is reached: connect() of nothing/device.rs    *)
(* tries channel after channel over bluetooth/rfcomm.rs until one answers  *)
(* a battery request with a frame, once more if Fast Pair answered.  Every *)
(* socket has a thread that opens it and then two that read and write it.  *)
(* They are blocking threads: neither a time limit nor abort_all() stops   *)
(* one that runs, so they outlive the attempt that started them.           *)
(*                                                                         *)
(* The attempt runs under the write lock of AirPods::conn; the slot is     *)
(* full exactly while at = "linked".                                       *)
(***************************************************************************)
EXTENDS Naturals, Sequences, FiniteSets

CONSTANTS
    Channels,   \* how many RFCOMM channels are tried, from 1
    Sock,       \* identities of sockets; a bound on how many are open
    Room,       \* bound: packets between a reading thread and its receiver (128)
    MaxLeaks,   \* bound: descriptors leaked
    None

ASSUME ChannelsAssumption == Channels \in Nat \ {0}
ASSUME RoomAssumption == Room \in Nat \ {0}
ASSUME LeaksAssumption == MaxLeaks \in Nat
ASSUME NoneAssumption == None \notin Sock

VARIABLES
    at,         \* where connect() is; "linked": its connection is stored
    pass, chan, \* its loops
    sawFastPair,\* saw_fastpair
    cut,        \* ghost: the last attempt was cut off
    held,       \* ghost: channels of this attempt refused to it because an
                \* earlier socket is still open on them
    cur,        \* the socket of the attempt or of the stored connection
    sock,       \* every socket
    prompt      \* channels of the control protocol that always answer in time

attemptVars == <<at, pass, chan, sawFastPair, cut, held, cur>>
vars == <<attemptVars, sock, prompt>>

Channel == 1..Channels
Packet == {"frame", "part", "fastpair", "error"}

\* opener, reader, writer: threads, or what an opener left behind; tx, rx: the
\* sender and the receiver are alive; proc: rx is the packet processor's;
\* inbox: packets on their way to rx
Socket == [chan : Channel \cup {0}, opener : {"no", "running", "leaked"},
           reader : {"no", "queued", "running"}, writer : {"no", "queued", "running"},
           tx : BOOLEAN, rx : BOOLEAN, proc : BOOLEAN, inbox : Seq(Packet)]

Closed == [chan |-> 0, opener |-> "no", reader |-> "no", writer |-> "no",
           tx |-> FALSE, rx |-> FALSE, proc |-> FALSE, inbox |-> <<>>]

RfcommTypeOK ==
    /\ at \in {"idle", "opening", "sending", "probing", "requesting", "linked", "failed"}
    /\ pass \in {0, 1} /\ chan \in Channel
    /\ {sawFastPair, cut} \subseteq BOOLEAN
    /\ held \subseteq Channel /\ prompt \subseteq Channel
    /\ cur \in Sock \cup {None}
    /\ sock \in [Sock -> Socket]
    /\ \A s \in Sock : Len(sock[s].inbox) <= Room

Trying == at \in {"opening", "sending", "probing", "requesting"}

-----------------------------------------------------------------------------
\* The descriptors are closed when the last thread and handle are gone.
Settle(r) ==
    IF r.opener = "no" /\ r.reader = "no" /\ r.writer = "no" /\ ~r.rx THEN Closed ELSE r

Set(s, r) == [sock EXCEPT ![s] = Settle(r)]

\* JoinSet dropped: of the threads only those that have not begun are aborted.
Aborted(thread) == IF thread = "queued" THEN "no" ELSE thread

\* Receiver, sender and JoinSet of a channel that is given up.
Dropped(r) ==
    [r EXCEPT !.tx = FALSE, !.rx = FALSE, !.inbox = <<>>,
              !.reader = Aborted(@), !.writer = Aborted(@)]

\* rfcomm::connect for channel c: spawn_blocking(connect_blocking)
Opening(c) == [Closed EXCEPT !.chan = c, !.opener = "running"]

Open(g, s, c) ==
    /\ g[s] = Closed
    /\ sock' = [g EXCEPT ![s] = Opening(c)]
    /\ at' = "opening" /\ cur' = s /\ chan' = c

\* mutant: the last channel is left out
AdvanceShort(g, saw) ==
    /\ sawFastPair' = saw
    /\ IF chan + 1 < Channels \/ (pass = 0 /\ saw)
       THEN /\ \E s \in Sock : Open(g, s, IF chan + 1 < Channels THEN chan + 1 ELSE 1)
            /\ pass' = IF chan + 1 < Channels THEN pass ELSE 1
       ELSE /\ sock' = g
            /\ at' = "failed" /\ cur' = None
            /\ UNCHANGED <<pass, chan>>

\* On to the next channel; to a second pass if Fast Pair answered; or failed.
Advance(g, saw) ==
    /\ sawFastPair' = saw
    /\ IF chan < Channels \/ (pass = 0 /\ saw)
       THEN /\ \E s \in Sock : Open(g, s, IF chan < Channels THEN chan + 1 ELSE 1)
            /\ pass' = IF chan < Channels THEN pass ELSE 1
       ELSE /\ sock' = g
            /\ at' = "failed" /\ cur' = None
            /\ UNCHANGED <<pass, chan>>

GiveUp(saw) == Advance(Set(cur, Dropped(sock[cur])), saw)

Init ==
    /\ at = "idle" /\ pass = 0 /\ chan = 1
    /\ sawFastPair = FALSE /\ cut = FALSE /\ held = {}
    /\ cur = None
    /\ sock = [s \in Sock |-> Closed]
    /\ prompt \in SUBSET Channel

-----------------------------------------------------------------------------
(* connect().                                                               *)

Begin ==
    /\ at \in {"idle", "failed"}
    /\ \E s \in Sock : Open(sock, s, 1)
    /\ pass' = 0 /\ sawFastPair' = FALSE /\ cut' = FALSE /\ held' = {}
    /\ UNCHANGED prompt

\* An earlier socket on the channel is still open, or being opened.
Occupied(s) ==
    \E o \in Sock \ {s} :
        /\ sock[o].chan = sock[s].chan
        /\ ~(sock[o].opener = "no" /\ sock[o].reader = "no" /\ sock[o].writer = "no")

\* connect_blocking succeeds; if nobody waits for it any more, its file is dropped.
OpenerConnects(s) ==
    /\ sock[s].opener = "running"
    /\ IF at = "opening" /\ cur = s
       THEN /\ sock' = [sock EXCEPT ![s] = [@ EXCEPT !.opener = "no", !.tx = TRUE,
                             !.rx = TRUE, !.reader = "queued", !.writer = "queued"]]
            /\ at' = "sending"
       ELSE sock' = [sock EXCEPT ![s] = Closed] /\ UNCHANGED at
    /\ UNCHANGED <<pass, chan, sawFastPair, cut, held, cur, prompt>>

\* connect() refuses at once and the socket is closed, as on an occupied
\* channel; but when the wait for the peer fails its descriptor is leaked.
Leftovers(s) ==
    {Closed} \cup
    {l \in {[Closed EXCEPT !.chan = sock[s].chan, !.opener = "leaked"]} :
        /\ sock[s].chan \notin prompt
        /\ Cardinality({o \in Sock : sock[o].opener = "leaked"}) < MaxLeaks}

\* ... or fails, after 8 s at the latest
OpenerFails(s) ==
    /\ sock[s].opener = "running"
    /\ sock[s].chan \in prompt => Occupied(s)
    /\ \E left \in Leftovers(s) :
          IF at = "opening" /\ cur = s
          THEN /\ Advance([sock EXCEPT ![s] = left], sawFastPair)
               /\ held' = IF Occupied(s) THEN held \cup {chan} ELSE held
          ELSE sock' = [sock EXCEPT ![s] = left]
               /\ UNCHANGED <<at, pass, chan, sawFastPair, held, cur>>
    /\ UNCHANGED <<cut, prompt>>

\* The time limit around the thread comes first; the thread goes on.
OpenTimesOut ==
    /\ at = "opening" /\ chan \notin prompt
    /\ Advance(sock, sawFastPair)
    /\ UNCHANGED <<cut, held, prompt>>

\* sender.send(&probe): answered by the writing thread
ProbeWritten ==
    /\ at = "sending" /\ sock[cur].writer = "running"
    /\ at' = "probing"
    /\ UNCHANGED <<pass, chan, sawFastPair, cut, held, cur, sock, prompt>>

\* ... with an error, or not within 10 s
ProbeFails ==
    /\ at = "sending" /\ chan \notin prompt
    /\ GiveUp(sawFastPair)
    /\ UNCHANGED <<cut, held, prompt>>

\* The first packet decides: one that holds no whole frame is no answer.
FirstPacket ==
    /\ at = "probing" /\ sock[cur].inbox # <<>>
    /\ IF Head(sock[cur].inbox) = "frame"
       THEN /\ at' = "requesting"
            /\ sock' = [sock EXCEPT ![cur].inbox = Tail(@)]
            /\ UNCHANGED <<pass, chan, sawFastPair, cur>>
       ELSE GiveUp(sawFastPair \/ Head(sock[cur].inbox) = "fastpair")
    /\ UNCHANGED <<cut, held, prompt>>

ProbeTimesOut ==
    /\ at = "probing" /\ sock[cur].inbox = <<>> /\ chan \notin prompt
    /\ GiveUp(sawFastPair)
    /\ UNCHANGED <<cut, held, prompt>>

\* request_initial_state; the processor is spawned and the connection stored
Linked ==
    /\ at = "requesting"
    /\ at' = "linked"
    /\ sock' = [sock EXCEPT ![cur].proc = TRUE]
    /\ UNCHANGED <<pass, chan, sawFastPair, cut, held, cur, prompt>>

\* The task around connect() is aborted, or its 30 s are over.
CutOff ==
    /\ Trying
    /\ sock' = Set(cur, Dropped(sock[cur]))
    /\ at' = "failed" /\ cur' = None /\ cut' = TRUE
    /\ UNCHANGED <<pass, chan, sawFastPair, held, prompt>>

-----------------------------------------------------------------------------
(* The stored connection: disconnect() and the packet processors.           *)

\* Sender and JoinSet are dropped; the receiver is the processor's.
Taken(r) == [r EXCEPT !.tx = FALSE, !.reader = Aborted(@), !.writer = Aborted(@)]

Disconnect ==
    /\ at = "linked"
    /\ sock' = Set(cur, Taken(sock[cur]))
    /\ at' = "idle" /\ cur' = None
    /\ UNCHANGED <<pass, chan, sawFastPair, cut, held, prompt>>

ProcessorReads(s) ==
    /\ sock[s].proc /\ sock[s].inbox # <<>> /\ Head(sock[s].inbox) # "error"
    /\ sock' = [sock EXCEPT ![s].inbox = Tail(@)]
    /\ UNCHANGED <<attemptVars, prompt>>

\* notify_transport_disconnected: with the lock, whatever is stored is taken.
ProcessorEnds(s) ==
    /\ sock[s].proc /\ sock[s].inbox # <<>> /\ Head(sock[s].inbox) = "error"
    /\ ~Trying
    /\ LET over == [sock[s] EXCEPT !.rx = FALSE, !.proc = FALSE, !.inbox = <<>>] IN
       IF at = "linked"
       THEN /\ sock' = IF cur = s THEN Set(s, Taken(over))
                       ELSE [sock EXCEPT ![s] = Settle(over), ![cur] = Taken(@)]
            /\ at' = "idle" /\ cur' = None
       ELSE sock' = Set(s, over) /\ UNCHANGED <<at, cur>>
    /\ UNCHANGED <<pass, chan, sawFastPair, cut, held, prompt>>

-----------------------------------------------------------------------------
(* The threads and the headset.                                             *)

ThreadStarts(s) ==
    /\ \/ sock[s].reader = "queued" /\ sock' = [sock EXCEPT ![s].reader = "running"]
       \/ sock[s].writer = "queued" /\ sock' = [sock EXCEPT ![s].writer = "running"]
    /\ UNCHANGED <<attemptVars, prompt>>

\* mutant: the thread waits for the socket to close
WriterEndsLate(s) ==
    /\ sock[s].writer = "running" /\ ~sock[s].tx
    /\ sock' = IF sock[s].reader = "running" THEN Set(s, [sock[s] EXCEPT !.writer = "no"]) ELSE sock
    /\ UNCHANGED <<attemptVars, prompt>>

\* send_thread: every sender is gone
WriterEnds(s) ==
    /\ sock[s].writer = "running" /\ ~sock[s].tx
    /\ sock' = Set(s, [sock[s] EXCEPT !.writer = "no"])
    /\ UNCHANGED <<attemptVars, prompt>>

\* mutant: the channel has always room
ReceivedBeyond(s, packet, goesOn) ==
    /\ sock[s].reader = "running"
    /\ \/ /\ sock[s].rx
          /\ sock' = [sock EXCEPT ![s].inbox = Append(@, packet),
                                  ![s].reader = IF goesOn THEN @ ELSE "no"]
       \/ ~sock[s].rx /\ sock' = Set(s, [sock[s] EXCEPT !.reader = "no"])
    /\ UNCHANGED <<attemptVars, prompt>>

\* recv_thread passes a packet on; it ends if the receiver is gone.
Received(s, packet, goesOn) ==
    /\ sock[s].reader = "running"
    /\ \/ /\ sock[s].rx /\ Len(sock[s].inbox) < Room
          /\ sock' = [sock EXCEPT ![s].inbox = Append(@, packet),
                                  ![s].reader = IF goesOn THEN @ ELSE "no"]
       \/ ~sock[s].rx /\ sock' = Set(s, [sock[s] EXCEPT !.reader = "no"])
    /\ UNCHANGED <<attemptVars, prompt>>

Probed(s) == cur = s /\ at \in {"sending", "probing"}

\* Data: from a prompt channel only frames, and only once it was asked.
PeerSends(s) ==
    \E packet \in {"frame", "part", "fastpair"} :
        /\ sock[s].chan \in prompt => packet = "frame" /\ ~(cur = s /\ at = "sending")
        /\ Received(s, packet, TRUE)

\* mutant: the thread ends without a word
PeerClosesSilently(s) ==
    /\ sock[s].reader = "running"
    /\ ~(sock[s].chan \in prompt /\ Probed(s))
    /\ sock' = Set(s, [sock[s] EXCEPT !.reader = "no"])
    /\ UNCHANGED <<attemptVars, prompt>>

\* The end of the stream or an error of the socket
PeerCloses(s) ==
    /\ ~(sock[s].chan \in prompt /\ Probed(s))
    /\ Received(s, "error", FALSE)

AttemptStep ==
    \/ Begin \/ OpenTimesOut \/ ProbeWritten \/ ProbeFails \/ FirstPacket
    \/ ProbeTimesOut \/ Linked \/ CutOff

SocketStep(s) ==
    \/ OpenerConnects(s) \/ OpenerFails(s) \/ ThreadStarts(s) \/ WriterEnds(s)
    \/ PeerSends(s) \/ PeerCloses(s) \/ ProcessorReads(s) \/ ProcessorEnds(s)

Next == AttemptStep \/ Disconnect \/ \E s \in Sock : SocketStep(s)

SafeSpec == Init /\ [][Next]_vars

\* Threads and tasks run, opening a socket ends within 8 s and an attempt
\* within 30 s.  The lock is FIFO, so a processor that waits for it gets it.
\* Users and the headset owe nothing.
Fairness ==
    /\ WF_vars(CutOff)
    /\ \A s \in Sock : /\ WF_vars(OpenerConnects(s) \/ OpenerFails(s))
                       /\ WF_vars(ThreadStarts(s)) /\ WF_vars(WriterEnds(s))
                       /\ WF_vars(ProcessorReads(s)) /\ SF_vars(ProcessorEnds(s))

Spec == SafeSpec /\ Fairness

-----------------------------------------------------------------------------
(* connect() does not pass over a channel that would have answered          *)
(* (nothing/device.rs:124): it fails, if it is not cut off, only when every *)
(* control channel was closed to it by a socket of an earlier attempt that  *)
(* a blocking thread keeps open or is still opening.                        *)
FailsForCause == at = "failed" /\ ~cut => prompt \subseteq held

(* A stored connection hears of its loss: its processor is there, and its   *)
(* reading thread runs or its last word waits to be processed               *)
(* (rfcomm.rs:272).                                                         *)
LossHeard ==
    at = "linked" =>
        /\ sock[cur].proc
        /\ \/ sock[cur].reader = "running"
           \/ \E k \in DOMAIN sock[cur].inbox : sock[cur].inbox[k] = "error"

(* A socket that is given up is closed once its reading thread has come to  *)
(* an end: no writing thread or processor keeps it (rfcomm.rs:300), nor an  *)
(* opener that comes through too late.  Only one whose wait for the peer    *)
(* fails leaves its socket open for good (rfcomm.rs:191).                   *)
GivenUp(s) == sock[s] # Closed /\ cur # s /\ sock[s].reader = "no"
AbandonedClosed ==
    \A s \in Sock : GivenUp(s) ~> (sock[s] = Closed \/ sock[s].opener = "leaked")
===============================================================================
