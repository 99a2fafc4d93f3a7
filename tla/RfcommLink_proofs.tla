--------------------------- MODULE RfcommLink_proofs ---------------------------
(* An attempt fails only for a cause and a stored connection hears of its     *)
(* loss, for any channels, sockets and room.                                  *)
EXTENDS RfcommLink, SequenceTheorems, TLAPS

Sized == {r \in Socket : Len(r.inbox) <= Room}

Sockets == [Sock -> Sized]

ErrorIn(q) == \E k \in DOMAIN q : q[k] = "error"

(* The socket the attempt or the stored connection has in hand: its reading  *)
(* thread has not begun, runs, or has said that it is over.                  *)
InHand(r) ==
    /\ r.opener = "no" /\ r.tx /\ r.rx
    /\ r.reader = "queued" => r.inbox = <<>>
    /\ r.reader = "no" => ErrorIn(r.inbox)

(* The current socket in each phase; a channel that always answers in time   *)
(* has sent nothing but frames.                                              *)
Sound(r) ==
    /\ r.chan = chan
    /\ at = "opening" => r = Opening(chan)
    /\ at # "opening" => InHand(r)
    /\ at \in {"requesting", "linked"} => r.reader # "queued"
    /\ at = "linked" => r.proc
    /\ at \in {"sending", "probing"} /\ chan \in prompt =>
          \A k \in DOMAIN r.inbox : r.inbox[k] = "frame"

CurrentSound == Trying \/ at = "linked" => cur \in Sock /\ Sound(sock[cur])

(* A channel that always answers is passed over only if an earlier socket kept it.          *)
PassedOver ==
    Trying => \A c \in prompt : pass = 1 \/ c < chan => c \in held

LinkInv == RfcommTypeOK /\ CurrentSound /\ PassedOver /\ FailsForCause

-----------------------------------------------------------------------------
(* Types.                                                                    *)

LEMMA TypesSized == RfcommTypeOK <=>
    /\ at \in {"idle", "opening", "sending", "probing", "requesting", "linked", "failed"}
    /\ pass \in {0, 1} /\ chan \in Channel
    /\ {sawFastPair, cut} \subseteq BOOLEAN
    /\ held \subseteq Channel /\ prompt \subseteq Channel
    /\ cur \in Sock \cup {None}
    /\ sock \in Sockets
BY DEF RfcommTypeOK, Sockets, Sized

LEMMA TypesSizedAfter == RfcommTypeOK' <=>
    /\ at' \in {"idle", "opening", "sending", "probing", "requesting", "linked", "failed"}
    /\ pass' \in {0, 1} /\ chan' \in Channel
    /\ {sawFastPair', cut'} \subseteq BOOLEAN
    /\ held' \subseteq Channel /\ prompt' \subseteq Channel
    /\ cur' \in Sock \cup {None}
    /\ sock' \in Sockets
BY DEF RfcommTypeOK, Sockets, Sized

LEMMA EmptyInbox == <<>> \in Seq(Packet) /\ Len(<<>>) = 0 /\ Len(<<>>) <= Room
BY RoomAssumption, EmptySeq

LEMMA ClosedSized == Closed \in Sized
BY EmptyInbox DEF Closed, Sized, Socket, Packet

LEMMA OpeningSized ==
    ASSUME NEW c \in Channel
    PROVE  Opening(c) \in Sized
BY EmptyInbox DEF Opening, Closed, Sized, Socket, Packet

(* What a failed opener leaves.                                              *)
LEMMA LeftoversSized ==
    ASSUME sock \in Sockets, NEW s \in Sock, NEW left \in Leftovers(s)
    PROVE  left \in Sized
<1>1. sock[s].chan \in Channel \cup {0}
    BY DEF Sockets, Sized, Socket
<1>2. [Closed EXCEPT !.chan = sock[s].chan, !.opener = "leaked"] \in Sized
    BY <1>1, EmptyInbox DEF Closed, Sized, Socket, Packet
<1> QED BY <1>2, ClosedSized DEF Leftovers

LEMMA SettleSized ==
    ASSUME NEW r \in Sized
    PROVE  Settle(r) \in Sized
BY ClosedSized DEF Settle

LEMMA DroppedSized ==
    ASSUME NEW r \in Sized
    PROVE  Dropped(r) \in Sized
BY EmptyInbox DEF Dropped, Aborted, Sized, Socket

LEMMA TakenSized ==
    ASSUME NEW r \in Sized
    PROVE  Taken(r) \in Sized
BY DEF Taken, Aborted, Sized, Socket

LEMMA SetSockets ==
    ASSUME sock \in Sockets, NEW s \in Sock, NEW r \in Sized
    PROVE  /\ Set(s, r) \in Sockets
           /\ Set(s, r)[s] = Settle(r)
           /\ \A o \in Sock \ {s} : Set(s, r)[o] = sock[o]
BY SettleSized DEF Set, Sockets

LEMMA TailSized ==
    ASSUME NEW r \in Sized, r.inbox # <<>>
    PROVE  /\ [r EXCEPT !.inbox = Tail(@)] \in Sized
           /\ Len(Tail(r.inbox)) = Len(r.inbox) - 1
           /\ \A k \in 1..(Len(r.inbox) - 1) : Tail(r.inbox)[k] = r.inbox[k + 1]
<1>1. r.inbox \in Seq(Packet) /\ Len(r.inbox) \in Nat /\ Len(r.inbox) <= Room
    BY LenProperties DEF Sized, Socket
<1>2. Tail(r.inbox) \in Seq(Packet) /\ Len(Tail(r.inbox)) = Len(r.inbox) - 1
      /\ \A k \in 1..(Len(r.inbox) - 1) : Tail(r.inbox)[k] = r.inbox[k + 1]
    BY <1>1, HeadTailProperties
<1>3. Len(Tail(r.inbox)) <= Room
    BY <1>1, <1>2, RoomAssumption
<1> QED BY <1>2, <1>3 DEF Sized, Socket

LEMMA AppendSized ==
    ASSUME NEW r \in Sized, NEW packet \in Packet, Len(r.inbox) < Room,
           NEW reader \in {"no", "queued", "running"}
    PROVE  /\ [r EXCEPT !.inbox = Append(@, packet), !.reader = reader] \in Sized
           /\ Len(Append(r.inbox, packet)) = Len(r.inbox) + 1
           /\ \A k \in 1..Len(r.inbox) : Append(r.inbox, packet)[k] = r.inbox[k]
           /\ Append(r.inbox, packet)[Len(r.inbox) + 1] = packet
<1>1. r.inbox \in Seq(Packet) /\ Len(r.inbox) \in Nat
    BY LenProperties DEF Sized, Socket
<1>2. /\ Append(r.inbox, packet) \in Seq(Packet)
      /\ Len(Append(r.inbox, packet)) = Len(r.inbox) + 1
      /\ \A k \in 1..Len(r.inbox) : Append(r.inbox, packet)[k] = r.inbox[k]
      /\ Append(r.inbox, packet)[Len(r.inbox) + 1] = packet
    BY <1>1, AppendProperties
<1>3. Len(Append(r.inbox, packet)) <= Room
    BY <1>1, <1>2, RoomAssumption
<1> QED BY <1>2, <1>3 DEF Sized, Socket

LEMMA InboxDomain ==
    ASSUME NEW r \in Sized
    PROVE  DOMAIN r.inbox = 1..Len(r.inbox) /\ Len(r.inbox) \in Nat /\ r.inbox \in Seq(Packet)
BY LenProperties DEF Sized, Socket

(* What a reading thread has said last is not lost to a packet taken before. *)
LEMMA ErrorStays ==
    ASSUME NEW r \in Sized, r.inbox # <<>>, Head(r.inbox) # "error", ErrorIn(r.inbox)
    PROVE  ErrorIn(Tail(r.inbox))
<1>1. r.inbox \in Seq(Packet) /\ Len(r.inbox) \in Nat /\ DOMAIN r.inbox = 1..Len(r.inbox)
    BY InboxDomain
<1>2. PICK k \in 1..Len(r.inbox) : r.inbox[k] = "error"
    BY <1>1 DEF ErrorIn
<1>3. k # 1
    BY <1>1, <1>2
<1>4. k - 1 \in 1..(Len(r.inbox) - 1) /\ (k - 1) + 1 = k
    BY <1>1, <1>2, <1>3
<1>5. Tail(r.inbox)[k - 1] = "error" /\ DOMAIN Tail(r.inbox) = 1..(Len(r.inbox) - 1)
    <2>1. [r EXCEPT !.inbox = Tail(@)] \in Sized
        BY TailSized
    <2>2. DOMAIN Tail(r.inbox) = 1..Len(Tail(r.inbox))
        BY <2>1, InboxDomain, <1>1 DEF Sized, Socket
    <2> QED BY <1>2, <1>4, <2>2, TailSized
<1> QED BY <1>4, <1>5 DEF ErrorIn

-----------------------------------------------------------------------------
(* Going on to the next channel.                                             *)

(* The attempt passes over its channel only if that does not answer in time  *)
(* or was kept from it; then every channel it has passed was.                *)
LEMMA AdvanceKeeps ==
    ASSUME LinkInv, Trying, NEW g \in Sockets, NEW saw \in BOOLEAN, Advance(g, saw),
           prompt' = prompt, cut' = cut, held' \subseteq Channel, held \subseteq held',
           chan \in prompt => chan \in held'
    PROVE  LinkInv'
<1>1. /\ pass \in {0, 1} /\ chan \in Channel /\ prompt \subseteq Channel
      /\ {sawFastPair, cut} \subseteq BOOLEAN /\ sock \in Sockets
    BY TypesSized DEF LinkInv
<1>2. Channels \in Nat /\ Channels > 0 /\ chan \in Nat /\ 1 <= chan /\ chan <= Channels
      /\ Channel \subseteq Nat
    BY <1>1, ChannelsAssumption DEF Channel
<1>3. \A c \in prompt : pass = 1 \/ c <= chan => c \in held'
    <2>1. \A c \in prompt : pass = 1 \/ c < chan => c \in held
        BY DEF LinkInv, PassedOver
    <2>2. \A c \in prompt : c <= chan => c < chan \/ c = chan
        BY <1>1, <1>2
    <2> QED BY <2>1, <2>2
<1>4. \A c \in prompt : c <= Channels
    BY <1>1, <1>2, ChannelsAssumption DEF Channel
<1>5. CASE chan < Channels \/ (pass = 0 /\ saw)
    <2> DEFINE c1 == IF chan < Channels THEN chan + 1 ELSE 1
    <2>1. PICK s \in Sock : Open(g, s, c1)
        BY <1>5 DEF Advance
    <2>2. sawFastPair' = saw /\ pass' = IF chan < Channels THEN pass ELSE 1
        BY <1>5 DEF Advance
    <2>3. c1 \in Channel
        BY <1>2 DEF Channel
    <2>4. sock' = [g EXCEPT ![s] = Opening(c1)] /\ at' = "opening" /\ cur' = s /\ chan' = c1
        BY <2>1 DEF Open
    <2>5. sock' \in Sockets /\ sock'[s] = Opening(c1)
        BY <2>3, <2>4, OpeningSized DEF Sockets
    <2>6. RfcommTypeOK'
        BY <1>1, <2>2, <2>3, <2>4, <2>5, TypesSizedAfter
    <2>7. CurrentSound'
        <3>1. Opening(c1).chan = c1
            BY DEF Opening, Closed
        <3> QED BY <2>4, <2>5, <3>1 DEF CurrentSound, Sound
    <2>8. PassedOver'
        <3>1. CASE chan < Channels
            <4>1. pass' = pass /\ chan' = chan + 1
                BY <2>2, <2>4, <3>1
            <4>2. \A c \in prompt : c < chan + 1 => c <= chan
                BY <1>1, <1>2
            <4> QED BY <1>3, <4>1, <4>2 DEF PassedOver
        <3>2. CASE ~(chan < Channels)
            <4>1. \A c \in prompt : c <= chan
                BY <1>2, <1>4, <3>2
            <4> QED BY <1>3, <4>1 DEF PassedOver
        <3> QED BY <3>1, <3>2
    <2>9. FailsForCause'
        BY <2>4 DEF FailsForCause
    <2> QED BY <2>6, <2>7, <2>8, <2>9 DEF LinkInv
<1>6. CASE ~(chan < Channels \/ (pass = 0 /\ saw))
    <2>1. sawFastPair' = saw /\ sock' = g /\ at' = "failed" /\ cur' = None
          /\ pass' = pass /\ chan' = chan
        BY <1>6 DEF Advance
    <2>2. RfcommTypeOK'
        BY <1>1, <2>1, TypesSizedAfter
    <2>3. \A c \in prompt : c <= chan
        BY <1>2, <1>4, <1>6
    <2>4. FailsForCause'
        BY <1>3, <2>3 DEF FailsForCause
    <2>5. CurrentSound' /\ PassedOver'
        BY <2>1 DEF CurrentSound, PassedOver, Trying
    <2> QED BY <2>2, <2>4, <2>5 DEF LinkInv
<1> QED BY <1>5, <1>6

LEMMA GiveUpKeeps ==
    ASSUME LinkInv, Trying, NEW saw \in BOOLEAN, GiveUp(saw), prompt' = prompt, cut' = cut,
           held' = held, chan \notin prompt
    PROVE  LinkInv'
<1>1. cur \in Sock /\ sock \in Sockets /\ held \subseteq Channel
    BY TypesSized DEF LinkInv, CurrentSound
<1>2. Dropped(sock[cur]) \in Sized
    BY <1>1, DroppedSized DEF Sockets
<1>3. Set(cur, Dropped(sock[cur])) \in Sockets
    BY <1>1, <1>2, SetSockets
<1>4. Advance(Set(cur, Dropped(sock[cur])), saw)
    BY DEF GiveUp
<1> QED BY <1>1, <1>3, <1>4, AdvanceKeeps

-----------------------------------------------------------------------------
(* Steps of one socket that leave the attempt where it is.                   *)

LEMMA SocketKeeps ==
    ASSUME LinkInv, UNCHANGED <<attemptVars, prompt>>, sock' \in Sockets,
           NEW s \in Sock, \A o \in Sock \ {s} : sock'[o] = sock[o],
           (Trying \/ at = "linked") /\ cur = s => Sound(sock'[s])
    PROVE  LinkInv'
<1>1. at' = at /\ pass' = pass /\ chan' = chan /\ sawFastPair' = sawFastPair /\ cut' = cut
      /\ held' = held /\ cur' = cur /\ prompt' = prompt
    BY DEF attemptVars
<1>2. RfcommTypeOK'
    BY <1>1, TypesSized, TypesSizedAfter DEF LinkInv
<1>3. CurrentSound'
    <2>1. SUFFICES ASSUME Trying \/ at = "linked" PROVE cur \in Sock /\ Sound(sock'[cur])
        BY <1>1 DEF CurrentSound, Trying, Sound
    <2>2. cur \in Sock /\ Sound(sock[cur])
        BY <2>1 DEF LinkInv, CurrentSound
    <2> QED BY <2>1, <2>2
<1>4. PassedOver' /\ FailsForCause'
    BY <1>1 DEF LinkInv, PassedOver, Trying, FailsForCause
<1> QED BY <1>2, <1>3, <1>4 DEF LinkInv

LEMMA ThreadStartsKeeps ==
    ASSUME LinkInv, NEW s \in Sock, ThreadStarts(s)
    PROVE  LinkInv'
<1>1. sock \in Sockets /\ sock[s] \in Sized
    BY TypesSized DEF LinkInv, Sockets
<1>2. PICK t \in {[sock[s] EXCEPT !.reader = "running"], [sock[s] EXCEPT !.writer = "running"]} :
          sock' = [sock EXCEPT ![s] = t]
    BY DEF ThreadStarts
<1>3. t \in Sized
    BY <1>1, <1>2 DEF Sized, Socket
<1>4. (Trying \/ at = "linked") /\ cur = s => Sound(t)
    <2>1. SUFFICES ASSUME Trying \/ at = "linked", cur = s PROVE Sound(t)
        OBVIOUS
    <2>2. Sound(sock[s])
        BY <2>1 DEF LinkInv, CurrentSound
    <2>3. at # "opening"
        BY <2>1, <2>2 DEF ThreadStarts, Sound, Opening, Closed
    <2>4. /\ t.chan = sock[s].chan /\ t.opener = sock[s].opener /\ t.inbox = sock[s].inbox
          /\ t.tx = sock[s].tx /\ t.rx = sock[s].rx /\ t.proc = sock[s].proc
          /\ t.reader \in {"running", sock[s].reader}
        BY <1>1, <1>2 DEF Sized, Socket
    <2> QED BY <2>2, <2>3, <2>4 DEF Sound, InHand
<1>5. sock' \in Sockets /\ sock'[s] = t /\ \A o \in Sock \ {s} : sock'[o] = sock[o]
    BY <1>1, <1>2, <1>3 DEF Sockets
<1>6. UNCHANGED <<attemptVars, prompt>>
    BY DEF ThreadStarts
<1> QED BY <1>4, <1>5, <1>6, SocketKeeps

(* The sender of the current socket is alive: its writing thread goes on.    *)
LEMMA WriterEndsKeeps ==
    ASSUME LinkInv, NEW s \in Sock, WriterEnds(s)
    PROVE  LinkInv'
<1> DEFINE t == [sock[s] EXCEPT !.writer = "no"]
<1>1. sock \in Sockets /\ sock[s] \in Sized
    BY TypesSized DEF LinkInv, Sockets
<1>2. t \in Sized
    BY <1>1 DEF Sized, Socket
<1>3. sock' = Set(s, t) /\ ~sock[s].tx /\ UNCHANGED <<attemptVars, prompt>>
    BY DEF WriterEnds
<1> HIDE DEF t
<1>4. sock' \in Sockets /\ \A o \in Sock \ {s} : sock'[o] = sock[o]
    BY <1>1, <1>2, <1>3, SetSockets
<1>5. ~((Trying \/ at = "linked") /\ cur = s)
    BY DEF WriterEnds, LinkInv, CurrentSound, Sound, InHand, Opening, Closed
<1> QED BY <1>3, <1>4, <1>5, SocketKeeps

(* A thread that reads passes packets on; its last word is an error.         *)
LEMMA ReceivedKeeps ==
    ASSUME LinkInv, NEW s \in Sock, NEW packet \in Packet, NEW goesOn \in BOOLEAN,
           Received(s, packet, goesOn),
           ~goesOn => packet = "error",
           cur = s /\ at \in {"sending", "probing"} /\ chan \in prompt => packet = "frame"
    PROVE  LinkInv'
<1>1. sock \in Sockets /\ sock[s] \in Sized /\ sock[s].reader = "running"
      /\ UNCHANGED <<attemptVars, prompt>>
    BY TypesSized DEF LinkInv, Sockets, Received
<1>2. CASE sock[s].rx
    <2> DEFINE reader == IF goesOn THEN "running" ELSE "no"
               t == [sock[s] EXCEPT !.inbox = Append(@, packet), !.reader = reader]
    <2>1. Len(sock[s].inbox) < Room /\ sock' = [sock EXCEPT ![s] = t]
        BY <1>1, <1>2 DEF Received
    <2>2. /\ t \in Sized /\ Len(t.inbox) = Len(sock[s].inbox) + 1
          /\ \A k \in 1..Len(sock[s].inbox) : t.inbox[k] = sock[s].inbox[k]
          /\ t.inbox[Len(sock[s].inbox) + 1] = packet
        <3>1. reader \in {"no", "queued", "running"}
            OBVIOUS
        <3>2. t.inbox = Append(sock[s].inbox, packet)
            BY <1>1 DEF Sized, Socket
        <3> HIDE DEF reader
        <3>3. [sock[s] EXCEPT !.inbox = Append(@, packet), !.reader = reader] \in Sized
              /\ Len(Append(sock[s].inbox, packet)) = Len(sock[s].inbox) + 1
              /\ (\A k \in 1..Len(sock[s].inbox) : Append(sock[s].inbox, packet)[k] = sock[s].inbox[k])
              /\ Append(sock[s].inbox, packet)[Len(sock[s].inbox) + 1] = packet
            BY <1>1, <2>1, <3>1, AppendSized
        <3> QED BY <3>2, <3>3
    <2>3. /\ t.chan = sock[s].chan /\ t.opener = sock[s].opener /\ t.reader = reader
          /\ t.tx = sock[s].tx /\ t.rx = sock[s].rx /\ t.proc = sock[s].proc
        BY <1>1 DEF Sized, Socket
    <2> HIDE DEF t
    <2>4. DOMAIN t.inbox = 1..(Len(sock[s].inbox) + 1) /\ Len(sock[s].inbox) \in Nat
          /\ DOMAIN sock[s].inbox = 1..Len(sock[s].inbox)
        BY <1>1, <2>2, InboxDomain
    <2>5. (Trying \/ at = "linked") /\ cur = s => Sound(t)
        <3>1. SUFFICES ASSUME Trying \/ at = "linked", cur = s PROVE Sound(t)
            OBVIOUS
        <3>2. Sound(sock[s])
            BY <3>1 DEF LinkInv, CurrentSound
        <3>3. at # "opening"
            BY <1>1, <3>2 DEF Sound, Opening, Closed
        <3>4. ~goesOn => ErrorIn(t.inbox)
            BY <2>2, <2>4 DEF ErrorIn
        <3>5. at # "opening" => InHand(t)
            BY <2>3, <3>2, <3>4 DEF Sound, InHand
        <3>6. at \in {"sending", "probing"} /\ chan \in prompt =>
                  \A k \in DOMAIN t.inbox : t.inbox[k] = "frame"
            BY <2>2, <2>4, <3>1, <3>2 DEF Sound
        <3> QED BY <2>3, <3>2, <3>3, <3>5, <3>6 DEF Sound
    <2>6. sock' \in Sockets /\ sock'[s] = t /\ \A o \in Sock \ {s} : sock'[o] = sock[o]
        BY <1>1, <2>1, <2>2 DEF Sockets
    <2> QED BY <1>1, <2>5, <2>6, SocketKeeps
<1>3. CASE ~sock[s].rx
    <2> DEFINE t == [sock[s] EXCEPT !.reader = "no"]
    <2>1. sock' = Set(s, t)
        BY <1>3 DEF Received
    <2>2. t \in Sized /\ t.opener = sock[s].opener /\ t.chan = sock[s].chan
        BY <1>1 DEF Sized, Socket
    <2> HIDE DEF t
    <2>3. sock' \in Sockets /\ sock'[s] = Settle(t) /\ \A o \in Sock \ {s} : sock'[o] = sock[o]
        BY <1>1, <2>1, <2>2, SetSockets
    <2>4. ~((Trying \/ at = "linked") /\ cur = s)
        BY <1>1, <1>3 DEF LinkInv, CurrentSound, Sound, InHand, Opening, Closed
    <2> QED BY <1>1, <2>3, <2>4, SocketKeeps
<1> QED BY <1>2, <1>3

LEMMA PeerSendsKeeps ==
    ASSUME LinkInv, NEW s \in Sock, PeerSends(s)
    PROVE  LinkInv'
<1>1. PICK packet \in {"frame", "part", "fastpair"} :
          /\ sock[s].chan \in prompt => packet = "frame" /\ ~(cur = s /\ at = "sending")
          /\ Received(s, packet, TRUE)
    BY DEF PeerSends
<1>2. cur = s /\ at \in {"sending", "probing"} => sock[s].chan = chan
    BY DEF LinkInv, CurrentSound, Sound, Trying
<1>3. packet \in Packet
    BY DEF Packet
<1> QED BY <1>1, <1>2, <1>3, ReceivedKeeps

LEMMA PeerClosesKeeps ==
    ASSUME LinkInv, NEW s \in Sock, PeerCloses(s)
    PROVE  LinkInv'
<1>1. ~(sock[s].chan \in prompt /\ Probed(s)) /\ Received(s, "error", FALSE)
    BY DEF PeerCloses
<1>2. cur = s /\ at \in {"sending", "probing"} => sock[s].chan = chan /\ Probed(s)
    BY DEF LinkInv, CurrentSound, Sound, Trying, Probed
<1>3. "error" \in Packet
    BY DEF Packet
<1> QED BY <1>1, <1>2, <1>3, ReceivedKeeps

(* A packet less, and not the last word.                                     *)
LEMMA TailSound ==
    ASSUME NEW r \in Sized, r.inbox # <<>>, Head(r.inbox) # "error", Sound(r)
    PROVE  Sound([r EXCEPT !.inbox = Tail(@)])
<1> DEFINE t == [r EXCEPT !.inbox = Tail(@)]
<1>1. /\ t \in Sized /\ t.inbox = Tail(r.inbox)
      /\ t.chan = r.chan /\ t.opener = r.opener /\ t.reader = r.reader
      /\ t.tx = r.tx /\ t.rx = r.rx /\ t.proc = r.proc
    BY TailSized DEF Sized, Socket
<1> HIDE DEF t
<1>2. Len(r.inbox) \in Nat /\ DOMAIN r.inbox = 1..Len(r.inbox)
      /\ DOMAIN t.inbox = 1..Len(t.inbox) /\ Len(t.inbox) = Len(r.inbox) - 1
      /\ \A k \in 1..(Len(r.inbox) - 1) : t.inbox[k] = r.inbox[k + 1]
    BY <1>1, InboxDomain, TailSized
<1>3. ErrorIn(r.inbox) => ErrorIn(t.inbox)
    BY <1>1, ErrorStays
<1>4. at # "opening" => InHand(t)
    BY <1>1, <1>3 DEF Sound, InHand
<1>5. (\A k \in DOMAIN r.inbox : r.inbox[k] = "frame") => \A k \in DOMAIN t.inbox : t.inbox[k] = "frame"
    <2>1. \A k \in 1..(Len(r.inbox) - 1) : k + 1 \in 1..Len(r.inbox)
        BY <1>2
    <2> QED BY <1>2, <2>1
<1>6. Sound(t)
    <2>1. at # "opening"
        BY DEF Sound, Opening, Closed
    <2> QED BY <1>1, <1>4, <1>5, <2>1 DEF Sound
<1> QED BY <1>6 DEF t

LEMMA ProcessorReadsKeeps ==
    ASSUME LinkInv, NEW s \in Sock, ProcessorReads(s)
    PROVE  LinkInv'
<1> DEFINE t == [sock[s] EXCEPT !.inbox = Tail(@)]
<1>1. sock \in Sockets /\ sock[s] \in Sized /\ sock[s].inbox # <<>> /\ Head(sock[s].inbox) # "error"
      /\ sock' = [sock EXCEPT ![s] = t] /\ UNCHANGED <<attemptVars, prompt>>
    BY TypesSized DEF LinkInv, Sockets, ProcessorReads
<1>2. t \in Sized
    BY <1>1, TailSized
<1>3. (Trying \/ at = "linked") /\ cur = s => Sound(t)
    BY <1>1, TailSound DEF LinkInv, CurrentSound
<1> HIDE DEF t
<1>4. sock' \in Sockets /\ sock'[s] = t /\ \A o \in Sock \ {s} : sock'[o] = sock[o]
    BY <1>1, <1>2 DEF Sockets
<1> QED BY <1>1, <1>3, <1>4, SocketKeeps

-----------------------------------------------------------------------------
(* Steps of the attempt.                                                     *)

LEMMA BeginKeeps ==
    ASSUME LinkInv, Begin
    PROVE  LinkInv'
<1>1. PICK s \in Sock : Open(sock, s, 1)
    BY DEF Begin
<1>2. pass' = 0 /\ sawFastPair' = FALSE /\ cut' = FALSE /\ held' = {} /\ prompt' = prompt
    BY DEF Begin
<1>3. sock' = [sock EXCEPT ![s] = Opening(1)] /\ at' = "opening" /\ cur' = s /\ chan' = 1
    BY <1>1 DEF Open
<1>4. 1 \in Channel /\ Channel \subseteq Nat /\ prompt \subseteq Channel /\ sock \in Sockets
      /\ \A c \in Channel : ~(c < 1)
    BY ChannelsAssumption, TypesSized DEF Channel, LinkInv
<1>5. sock' \in Sockets /\ sock'[s] = Opening(1)
    BY <1>3, <1>4, OpeningSized DEF Sockets
<1>6. RfcommTypeOK'
    BY <1>2, <1>3, <1>4, <1>5, TypesSizedAfter
<1>7. CurrentSound'
    <2>1. Opening(1).chan = 1
        BY DEF Opening, Closed
    <2> QED BY <1>3, <1>5, <2>1 DEF CurrentSound, Sound
<1>8. PassedOver' /\ FailsForCause'
    BY <1>2, <1>3, <1>4 DEF PassedOver, FailsForCause
<1> QED BY <1>6, <1>7, <1>8 DEF LinkInv

(* A socket of nobody's, that of an attempt that has gone on, matters to none *)
(* but the channel.                                                          *)
LEMMA StraySocketEnds ==
    ASSUME LinkInv, NEW s \in Sock, sock[s].opener = "running", ~(at = "opening" /\ cur = s),
           NEW left \in Sized,
           sock' = [sock EXCEPT ![s] = left], UNCHANGED <<attemptVars, prompt>>
    PROVE  LinkInv'
<1>1. sock \in Sockets
    BY TypesSized DEF LinkInv
<1>2. sock' \in Sockets /\ \A o \in Sock \ {s} : sock'[o] = sock[o]
    BY <1>1 DEF Sockets
<1>3. ~((Trying \/ at = "linked") /\ cur = s)
    BY DEF LinkInv, CurrentSound, Sound, InHand
<1> QED BY <1>2, <1>3, SocketKeeps

LEMMA OpenerConnectsKeeps ==
    ASSUME LinkInv, NEW s \in Sock, OpenerConnects(s)
    PROVE  LinkInv'
<1>1. /\ sock[s].opener = "running" /\ sock \in Sockets /\ sock[s] \in Sized
      /\ pass' = pass /\ chan' = chan /\ sawFastPair' = sawFastPair /\ cut' = cut
      /\ held' = held /\ cur' = cur /\ prompt' = prompt
    BY TypesSized DEF LinkInv, Sockets, OpenerConnects
<1>2. CASE at = "opening" /\ cur = s
    <2> DEFINE t == [sock[s] EXCEPT !.opener = "no", !.tx = TRUE, !.rx = TRUE,
                                    !.reader = "queued", !.writer = "queued"]
    <2>1. sock' = [sock EXCEPT ![s] = t] /\ at' = "sending"
        BY <1>2 DEF OpenerConnects
    <2>2. sock[s] = Opening(chan)
        BY <1>2 DEF LinkInv, CurrentSound, Trying, Sound
    <2>3. /\ t \in Sized /\ t.chan = chan /\ t.inbox = <<>>
          /\ t.opener = "no" /\ t.tx /\ t.rx /\ t.reader = "queued"
        BY <1>1, <2>2 DEF Sized, Socket, Opening, Closed
    <2> HIDE DEF t
    <2>4. sock' \in Sockets /\ sock'[s] = t
        BY <1>1, <2>1, <2>3 DEF Sockets
    <2>5. RfcommTypeOK'
        BY <1>1, <2>1, <2>4, TypesSized, TypesSizedAfter DEF LinkInv
    <2>6. CurrentSound'
        <3>1. DOMAIN t.inbox = {}
            BY <2>3
        <3> QED BY <1>1, <1>2, <2>1, <2>3, <2>4, <3>1 DEF CurrentSound, Sound, InHand
    <2>7. PassedOver' /\ FailsForCause'
        BY <1>1, <1>2, <2>1 DEF LinkInv, PassedOver, Trying, FailsForCause
    <2> QED BY <2>5, <2>6, <2>7 DEF LinkInv
<1>3. CASE ~(at = "opening" /\ cur = s)
    BY <1>1, <1>3, ClosedSized, StraySocketEnds DEF OpenerConnects, attemptVars
<1> QED BY <1>2, <1>3

(* The channel is passed over because an earlier socket is still open on it, *)
(* or it does not answer in time.                                            *)
LEMMA OpenerFailsKeeps ==
    ASSUME LinkInv, NEW s \in Sock, OpenerFails(s)
    PROVE  LinkInv'
<1>1. /\ sock[s].opener = "running" /\ sock \in Sockets /\ held \subseteq Channel
      /\ sawFastPair \in BOOLEAN /\ chan \in Channel
      /\ cut' = cut /\ prompt' = prompt /\ (sock[s].chan \in prompt => Occupied(s))
    BY TypesSized DEF LinkInv, OpenerFails
<1>2. PICK left \in Leftovers(s) :
          IF at = "opening" /\ cur = s
          THEN /\ Advance([sock EXCEPT ![s] = left], sawFastPair)
               /\ held' = IF Occupied(s) THEN held \cup {chan} ELSE held
          ELSE /\ sock' = [sock EXCEPT ![s] = left]
               /\ UNCHANGED <<at, pass, chan, sawFastPair, held, cur>>
    BY DEF OpenerFails
<1>3. left \in Sized
    BY <1>1, LeftoversSized
<1>4. CASE at = "opening" /\ cur = s
    <2> DEFINE g == [sock EXCEPT ![s] = left]
    <2>1. Advance(g, sawFastPair) /\ held' = IF Occupied(s) THEN held \cup {chan} ELSE held
        BY <1>4, <1>2
    <2>2. g \in Sockets
        BY <1>1, <1>3 DEF Sockets
    <2>3. Trying /\ sock[s].chan = chan
        BY <1>4 DEF LinkInv, CurrentSound, Trying, Sound
    <2> HIDE DEF g
    <2>4. held' \subseteq Channel /\ held \subseteq held' /\ (chan \in prompt => chan \in held')
        BY <1>1, <2>1, <2>3
    <2> QED BY <1>1, <2>1, <2>2, <2>3, <2>4, AdvanceKeeps
<1>5. CASE ~(at = "opening" /\ cur = s)
    BY <1>1, <1>5, <1>2, <1>3, StraySocketEnds DEF attemptVars
<1> QED BY <1>4, <1>5

LEMMA OpenTimesOutKeeps ==
    ASSUME LinkInv, OpenTimesOut
    PROVE  LinkInv'
<1>1. sock \in Sockets /\ sawFastPair \in BOOLEAN /\ held \subseteq Channel
    BY TypesSized DEF LinkInv
<1> QED BY <1>1, AdvanceKeeps DEF OpenTimesOut, Trying

LEMMA ProbeWrittenKeeps ==
    ASSUME LinkInv, ProbeWritten
    PROVE  LinkInv'
<1>1. /\ at = "sending" /\ at' = "probing" /\ pass' = pass /\ chan' = chan
      /\ sawFastPair' = sawFastPair /\ cut' = cut /\ held' = held /\ cur' = cur
      /\ sock' = sock /\ prompt' = prompt
    BY DEF ProbeWritten
<1>2. RfcommTypeOK'
    BY <1>1, TypesSized, TypesSizedAfter DEF LinkInv
<1>3. CurrentSound'
    <2>1. cur \in Sock /\ Sound(sock[cur])
        BY <1>1 DEF LinkInv, CurrentSound, Trying
    <2> QED BY <1>1, <2>1 DEF CurrentSound, Sound
<1>4. PassedOver' /\ FailsForCause'
    BY <1>1 DEF LinkInv, PassedOver, Trying, FailsForCause
<1> QED BY <1>2, <1>3, <1>4 DEF LinkInv

LEMMA ProbeEndsKeeps ==
    ASSUME LinkInv, ProbeFails \/ ProbeTimesOut
    PROVE  LinkInv'
<1>1. sawFastPair \in BOOLEAN
    BY TypesSized DEF LinkInv
<1>2. /\ Trying /\ chan \notin prompt /\ GiveUp(sawFastPair)
      /\ cut' = cut /\ held' = held /\ prompt' = prompt
    BY DEF ProbeFails, ProbeTimesOut, Trying
<1> QED BY <1>1, <1>2, GiveUpKeeps

(* What is no frame does not come from a channel that always answers.        *)
LEMMA FirstPacketKeeps ==
    ASSUME LinkInv, FirstPacket
    PROVE  LinkInv'
<1> DEFINE r == sock[cur]
<1>1. /\ at = "probing" /\ Trying /\ r.inbox # <<>> /\ sawFastPair \in BOOLEAN
      /\ cut' = cut /\ held' = held /\ prompt' = prompt /\ sock \in Sockets
    BY TypesSized DEF LinkInv, FirstPacket, Trying
<1>2. cur \in Sock /\ Sound(r) /\ r \in Sized
    BY <1>1 DEF LinkInv, CurrentSound, Sockets
<1>3. CASE Head(r.inbox) = "frame"
    <2> DEFINE t == [r EXCEPT !.inbox = Tail(@)]
    <2>1. /\ at' = "requesting" /\ sock' = [sock EXCEPT ![cur] = t]
          /\ pass' = pass /\ chan' = chan /\ sawFastPair' = sawFastPair /\ cur' = cur
        BY <1>1, <1>2, <1>3 DEF FirstPacket, Sockets
    <2>2. t \in Sized /\ Sound(t) /\ t.reader = r.reader
        BY <1>1, <1>2, <1>3, TailSized, TailSound DEF Sized, Socket
    <2>3. r.reader # "queued"
        BY <1>1, <1>2 DEF Sound, InHand
    <2> HIDE DEF t
    <2>4. sock' \in Sockets /\ sock'[cur] = t
        BY <1>1, <1>2, <2>1, <2>2 DEF Sockets
    <2>5. RfcommTypeOK'
        BY <1>1, <2>1, <2>4, TypesSized, TypesSizedAfter DEF LinkInv
    <2>6. CurrentSound'
        BY <1>1, <1>2, <2>1, <2>2, <2>3, <2>4 DEF CurrentSound, Sound
    <2>7. PassedOver' /\ FailsForCause'
        BY <1>1, <2>1 DEF LinkInv, PassedOver, Trying, FailsForCause
    <2> QED BY <2>5, <2>6, <2>7 DEF LinkInv
<1>4. CASE Head(r.inbox) # "frame"
    <2>1. GiveUp(sawFastPair \/ Head(r.inbox) = "fastpair")
        BY <1>4 DEF FirstPacket
    <2>2. chan \notin prompt
        <3>1. 1 \in DOMAIN r.inbox /\ r.inbox[1] = Head(r.inbox)
            <4>1. DOMAIN r.inbox = 1..Len(r.inbox) /\ Len(r.inbox) \in Nat /\ r.inbox \in Seq(Packet)
                BY <1>2, InboxDomain
            <4>2. Len(r.inbox) # 0
                BY <1>1, <4>1, EmptySeq
            <4> QED BY <4>1, <4>2
        <3> QED BY <1>1, <1>2, <1>4, <3>1 DEF Sound
    <2> QED BY <1>1, <2>1, <2>2, GiveUpKeeps
<1> QED BY <1>3, <1>4

LEMMA LinkedKeeps ==
    ASSUME LinkInv, Linked
    PROVE  LinkInv'
<1> DEFINE t == [sock[cur] EXCEPT !.proc = TRUE]
<1>1. /\ at = "requesting" /\ at' = "linked" /\ sock \in Sockets
      /\ pass' = pass /\ chan' = chan /\ sawFastPair' = sawFastPair /\ cut' = cut
      /\ held' = held /\ cur' = cur /\ prompt' = prompt
    BY TypesSized DEF LinkInv, Linked
<1>2. cur \in Sock /\ Sound(sock[cur]) /\ sock[cur] \in Sized
    BY <1>1 DEF LinkInv, CurrentSound, Trying, Sockets
<1>3. sock' = [sock EXCEPT ![cur] = t]
    BY <1>1, <1>2 DEF Linked, Sockets
<1>4. /\ t \in Sized /\ t.chan = sock[cur].chan /\ t.opener = sock[cur].opener
      /\ t.reader = sock[cur].reader /\ t.inbox = sock[cur].inbox
      /\ t.tx = sock[cur].tx /\ t.rx = sock[cur].rx /\ t.proc
    BY <1>2 DEF Sized, Socket
<1> HIDE DEF t
<1>5. sock' \in Sockets /\ sock'[cur] = t
    BY <1>1, <1>2, <1>3, <1>4 DEF Sockets
<1>6. RfcommTypeOK'
    BY <1>1, <1>5, TypesSized, TypesSizedAfter DEF LinkInv
<1>7. CurrentSound'
    BY <1>1, <1>2, <1>4, <1>5 DEF CurrentSound, Sound, InHand
<1>8. PassedOver' /\ FailsForCause'
    BY <1>1 DEF PassedOver, Trying, FailsForCause
<1> QED BY <1>6, <1>7, <1>8 DEF LinkInv

(* Nothing is in hand afterwards.                                            *)
LEMMA LeavesNothing ==
    ASSUME LinkInv, at' = "idle" \/ (at' = "failed" /\ cut' = TRUE),
           sock' \in Sockets, cur' \in Sock \cup {None}, cut' \in BOOLEAN,
           UNCHANGED <<pass, chan, sawFastPair, held, prompt>>
    PROVE  LinkInv'
<1>1. RfcommTypeOK'
    BY TypesSized, TypesSizedAfter DEF LinkInv
<1> QED BY <1>1 DEF LinkInv, CurrentSound, PassedOver, Trying, FailsForCause

LEMMA CutOffKeeps ==
    ASSUME LinkInv, CutOff
    PROVE  LinkInv'
<1>1. cur \in Sock /\ sock \in Sockets
    BY TypesSized DEF LinkInv, CurrentSound, CutOff
<1>2. Set(cur, Dropped(sock[cur])) \in Sockets
    BY <1>1, DroppedSized, SetSockets DEF Sockets
<1> QED BY <1>2, LeavesNothing DEF CutOff

LEMMA DisconnectKeeps ==
    ASSUME LinkInv, Disconnect
    PROVE  LinkInv'
<1>1. cur \in Sock /\ sock \in Sockets /\ cut \in BOOLEAN
    BY TypesSized DEF LinkInv, CurrentSound, Disconnect
<1>2. Set(cur, Taken(sock[cur])) \in Sockets
    BY <1>1, TakenSized, SetSockets DEF Sockets
<1> QED BY <1>1, <1>2, LeavesNothing DEF Disconnect

(* Whatever is stored goes with the processor that ends.                     *)
LEMMA ProcessorEndsKeeps ==
    ASSUME LinkInv, NEW s \in Sock, ProcessorEnds(s)
    PROVE  LinkInv'
<1> DEFINE over == [sock[s] EXCEPT !.rx = FALSE, !.proc = FALSE, !.inbox = <<>>]
<1>1. /\ sock \in Sockets /\ sock[s] \in Sized /\ ~Trying /\ cut \in BOOLEAN
      /\ UNCHANGED <<pass, chan, sawFastPair, cut, held, prompt>>
    BY TypesSized DEF LinkInv, Sockets, ProcessorEnds
<1>2. over \in Sized
    BY <1>1, EmptyInbox DEF Sized, Socket
<1>3. CASE at = "linked"
    <2>1. cur \in Sock /\ sock[cur] \in Sized
        BY <1>1, <1>3 DEF LinkInv, CurrentSound, Sockets
    <2>2. at' = "idle" /\ cur' = None
          /\ sock' = IF cur = s THEN Set(s, Taken(over))
                     ELSE [sock EXCEPT ![s] = Settle(over), ![cur] = Taken(@)]
        BY <1>3 DEF ProcessorEnds
    <2> HIDE DEF over
    <2>3. Set(s, Taken(over)) \in Sockets /\ Settle(over) \in Sized
        BY <1>1, <1>2, TakenSized, SetSockets, SettleSized
    <2>4. cur # s => sock' \in Sockets
        <3>1. Taken(sock[cur]) \in Sized
            BY <2>1, TakenSized
        <3> QED BY <1>1, <2>1, <2>2, <2>3, <3>1 DEF Sockets
    <2> QED BY <1>1, <2>2, <2>3, <2>4, LeavesNothing
<1>4. CASE at # "linked"
    <2>1. sock' = Set(s, over) /\ at' = at /\ cur' = cur
        BY <1>4 DEF ProcessorEnds
    <2> HIDE DEF over
    <2>2. sock' \in Sockets /\ \A o \in Sock \ {s} : sock'[o] = sock[o]
        BY <1>1, <1>2, <2>1, SetSockets
    <2> QED BY <1>1, <1>4, <2>1, <2>2, SocketKeeps DEF attemptVars
<1> QED BY <1>3, <1>4

-----------------------------------------------------------------------------
LEMMA InitLinkInv == Init => LinkInv
<1> SUFFICES ASSUME Init PROVE LinkInv
    OBVIOUS
<1>1. sock \in Sockets
    BY ClosedSized DEF Init, Sockets
<1>2. 1 \in Channel
    BY ChannelsAssumption DEF Channel
<1>3. RfcommTypeOK
    BY <1>1, <1>2, TypesSized DEF Init
<1> QED BY <1>3 DEF Init, LinkInv, CurrentSound, PassedOver, Trying, FailsForCause

(* Each step of the attempt, of the stored connection and of a socket.       *)
LEMMA LinkInvariant == SafeSpec => []LinkInv
<1>1. LinkInv /\ [Next]_vars => LinkInv'
    <2> SUFFICES ASSUME LinkInv, [Next]_vars PROVE LinkInv'
        OBVIOUS
    <2>1. CASE AttemptStep
        BY <2>1, BeginKeeps, OpenTimesOutKeeps, ProbeWrittenKeeps, ProbeEndsKeeps,
           FirstPacketKeeps, LinkedKeeps, CutOffKeeps DEF AttemptStep
    <2>2. CASE Disconnect
        BY <2>2, DisconnectKeeps
    <2>3. ASSUME NEW s \in Sock, SocketStep(s) PROVE LinkInv'
        BY <2>3, OpenerConnectsKeeps, OpenerFailsKeeps, ThreadStartsKeeps, WriterEndsKeeps,
           PeerSendsKeeps, PeerClosesKeeps, ProcessorReadsKeeps, ProcessorEndsKeeps DEF SocketStep
    <2>4. CASE UNCHANGED vars
        <3>1. sock' = sock /\ UNCHANGED <<attemptVars, prompt>>
            BY <2>4 DEF vars
        <3> QED BY <3>1, TypesSized, TypesSizedAfter DEF attemptVars, LinkInv, CurrentSound, Sound,
                Trying, PassedOver, FailsForCause
    <2> QED BY <2>1, <2>2, <2>3, <2>4 DEF Next
<1> QED BY <1>1, InitLinkInv, PTL DEF SafeSpec

(* The types, for any channels, sockets and room.                            *)
THEOREM AlwaysTyped == SafeSpec => []RfcommTypeOK
<1>1. LinkInv => RfcommTypeOK
    BY DEF LinkInv
<1> QED BY <1>1, LinkInvariant, PTL

(* An attempt that is not cut off fails only when each control channel was   *)
(* closed to it by a socket of an earlier one (nothing/device.rs:124).       *)
THEOREM AlwaysFailsForCause == SafeSpec => []FailsForCause
<1>1. LinkInv => FailsForCause
    BY DEF LinkInv
<1> QED BY <1>1, LinkInvariant, PTL

(* A stored connection has a processor, and a reading thread that runs or    *)
(* whose last word has still to be processed (rfcomm.rs:272).                *)
THEOREM AlwaysLossHeard == SafeSpec => []LossHeard
<1>1. LinkInv => LossHeard
    <2> SUFFICES ASSUME LinkInv, at = "linked" PROVE LossHeard
        BY DEF LossHeard
    <2>1. cur \in Sock /\ Sound(sock[cur]) /\ sock[cur] \in Sized
        BY TypesSized DEF LinkInv, CurrentSound, Sockets
    <2>2. sock[cur].reader \in {"no", "queued", "running"}
        BY <2>1 DEF Sized, Socket
    <2> QED BY <2>1, <2>2 DEF LossHeard, Sound, InHand, ErrorIn
<1> QED BY <1>1, LinkInvariant, PTL
===============================================================================
