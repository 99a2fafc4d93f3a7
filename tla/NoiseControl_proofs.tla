-------------------------- MODULE NoiseControl_proofs --------------------------
(* What set_noise_control, the transport and the headset keep true together,  *)
(* for any calls, modes, size of the command channel and use of the button.   *)
EXTENDS NoiseControl, SequenceTheorems, TLAPS

(* A command is in one place: not yet sent to the channel, in it, in hand, or *)
(* written.                                                                   *)
CommandsSound ==
    /\ \A r \in Request : req[r] \in {"new", "queueing"} =>
          r \notin ToSet(cmds) \cup {sending} \cup ToSet(sent)
    /\ IsInjective(cmds)
    /\ sending \notin ToSet(cmds)

\* The headset's mode once it has obeyed what was written.
Target == IF applied < Len(sent) THEN Wanted[sent[Len(sent)]] ELSE headset

\* What the service shows once it has read what is on its way.
Shown == IF inbound # <<>> THEN inbound[Len(inbound)] ELSE noiseMode

\* What the headset has not obeyed yet will not change it.
Settled == \A i \in (applied + 1)..Len(sent) : Wanted[sent[i]] = headset

(* The last notification tells the headset's mode; and unless a change came   *)
(* between a call's write and its store, at most one call is about to store,  *)
(* it stores what the headset will have, and with no such call what is shown  *)
(* will be right.                                                             *)
LastTells == inbound # <<>> => inbound[Len(inbound)] = headset

StoresRight ==
    /\ \A r, q \in Racing : r = q
    /\ \A r \in Racing : Wanted[r] = Target
    /\ Racing = {} /\ Settled => Shown = headset

ModesFollow == linkUp => LastTells /\ (~raced => StoresRight)

-----------------------------------------------------------------------------
(* Sequences.                                                                *)

LEMMA EmptyFacts == ToSet(<<>>) = {} /\ IsInjective(<<>>)
BY DEF ToSet, IsInjective

LEMMA AppendFacts ==
    ASSUME NEW S, NEW s \in Seq(S), NEW e \in S
    PROVE  /\ Append(s, e) \in Seq(S)
           /\ Len(Append(s, e)) = Len(s) + 1
           /\ Append(s, e)[Len(s) + 1] = e
           /\ \A i \in 1..Len(s) : Append(s, e)[i] = s[i]
           /\ Append(s, e) # <<>>
OBVIOUS

LEMMA AppendSet ==
    ASSUME NEW S, NEW s \in Seq(S), NEW e \in S
    PROVE  ToSet(Append(s, e)) = ToSet(s) \cup {e}
<1>1. DOMAIN s = 1..Len(s) /\ DOMAIN Append(s, e) = 1..(Len(s) + 1) /\ Len(s) \in Nat
  BY AppendFacts
<1>2. ASSUME NEW x \in ToSet(Append(s, e)) PROVE x \in ToSet(s) \cup {e}
  <2>1. PICK i \in 1..(Len(s) + 1) : x = Append(s, e)[i]
    BY <1>1, <1>2 DEF ToSet
  <2>2. CASE i = Len(s) + 1
    BY <2>1, <2>2, AppendFacts
  <2>3. CASE i # Len(s) + 1
    <3>1. i \in 1..Len(s)
      BY <1>1, <2>3
    <3> QED BY <1>1, <2>1, <3>1, AppendFacts DEF ToSet
  <2> QED BY <2>2, <2>3
<1>3. ASSUME NEW x \in ToSet(s) PROVE x \in ToSet(Append(s, e))
  <2>1. PICK i \in 1..Len(s) : x = s[i]
    BY <1>1, <1>3 DEF ToSet
  <2>2. i \in 1..(Len(s) + 1) /\ x = Append(s, e)[i]
    BY <1>1, <2>1, AppendFacts
  <2> QED BY <1>1, <2>2 DEF ToSet
<1>4. e \in ToSet(Append(s, e))
  <2>1. Len(s) + 1 \in 1..(Len(s) + 1)
    BY <1>1
  <2> QED BY <1>1, <2>1, AppendFacts DEF ToSet
<1> QED BY <1>2, <1>3, <1>4

LEMMA AppendStaysInjective ==
    ASSUME NEW S, NEW s \in Seq(S), NEW e \in S,
           IsInjective(s), e \notin ToSet(s)
    PROVE  IsInjective(Append(s, e))
<1>1. DOMAIN s = 1..Len(s) /\ DOMAIN Append(s, e) = 1..(Len(s) + 1) /\ Len(s) \in Nat
  BY AppendFacts
<1>2. \A i \in 1..Len(s) : s[i] # e
  BY <1>1 DEF ToSet
<1>3. ASSUME NEW a \in 1..(Len(s) + 1), NEW b \in 1..(Len(s) + 1),
             Append(s, e)[a] = Append(s, e)[b]
      PROVE  a = b
  <2>1. CASE a \in 1..Len(s) /\ b \in 1..Len(s)
    BY <1>1, <1>3, <2>1, AppendFacts DEF IsInjective
  <2>2. CASE a \in 1..Len(s) /\ b = Len(s) + 1
    BY <1>2, <1>3, <2>2, AppendFacts
  <2>3. CASE a = Len(s) + 1 /\ b \in 1..Len(s)
    BY <1>2, <1>3, <2>3, AppendFacts
  <2> QED BY <1>1, <2>1, <2>2, <2>3
<1>4. \A a, b \in DOMAIN Append(s, e) : Append(s, e)[a] = Append(s, e)[b] => a = b
  BY <1>1, <1>3
<1> QED BY <1>4 DEF IsInjective

LEMMA TailFacts ==
    ASSUME NEW S, NEW s \in Seq(S), s # <<>>
    PROVE  /\ Len(s) \in Nat \ {0} /\ Head(s) \in S /\ Head(s) = s[1]
           /\ Tail(s) \in Seq(S) /\ Len(Tail(s)) = Len(s) - 1
           /\ \A i \in 1..(Len(s) - 1) : Tail(s)[i] = s[i + 1]
OBVIOUS

LEMMA TailSet ==
    ASSUME NEW S, NEW s \in Seq(S), s # <<>>, IsInjective(s)
    PROVE  /\ Head(s) \in ToSet(s) /\ ToSet(Tail(s)) \subseteq ToSet(s)
           /\ Head(s) \notin ToSet(Tail(s)) /\ IsInjective(Tail(s))
<1>1. /\ DOMAIN s = 1..Len(s) /\ DOMAIN Tail(s) = 1..(Len(s) - 1)
      /\ Len(s) \in Nat \ {0}
  BY TailFacts
<1>2. Head(s) \in ToSet(s)
  <2>1. 1 \in DOMAIN s
    BY <1>1
  <2> QED BY <2>1, TailFacts DEF ToSet
<1>3. ASSUME NEW i \in 1..(Len(s) - 1)
      PROVE  Tail(s)[i] = s[i + 1] /\ i + 1 \in 1..Len(s) /\ i + 1 # 1
  BY <1>1, TailFacts
<1>4. ToSet(Tail(s)) \subseteq ToSet(s)
  BY <1>1, <1>3 DEF ToSet
<1>5. Head(s) \notin ToSet(Tail(s))
  <2>1. ASSUME NEW i \in 1..(Len(s) - 1) PROVE Tail(s)[i] # Head(s)
    <3>1. s[i + 1] # s[1]
      BY <1>1, <1>3 DEF IsInjective
    <3> QED BY <3>1, <1>3, TailFacts
  <2> QED BY <2>1, <1>1 DEF ToSet
<1>6. IsInjective(Tail(s))
  <2> SUFFICES ASSUME NEW a \in 1..(Len(s) - 1), NEW b \in 1..(Len(s) - 1),
                      Tail(s)[a] = Tail(s)[b]
               PROVE  a = b
    BY <1>1 DEF IsInjective
  <2>1. a + 1 = b + 1
    BY <1>1, <1>3 DEF IsInjective
  <2> QED BY <2>1
<1> QED BY <1>2, <1>4, <1>5, <1>6

LEMMA PrefixTyped ==
    ASSUME NEW S, NEW s \in Seq(S), NEW t \in Prefixes(s)
    PROVE  t \in Seq(S)
<1>1. PICK l \in 0..Len(s) : t = SubSeq(s, 1, l)
  BY DEF Prefixes
<1> QED BY <1>1

-----------------------------------------------------------------------------
(* Types.                                                                    *)

LEMMA TypesInit == Init => ControlTypeOK
<1> SUFFICES ASSUME Init PROVE ControlTypeOK
  OBVIOUS
<1>1. <<headset>> \in Seq(Mode)
  BY DEF Init
<1>2. <<>> \in Seq(Request) /\ Len(<<>>) = 0
  OBVIOUS
<1>3. 0 \in 0..0 /\ 0 \in 0..MaxPresses /\ 0 <= QueueCap
  BY CapAssumption
<1>4. /\ cmds \in Seq(Request) /\ Len(cmds) <= QueueCap
      /\ sent \in Seq(Request) /\ applied \in 0..Len(sent)
      /\ inbound \in Seq(Mode) /\ presses \in 0..MaxPresses
  BY <1>1, <1>2, <1>3 DEF Init
<1> QED BY <1>4 DEF Init, ControlTypeOK, Phase

LEMMA BecomesTyped ==
    ASSUME ControlTypeOK, NEW m \in Mode, Becomes(m)
    PROVE  headset' \in Mode /\ inbound' \in Seq(Mode)
BY AppendFacts DEF Becomes, ControlTypeOK

LEMMA TakeConnTyped ==
    ASSUME ControlTypeOK, TakeConn
    PROVE  /\ cmds' = <<>> /\ cmds' \in Seq(Request) /\ Len(cmds') <= QueueCap
           /\ inbound' \in Seq(Mode)
           /\ slot' = FALSE /\ linkUp' = FALSE /\ sending' = Unknown
           /\ UNCHANGED <<req, sent, applied, headset, presses, noiseMode, raced>>
<1>1. inbound' \in Seq(Mode)
  BY PrefixTyped DEF TakeConn, SomeArrive, ControlTypeOK
<1>2. <<>> \in Seq(Request) /\ Len(<<>>) = 0
  OBVIOUS
<1> QED BY <1>1, <1>2, CapAssumption DEF TakeConn

LEMMA TypesStep == ControlTypeOK /\ [Next]_vars => ControlTypeOK'
<1> SUFFICES ASSUME ControlTypeOK, [Next]_vars PROVE ControlTypeOK'
  OBVIOUS
<1> USE DEF ControlTypeOK, Phase
<1>1. ASSUME NEW r \in Request, Begin(r) PROVE ControlTypeOK'
  BY <1>1 DEF Begin, headsetVars, connVars
<1>2. ASSUME NEW r \in Request, Enqueue(r) PROVE ControlTypeOK'
  <2>1. cmds' \in Seq(Request) /\ Len(cmds') <= QueueCap
    BY <1>2, AppendFacts, CapAssumption DEF Enqueue
  <2> QED BY <1>2, <2>1 DEF Enqueue, headsetVars, connVars
<1>3. ASSUME NEW r \in Request, TimeOut(r) PROVE ControlTypeOK'
  BY <1>3 DEF TimeOut, headsetVars, connVars
<1>4. ASSUME NEW r \in Request, Store(r) PROVE ControlTypeOK'
  BY <1>4, WantedAssumption DEF Store, headsetVars, connVars
<1>5. CASE TakeCommand
  <2>1. sending' \in Request /\ cmds' \in Seq(Request) /\ Len(cmds') <= QueueCap
    BY <1>5, TailFacts, CapAssumption DEF TakeCommand
  <2> QED BY <1>5, <2>1 DEF TakeCommand, headsetVars, connVars
<1>6. CASE Written
  <2>1. sent' \in Seq(Request) /\ Len(sent') = Len(sent) + 1
    BY <1>6, AppendFacts DEF Written
  <2>2. applied' \in 0..Len(sent')
    BY <1>6, <2>1 DEF Written, headsetVars
  <2>3. req' \in [Request -> Phase]
    BY <1>6 DEF Written, Answering
  <2>4. raced' \in BOOLEAN
    BY <1>6 DEF Written
  <2> QED BY <1>6, <2>1, <2>2, <2>3, <2>4 DEF Written, headsetVars, connVars
<1>7. CASE WriteFails
  <2>1. req' \in [Request -> Phase]
    BY <1>7 DEF WriteFails
  <2> QED BY <1>7, <2>1 DEF WriteFails, headsetVars, connVars
<1>8. CASE Obey
  <2>1. applied + 1 \in 1..Len(sent)
    BY <1>8 DEF Obey
  <2>2. Wanted[sent[applied + 1]] \in Mode
    BY <2>1, WantedAssumption
  <2>3. headset' \in Mode /\ inbound' \in Seq(Mode)
    BY <1>8, <2>2, BecomesTyped DEF Obey
  <2>4. applied' \in 0..Len(sent)
    BY <1>8, <2>1 DEF Obey
  <2> QED BY <1>8, <2>3, <2>4 DEF Obey, callVars, connVars
<1>9. CASE LinkLost
  <2>1. inbound' \in Seq(Mode)
    BY <1>9, PrefixTyped DEF LinkLost, SomeArrive
  <2> QED BY <1>9, <2>1 DEF LinkLost, callVars
<1>10. ASSUME NEW m \in Mode, Press(m) PROVE ControlTypeOK'
  <2>1. headset' \in Mode /\ inbound' \in Seq(Mode)
    BY <1>10, BecomesTyped DEF Press
  <2>2. presses' \in 0..MaxPresses
    BY <1>10, CapAssumption DEF Press
  <2>3. raced' \in BOOLEAN
    BY <1>10 DEF Press
  <2> QED BY <1>10, <2>1, <2>2, <2>3 DEF Press, callVars, connVars
<1>11. CASE Notified
  <2>1. inbound' \in Seq(Mode) /\ noiseMode' \in Mode
    BY <1>11, TailFacts DEF Notified
  <2> QED BY <1>11, <2>1 DEF Notified, callVars, connVars
<1>12. CASE ReceiveFails
  BY <1>12 DEF ReceiveFails, callVars, headsetVars
<1>13. CASE ProcessorCloses
  BY <1>13, TakeConnTyped DEF ProcessorCloses
<1>14. CASE Disconnect
  BY <1>14 DEF Disconnect, callVars, headsetVars
<1>15. CASE DisconnectEnds
  BY <1>15, TakeConnTyped DEF DisconnectEnds
<1>16. CASE UNCHANGED vars
  BY <1>16 DEF vars, callVars, headsetVars, connVars
<1> QED
  BY <1>1, <1>2, <1>3, <1>4, <1>5, <1>6, <1>7, <1>8, <1>9, <1>10, <1>11, <1>12,
     <1>13, <1>14, <1>15, <1>16
     DEF Next, CallStep, SendStep, HeadsetStep, CloseStep

(* Every variable of a connection keeps its type; the channel never holds     *)
(* more than it has room for.                                                 *)
THEOREM AlwaysTyped == Spec => []ControlTypeOK
BY TypesInit, TypesStep, PTL DEF Spec

-----------------------------------------------------------------------------
(* Commands.                                                                 *)

CommandInv == CommandsSound /\ AnswersOwn

LEMMA CommandInit == Init => CommandInv
BY EmptyFacts, UnknownAssumption DEF Init, CommandInv, CommandsSound, AnswersOwn

(* What the commands depend on.                                              *)
commandVars == <<cmds, sending, sent>>

(* A call that moves on without its command changes nothing.                 *)
LEMMA CommandsKept ==
    ASSUME CommandInv, UNCHANGED commandVars,
           \A r \in Request : /\ req'[r] \in {"new", "queueing"} => req[r] \in {"new", "queueing"}
                              /\ req'[r] \in {"storing", "ok"} => req[r] \in {"storing", "ok"}
    PROVE  CommandInv'
BY DEF CommandInv, CommandsSound, AnswersOwn, commandVars

LEMMA CommandsDropped ==
    ASSUME CommandInv, ControlTypeOK, TakeConn
    PROVE  CommandInv'
<1>1. /\ cmds' = <<>> /\ sending' = Unknown /\ UNCHANGED <<req, sent>>
      /\ ToSet(cmds') = {} /\ IsInjective(cmds')
  BY EmptyFacts DEF TakeConn
<1>2. ToSet(sent) \subseteq Request
  BY DEF ControlTypeOK, ToSet
<1> QED BY <1>1, <1>2, UnknownAssumption DEF CommandInv, CommandsSound, AnswersOwn

LEMMA CommandStep == ControlTypeOK /\ CommandInv /\ [Next]_vars => CommandInv'
<1> SUFFICES ASSUME ControlTypeOK, CommandInv, [Next]_vars PROVE CommandInv'
  OBVIOUS
<1>t. /\ req \in [Request -> Phase] /\ cmds \in Seq(Request) /\ sent \in Seq(Request)
      /\ ToSet(cmds) \subseteq Request /\ ToSet(sent) \subseteq Request
  BY DEF ControlTypeOK, ToSet
<1>1. ASSUME NEW r \in Request, Begin(r) PROVE CommandInv'
  BY <1>1, <1>t, CommandsKept DEF Begin, commandVars
<1>2. ASSUME NEW r \in Request, Enqueue(r) PROVE CommandInv'
  <2>1. /\ req[r] = "queueing" /\ req' = [req EXCEPT ![r] = "waiting"]
        /\ cmds' = Append(cmds, r) /\ UNCHANGED <<sending, sent>>
    BY <1>2 DEF Enqueue
  <2>2. r \notin ToSet(cmds) \cup {sending} \cup ToSet(sent) /\ IsInjective(cmds)
    BY <2>1 DEF CommandInv, CommandsSound
  <2>3. ToSet(cmds') = ToSet(cmds) \cup {r}
    BY <1>t, <2>1, AppendSet
  <2>4. IsInjective(cmds')
    <3>1. IsInjective(Append(cmds, r))
      BY <1>t, <2>2, AppendStaysInjective
    <3> QED BY <2>1, <3>1
  <2>5. CommandsSound'
    BY <1>t, <2>1, <2>2, <2>3, <2>4 DEF CommandInv, CommandsSound
  <2>6. AnswersOwn'
    BY <1>t, <2>1, <2>2, <2>3 DEF CommandInv, AnswersOwn
  <2> QED BY <2>5, <2>6 DEF CommandInv
<1>3. ASSUME NEW r \in Request, TimeOut(r) PROVE CommandInv'
  BY <1>3, <1>t, CommandsKept DEF TimeOut, commandVars
<1>4. ASSUME NEW r \in Request, Store(r) PROVE CommandInv'
  BY <1>4, <1>t, CommandsKept DEF Store, commandVars
<1>5. CASE TakeCommand
  <2>1. /\ sending = Unknown /\ cmds # <<>> /\ sending' = Head(cmds)
        /\ cmds' = Tail(cmds) /\ UNCHANGED <<req, sent>>
    BY <1>5 DEF TakeCommand
  <2>2. /\ sending' \in ToSet(cmds) /\ ToSet(cmds') \subseteq ToSet(cmds)
        /\ sending' \notin ToSet(cmds') /\ IsInjective(cmds')
    BY <1>t, <2>1, TailSet DEF CommandInv, CommandsSound
  <2>3. CommandsSound'
    BY <2>1, <2>2 DEF CommandInv, CommandsSound
  <2>4. AnswersOwn'
    BY <2>1, <2>2 DEF CommandInv, AnswersOwn
  <2> QED BY <2>3, <2>4 DEF CommandInv
<1>6. CASE Written
  <2>1. /\ sending \in Request /\ sending' = Unknown /\ req' = Answering
        /\ sent' = Append(sent, sending) /\ UNCHANGED cmds
    BY <1>6 DEF Written, ControlTypeOK
  <2>2. ToSet(sent') = ToSet(sent) \cup {sending}
    BY <1>t, <2>1, AppendSet
  <2>3. sending \notin ToSet(sent) /\ sending \notin ToSet(cmds)
    BY DEF CommandInv, CommandsSound, AnswersOwn
  <2>4. IsInjective(sent')
    <3>1. IsInjective(sent)
      BY DEF CommandInv, AnswersOwn
    <3>2. IsInjective(Append(sent, sending))
      BY <1>t, <2>1, <2>3, <3>1, AppendStaysInjective
    <3> QED BY <2>1, <3>2
  <2>5. \A r \in Request :
           /\ req'[r] \in {"new", "queueing"} => req[r] \in {"new", "queueing"}
           /\ req'[r] \in {"storing", "ok"} => r = sending \/ req[r] \in {"storing", "ok"}
    BY <1>t, <2>1 DEF Answering
  <2>6. CommandsSound'
    BY <1>t, <2>1, <2>2, <2>5, UnknownAssumption DEF CommandInv, CommandsSound
  <2>7. AnswersOwn'
    BY <1>t, <2>1, <2>2, <2>3, <2>4, <2>5, UnknownAssumption DEF CommandInv, AnswersOwn
  <2> QED BY <2>6, <2>7 DEF CommandInv
<1>7. CASE WriteFails
  <2>1. /\ sending' = Unknown /\ UNCHANGED <<cmds, sent>>
        /\ \A r \in Request :
             /\ req'[r] \in {"new", "queueing"} => req[r] \in {"new", "queueing"}
             /\ req'[r] \in {"storing", "ok"} => req[r] \in {"storing", "ok"}
    BY <1>7, <1>t DEF WriteFails
  <2>2. CommandsSound'
    BY <1>t, <2>1, UnknownAssumption DEF CommandInv, CommandsSound
  <2>3. AnswersOwn'
    BY <1>t, <2>1, UnknownAssumption DEF CommandInv, AnswersOwn
  <2> QED BY <2>2, <2>3 DEF CommandInv
<1>8. CASE Obey
  BY <1>8, CommandsKept DEF Obey, callVars, commandVars
<1>9. CASE LinkLost
  BY <1>9, CommandsKept DEF LinkLost, callVars, commandVars
<1>10. ASSUME NEW m \in Mode, Press(m) PROVE CommandInv'
  BY <1>10, CommandsKept DEF Press, callVars, commandVars
<1>11. CASE Notified
  BY <1>11, CommandsKept DEF Notified, callVars, commandVars
<1>12. CASE ReceiveFails
  BY <1>12, CommandsKept DEF ReceiveFails, callVars, commandVars
<1>13. CASE ProcessorCloses
  BY <1>13, CommandsDropped DEF ProcessorCloses
<1>14. CASE Disconnect
  BY <1>14, CommandsKept DEF Disconnect, callVars, commandVars
<1>15. CASE DisconnectEnds
  BY <1>15, CommandsDropped DEF DisconnectEnds
<1>16. CASE UNCHANGED vars
  BY <1>16, CommandsKept DEF vars, callVars, commandVars
<1> QED
  BY <1>1, <1>2, <1>3, <1>4, <1>5, <1>6, <1>7, <1>8, <1>9, <1>10, <1>11, <1>12,
     <1>13, <1>14, <1>15, <1>16
     DEF Next, CallStep, SendStep, HeadsetStep, CloseStep

(* A call succeeds only if its own command was written, and no command is    *)
(* written twice (l2cap.rs:72).                                              *)
THEOREM AlwaysAnswersOwn == Spec => []AnswersOwn
<1>1. CommandInv => AnswersOwn
  BY DEF CommandInv
<1> QED BY <1>1, AlwaysTyped, CommandInit, CommandStep, PTL DEF Spec

-----------------------------------------------------------------------------
(* Modes.                                                                    *)

LEMMA ModesInit == Init => ModesFollow
<1> SUFFICES ASSUME Init PROVE ModesFollow
  OBVIOUS
<1>1. inbound = <<headset>> /\ Len(inbound) = 1 /\ inbound[1] = headset
  BY DEF Init
<1>2. Racing = {}
  BY DEF Init, Racing
<1> QED BY <1>1, <1>2 DEF ModesFollow, LastTells, StoresRight, Shown

(* What the modes depend on besides the calls about to store.                *)
modeVars == <<sent, applied, headset, inbound, noiseMode, linkUp, raced>>

LEMMA ModesKept ==
    ASSUME ModesFollow, UNCHANGED modeVars, Racing' = Racing
    PROVE  ModesFollow'
BY DEF ModesFollow, LastTells, StoresRight, Shown, Settled, Target, modeVars

LEMMA BecomesTells ==
    ASSUME ControlTypeOK, LastTells, NEW m \in Mode, Becomes(m)
    PROVE  /\ LastTells'
           /\ m = headset => UNCHANGED <<headset, inbound>>
           /\ m # headset => inbound' # <<>>
           /\ headset' = m
<1>1. CASE m = headset
  BY <1>1 DEF Becomes, LastTells
<1>2. CASE m # headset
  <2>1. inbound \in Seq(Mode) /\ inbound' = Append(inbound, m) /\ headset' = m
    BY <1>2 DEF Becomes, ControlTypeOK
  <2>2. inbound' # <<>> /\ inbound'[Len(inbound')] = m
    BY <2>1, AppendFacts
  <2> QED BY <1>2, <2>1, <2>2 DEF LastTells
<1> QED BY <1>1, <1>2

LEMMA ModesStep == ControlTypeOK /\ ModesFollow /\ [Next]_vars => ModesFollow'
<1> SUFFICES ASSUME ControlTypeOK, ModesFollow, [Next]_vars PROVE ModesFollow'
  OBVIOUS
<1>t. /\ req \in [Request -> Phase] /\ sent \in Seq(Request) /\ inbound \in Seq(Mode)
      /\ Len(sent) \in Nat /\ applied \in 0..Len(sent) /\ raced \in BOOLEAN
  BY DEF ControlTypeOK
<1>1. ASSUME NEW r \in Request, Begin(r) PROVE ModesFollow'
  <2>1. Racing' = Racing
    BY <1>1, <1>t DEF Begin, Racing
  <2> QED BY <1>1, <2>1, ModesKept DEF Begin, modeVars, headsetVars, connVars
<1>2. ASSUME NEW r \in Request, Enqueue(r) PROVE ModesFollow'
  <2>1. Racing' = Racing
    BY <1>2, <1>t DEF Enqueue, Racing
  <2> QED BY <1>2, <2>1, ModesKept DEF Enqueue, modeVars, headsetVars, connVars
<1>3. ASSUME NEW r \in Request, TimeOut(r) PROVE ModesFollow'
  <2>1. Racing' = Racing
    BY <1>3, <1>t DEF TimeOut, Racing
  <2> QED BY <1>3, <2>1, ModesKept DEF TimeOut, modeVars, headsetVars, connVars
<1>4. ASSUME NEW r \in Request, Store(r) PROVE ModesFollow'
  <2>1. /\ r \in Racing /\ noiseMode' = Wanted[r] /\ Racing' = Racing \ {r}
        /\ UNCHANGED <<sent, applied, headset, inbound, linkUp, raced>>
    BY <1>4, <1>t DEF Store, Racing, headsetVars, connVars
  <2> SUFFICES ASSUME linkUp PROVE LastTells' /\ (~raced => StoresRight')
    BY <2>1 DEF ModesFollow
  <2>2. LastTells /\ LastTells'
    BY <2>1 DEF ModesFollow, LastTells
  <2> SUFFICES ASSUME ~raced PROVE StoresRight'
    BY <2>2
  <2>3. Racing = {r} /\ Wanted[r] = Target
    BY <2>1 DEF ModesFollow, StoresRight
  <2>4. ASSUME Settled PROVE Target = headset
    <3>1. applied < Len(sent) => Len(sent) \in (applied + 1)..Len(sent)
      BY <1>t
    <3> QED BY <2>4, <3>1 DEF Settled, Target
  <2>5. Settled' => Settled
    BY <2>1 DEF Settled
  <2>6. Settled' => Shown' = headset'
    BY <2>1, <2>2, <2>3, <2>4, <2>5 DEF Shown, LastTells
  <2> QED BY <2>1, <2>3, <2>6 DEF StoresRight
<1>5. CASE TakeCommand
  <2>1. Racing' = Racing
    BY <1>5 DEF TakeCommand, Racing
  <2> QED BY <1>5, <2>1, ModesKept DEF TakeCommand, modeVars, headsetVars, connVars
<1>6. CASE Written
  <2>1. /\ linkUp /\ sending \in Request /\ sent' = Append(sent, sending)
        /\ req' = Answering /\ raced' = (raced \/ Racing # {})
        /\ UNCHANGED <<applied, headset, inbound, noiseMode, linkUp>>
    BY <1>6 DEF Written, ControlTypeOK, headsetVars, connVars
  <2>2. LastTells'
    BY <2>1 DEF ModesFollow, LastTells
  <2> SUFFICES ASSUME ~raced' PROVE StoresRight'
    BY <2>2 DEF ModesFollow
  <2>3. ~raced /\ Racing = {} /\ StoresRight
    BY <1>t, <2>1 DEF ModesFollow
  <2>4. Racing' \subseteq {sending}
    BY <1>t, <2>1, <2>3 DEF Racing, Answering
  <2>5. /\ Len(sent') = Len(sent) + 1 /\ sent'[Len(sent')] = sending
        /\ \A i \in 1..Len(sent) : sent'[i] = sent[i]
    BY <1>t, <2>1, AppendFacts
  <2>6. Target' = Wanted[sending]
    <3>1. applied' < Len(sent')
      BY <1>t, <2>1, <2>5
    <3> QED BY <2>5, <3>1 DEF Target
  <2>7. ASSUME Settled' PROVE Settled
    <3> SUFFICES ASSUME NEW i \in (applied + 1)..Len(sent)
                 PROVE  Wanted[sent[i]] = headset
      BY DEF Settled
    <3>1. i \in (applied' + 1)..Len(sent') /\ sent'[i] = sent[i]
      BY <1>t, <2>1, <2>5
    <3> QED BY <2>1, <2>7, <3>1 DEF Settled
  <2>8. Settled' => Shown' = headset'
    BY <2>1, <2>3, <2>7 DEF StoresRight, Shown
  <2> QED BY <2>4, <2>6, <2>8 DEF StoresRight
<1>7. CASE WriteFails
  BY <1>7 DEF WriteFails, connVars, ModesFollow
<1>8. CASE Obey
  <2>1. /\ linkUp /\ applied < Len(sent) /\ applied' = applied + 1
        /\ Becomes(Wanted[sent[applied + 1]])
        /\ UNCHANGED <<req, sent, noiseMode, linkUp, raced>>
    BY <1>8 DEF Obey, callVars, connVars
  <2> DEFINE m == Wanted[sent[applied + 1]]
  <2>2. applied + 1 \in 1..Len(sent) /\ m \in Mode
    <3>1. applied + 1 \in 1..Len(sent)
      BY <1>t, <2>1
    <3> QED BY <1>t, <3>1, WantedAssumption
  <2>3. LastTells
    BY <2>1 DEF ModesFollow
  <2>4. /\ LastTells' /\ headset' = m
        /\ m = headset => UNCHANGED <<headset, inbound>>
        /\ m # headset => inbound' # <<>>
    BY <2>1, <2>2, <2>3, BecomesTells
  <2> SUFFICES ASSUME ~raced PROVE StoresRight'
    BY <2>1, <2>4 DEF ModesFollow
  <2>5. StoresRight /\ Racing' = Racing
    BY <2>1 DEF ModesFollow, Racing
  <2>6. Target' = Target
    <3>1. CASE applied + 1 < Len(sent)
      BY <1>t, <2>1, <3>1 DEF Target
    <3>2. CASE applied + 1 = Len(sent)
      BY <1>t, <2>1, <2>4, <3>2 DEF Target
    <3> QED BY <1>t, <2>2, <3>1, <3>2
  <2>7. ASSUME Racing' = {}, Settled' PROVE Shown' = headset'
    <3>1. CASE m # headset
      BY <2>4, <3>1 DEF Shown, LastTells
    <3>2. CASE m = headset
      <4>1. ASSUME NEW i \in (applied + 1)..Len(sent) PROVE Wanted[sent[i]] = headset
        <5>1. CASE i = applied + 1
          BY <3>2, <5>1
        <5>2. CASE i # applied + 1
          <6>1. i \in (applied' + 1)..Len(sent')
            BY <1>t, <2>1, <5>2
          <6> QED BY <2>1, <2>4, <2>7, <3>2, <6>1 DEF Settled
        <5> QED BY <5>1, <5>2
      <4>2. Shown = headset
        BY <2>5, <2>7, <4>1 DEF StoresRight, Settled
      <4> QED BY <2>1, <2>4, <3>2, <4>2 DEF Shown
    <3> QED BY <3>1, <3>2
  <2> QED BY <2>1, <2>5, <2>6, <2>7 DEF StoresRight
<1>9. CASE LinkLost
  BY <1>9 DEF LinkLost, ModesFollow
<1>10. ASSUME NEW m \in Mode, Press(m) PROVE ModesFollow'
  <2>1. /\ linkUp /\ m # headset /\ Becomes(m) /\ raced' = (raced \/ Racing # {})
        /\ Racing' = Racing
    BY <1>10 DEF Press, callVars, Racing
  <2>2. LastTells' /\ inbound' # <<>>
    BY <2>1, BecomesTells DEF ModesFollow
  <2>3. ~raced' => Racing' = {}
    BY <1>t, <2>1
  <2> QED BY <2>2, <2>3 DEF ModesFollow, StoresRight, LastTells, Shown
<1>11. CASE Notified
  <2>1. /\ inbound # <<>> /\ inbound' = Tail(inbound) /\ noiseMode' = Head(inbound)
        /\ Racing' = Racing /\ UNCHANGED <<sent, applied, headset, linkUp, raced>>
    BY <1>11 DEF Notified, callVars, connVars, Racing
  <2> SUFFICES ASSUME linkUp PROVE LastTells' /\ (~raced => StoresRight')
    BY <2>1 DEF ModesFollow
  <2>2. inbound[Len(inbound)] = headset
    BY <2>1 DEF ModesFollow, LastTells
  <2>3. /\ Len(inbound) \in Nat \ {0} /\ Len(inbound') = Len(inbound) - 1
        /\ inbound' \in Seq(Mode) /\ noiseMode' = inbound[1]
        /\ \A i \in 1..(Len(inbound) - 1) : inbound'[i] = inbound[i + 1]
    BY <1>t, <2>1, TailFacts
  <2>4. LastTells' /\ Shown' = headset'
    <3>1. CASE Len(inbound) = 1
      <4>1. inbound' = <<>>
        BY <2>3, <3>1
      <4> QED BY <2>1, <2>2, <2>3, <3>1, <4>1 DEF LastTells, Shown
    <3>2. CASE Len(inbound) # 1
      <4>1. inbound' # <<>>
        BY <2>3, <3>2
      <4>2. Len(inbound') \in 1..(Len(inbound) - 1) /\ Len(inbound') + 1 = Len(inbound)
        BY <2>3, <3>2
      <4>3. inbound'[Len(inbound')] = headset'
        BY <2>1, <2>2, <2>3, <4>2
      <4> QED BY <4>1, <4>3 DEF LastTells, Shown
    <3> QED BY <3>1, <3>2
  <2>5. Target' = Target
    BY <2>1 DEF Target
  <2> QED BY <2>1, <2>4, <2>5 DEF ModesFollow, StoresRight
<1>12. CASE ReceiveFails
  BY <1>12, ModesKept DEF ReceiveFails, callVars, headsetVars, modeVars, Racing
<1>13. CASE ProcessorCloses
  BY <1>13 DEF ProcessorCloses, TakeConn, ModesFollow
<1>14. CASE Disconnect
  BY <1>14, ModesKept DEF Disconnect, callVars, headsetVars, modeVars, Racing
<1>15. CASE DisconnectEnds
  BY <1>15 DEF DisconnectEnds, TakeConn, ModesFollow
<1>16. CASE UNCHANGED vars
  BY <1>16, ModesKept DEF vars, callVars, headsetVars, connVars, modeVars, Racing
<1> QED
  BY <1>1, <1>2, <1>3, <1>4, <1>5, <1>6, <1>7, <1>8, <1>9, <1>10, <1>11, <1>12,
     <1>13, <1>14, <1>15, <1>16
     DEF Next, CallStep, SendStep, HeadsetStep, CloseStep

LEMMA QuietAgrees == ControlTypeOK /\ ModesFollow => AgreesUnlessRaced
<1> SUFFICES ASSUME ControlTypeOK, ModesFollow, Quiet, ~raced PROVE noiseMode = headset
  BY DEF AgreesUnlessRaced
<1>1. Racing = {}
  BY DEF Quiet, Readers, Racing
<1>2. Settled
  <2>1. Len(sent) \in Nat /\ applied = Len(sent)
    BY DEF Quiet, ControlTypeOK
  <2>2. (applied + 1)..Len(sent) = {}
    BY <2>1
  <2> QED BY <2>2 DEF Settled
<1> QED BY <1>1, <1>2 DEF Quiet, ModesFollow, StoresRight, Shown

(* When nothing is under way, what the service shows is the headset's mode,  *)
(* unless the headset changed between a call's write and its store           *)
(* (device.rs:542).                                                          *)
THEOREM AlwaysAgrees == Spec => []AgreesUnlessRaced
BY AlwaysTyped, ModesInit, ModesStep, QuietAgrees, PTL DEF Spec
=============================================================================
