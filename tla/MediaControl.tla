----------------------------- MODULE MediaControl -----------------------------
(***************************************************************************)
(* Ear detection and media players: media_control.rs as the dispatcher of  *)
(* EventProcessor runs it.  dispatch() awaits send_play() or send_pause()  *)
(* to the end before it takes the next event, and every call to a player   *)
(* is awaited, so users, players and the D-Bus client that switches the    *)
(* feature on and off act between any two of the calls.                    *)
(***************************************************************************)
EXTENDS EventProcessor

CONSTANTS
    Player,     \* MPRIS services, those of KDE Connect left out
    None        \* no player in hand

ASSUME NoneAssumption == None \notin Player

VARIABLES
    player,     \* PlaybackStatus; one that is not on the bus does not play
    enabled,    \* ENABLED
    paused,     \* PAUSED_PLAYERS, in whatever order
    task,       \* what dispatch() is doing for an ear-detection event
    todo,       \* the services its loop has still to visit
    asked,      \* the service that has just said it is playing
    mine,       \* send_pause's own list
    ours,       \* ghost: players with a Pause of ours and no Play of ours since
    stopped,    \* ghost: players we stopped that nobody has touched since
    refused,    \* ghost: of those, the ones whose Play has failed
    overwritten \* ghost: a list that was not empty was replaced

mediaVars == <<player, enabled, paused, task, todo, asked, mine, ours, stopped, refused,
                   overwritten>>
vars == <<eventVars, mediaVars>>

MediaTypeOK ==
    /\ EventTypeOK
    /\ player \in [Player -> {"playing", "paused"}]
    /\ {enabled, overwritten} \subseteq BOOLEAN
    /\ task \in {"no", "play", "pause", "done"}
    /\ asked \in Player \cup {None}
    /\ \A s \in {paused, todo, mine, ours, stopped, refused} : s \subseteq Player

Init ==
    /\ EventInit
    /\ player \in [Player -> {"playing", "paused"}]
    /\ enabled = FALSE /\ overwritten = FALSE
    /\ task = "no" /\ asked = None
    /\ paused = {} /\ todo = {} /\ mine = {} /\ ours = {}
    /\ stopped = {} /\ refused = {}

-----------------------------------------------------------------------------
(* dispatch() of an EarDetectionChanged whose signals were sent.            *)

Turn(next) ==
    /\ task' = next
    /\ UNCHANGED eventVars

\* send_play: nothing to do if switched off or nothing was paused by us
BeginPlay ==
    /\ disp = "dispatch" /\ task = "no"
    /\ Turn(IF enabled /\ paused # {} THEN "play" ELSE "done")
    /\ todo' = IF enabled THEN paused ELSE {}
    /\ UNCHANGED <<player, enabled, paused, asked, mine, ours, stopped, refused,
                   overwritten>>

\* Play is called; of a player that fails no more is made than a log line.
Play(p, answers) ==
    /\ task = "play" /\ p \in todo
    /\ todo' = todo \ {p}
    /\ player' = IF answers THEN [player EXCEPT ![p] = "playing"] ELSE player
    /\ ours' = ours \ {p}
    /\ stopped' = IF answers THEN stopped \ {p} ELSE stopped
    /\ refused' = IF answers THEN refused \ {p} ELSE refused \cup {p}
    /\ UNCHANGED <<eventVars, enabled, paused, task, asked, mine, overwritten>>

\* mutant: the list is kept for the next time
EndPlayKeeping ==
    /\ task = "play" /\ todo = {}
    /\ Turn("done")
    /\ UNCHANGED <<player, enabled, paused, todo, asked, mine, ours, stopped, refused,
                   overwritten>>

EndPlay ==
    /\ task = "play" /\ todo = {}
    /\ Turn("done")
    /\ paused' = {}
    /\ UNCHANGED <<player, enabled, todo, asked, mine, ours, stopped, refused,
                   overwritten>>

\* send_pause: the services on the bus, unless switched off or the bus fails;
\* to visit one that is not there is to visit one that does not answer
BeginPause ==
    /\ disp = "dispatch" /\ task = "no"
    /\ \/ /\ enabled
          /\ todo' = Player
          /\ Turn("pause")
       \/ todo' = {} /\ Turn("done")
    /\ UNCHANGED <<player, enabled, paused, asked, mine, ours, stopped, refused,
                   overwritten>>

\* is_player_playing; one that does not say is skipped
AskStatus(p, answers) ==
    /\ task = "pause" /\ asked = None /\ p \in todo
    /\ todo' = todo \ {p}
    /\ asked' = IF answers /\ player[p] = "playing" THEN p ELSE None
    /\ UNCHANGED <<eventVars, player, enabled, paused, task, mine, ours, stopped, refused,
                   overwritten>>

\* Pause is called; by now the player may have been paused by someone else.
Pause(answers) ==
    LET p == asked IN
    /\ task = "pause" /\ p # None
    /\ asked' = None
    /\ IF answers
       THEN /\ player' = [player EXCEPT ![p] = "paused"]
            /\ mine' = mine \cup {p}
            /\ ours' = ours \cup {p}
            /\ stopped' = IF player[p] = "playing" THEN stopped \cup {p} ELSE stopped
            /\ refused' = refused \ {p}
       ELSE UNCHANGED <<player, mine, ours, stopped, refused>>
    /\ UNCHANGED <<eventVars, enabled, paused, task, todo, overwritten>>

\* mutant: the list is replaced even if nothing was paused now
EndPauseAlways ==
    /\ task = "pause" /\ todo = {} /\ asked = None
    /\ Turn("done")
    /\ paused' = mine
    /\ mine' = {}
    /\ overwritten' = (overwritten \/ (mine # {} /\ paused # {}))
    /\ UNCHANGED <<player, enabled, todo, asked, ours, stopped, refused>>

EndPause ==
    /\ task = "pause" /\ todo = {} /\ asked = None
    /\ Turn("done")
    /\ paused' = IF mine = {} THEN paused ELSE mine
    /\ mine' = {}
    /\ overwritten' = (overwritten \/ (mine # {} /\ paused # {}))
    /\ UNCHANGED <<player, enabled, todo, asked, ours, stopped, refused>>

\* dispatch() returns: after an ear-detection event, or at once for any other,
\* or when a signal could not be sent, which skips the players.
EndDispatch ==
    /\ task \in {"no", "done"}
    /\ Dispatched
    /\ task' = "no"
    /\ UNCHANGED <<player, enabled, paused, todo, asked, mine, ours, stopped, refused,
                   overwritten>>

DispatchStep ==
    \/ BeginPlay \/ EndPlay \/ BeginPause \/ EndPause \/ EndDispatch
    \/ \E answers \in BOOLEAN :
          \/ Pause(answers)
          \/ \E p \in Player : Play(p, answers) \/ AskStatus(p, answers)

-----------------------------------------------------------------------------
(* The users.                                                               *)

\* A player starts, or is paused or closed, by its user's hand.
UserActs(p, status) ==
    /\ player' = [player EXCEPT ![p] = status]
    /\ stopped' = stopped \ {p} /\ refused' = refused \ {p}
    /\ UNCHANGED <<eventVars, enabled, paused, task, todo, asked, mine, ours, overwritten>>

\* set_enabled, from the D-Bus client; the list is left alone
SetEnabled ==
    /\ enabled' = ~enabled
    /\ UNCHANGED <<eventVars, player, paused, task, todo, asked, mine, ours, stopped, refused,
                   overwritten>>

Next ==
    \/ /\ \/ RecvStep \/ TimedOut
          \/ \E e \in Emitter : EmitPush(e) \/ EmitNotify(e) \/ DropSender(e)
       /\ UNCHANGED mediaVars
    \/ DispatchStep
    \/ \E p \in Player, status \in {"playing", "paused"} : UserActs(p, status)
    \/ SetEnabled

\* As in EventSpec; and every call to a player is answered or fails.
Fairness ==
    /\ WF_vars((RecvStep /\ UNCHANGED mediaVars) \/ DispatchStep)
    /\ \A e \in Emitter : WF_vars(EmitNotify(e) /\ UNCHANGED mediaVars)

Spec == Init /\ [][Next]_vars /\ Fairness

-----------------------------------------------------------------------------
(* "Only plays if we previously paused the media" (media_control.rs:27):    *)
(* whoever is to be played, now or later, was paused by a call of ours and  *)
(* has not been played by us since, whatever calls failed, players went or  *)
(* came, and however often the feature was switched.                        *)
ResumesOnlyOurs ==
    /\ task # "play" => paused \subseteq ours
    /\ task = "play" => todo \subseteq ours
    /\ mine \subseteq ours

(* "Tracks which players we paused (so we can resume all of them)"          *)
(* (media_control.rs:14): a player we stopped and nobody touched since is   *)
(* remembered, through further removals of a bud and failed calls.  Not so  *)
(* once a later removal that stopped another player replaced the list; and  *)
(* a resume forgets a player whose Play failed, "since we've resumed them   *)
(* all" (media_control.rs:68).                                              *)
StoppedRemembered == ~overwritten => stopped \ refused \subseteq paused \cup mine
=============================================================================
