---------------------------- MODULE MatchSession ----------------------------
(***************************************************************************)
(* The application shell (cmd/herbiego/app_flow.go): start menu and        *)
(* gameplay screen, the session they share, and the plays, the goroutines  *)
(* of MatchRunner.Play that each gameplay screen starts and that go on in  *)
(* the background after the user has returned to the menu.                 *)
(*                                                                         *)
(* How a play collects a round is the subject of LiveMatch; here it        *)
(* collects, resolves and commits.  A play reports its end on its events   *)
(* channel, one message at a time to one command that waits for it, and    *)
(* the shell hands every message to the screen of the moment.  The match   *)
(* ids of new games hold the time of day and are fresh, unless the         *)
(* configuration gives one.                                                *)
(*                                                                         *)
(* A definition marked "Mutant" is a deliberately wrong variant of the one *)
(* that follows it; no specification uses it.                              *)
(***************************************************************************)
EXTENDS MatchStore, Integers, FiniteSets

CONSTANTS RoundsToPlay,   \* the -rounds flag
          ConfiguredIds,  \* match ids that a configuration file may give
          MaxPlays        \* bound: gameplay screens opened

ASSUME SessionAssumption ==
  /\ RoundsToPlay \in Nat \ {0} /\ MaxPlays \in Nat
  /\ ConfiguredIds \subseteq Matches

VARIABLES
  withStore,  \* the program runs with -sqlite-db
  screen,     \* "menu", "game", or "none": the program does not run
  exit,       \* how it ended: "user", "matchFailed", "matchNotFound"
  session,    \* appShellModel.current: a match and a state of it
  game,       \* the play of the gameplay screen
  plays       \* every play ever started

shellVars == <<screen, exit, session, game>>
vars == <<storeVars, withStore, shellVars, plays>>

NoSession == [match |-> "none", state |-> << >>]
PlayIds == DOMAIN plays

Running == {"starting", "collecting", "resolving"}
Over == {"complete", "canceled", "failed", "killed"}

(* newGameplayScreen: the goroutine, its controller, its events            *)
NewPlay(m, state) ==
  [match |-> m, state |-> state, latest |-> state, stage |-> "starting",
   left |-> RoundsToPlay, cancelled |-> FALSE, events |-> << >>, waiters |-> 1]

Init ==
  /\ StoreInit
  /\ withStore \in BOOLEAN
  /\ screen = "menu" /\ exit = "none"
  /\ session = NoSession /\ game = 0
  /\ plays = << >>

-----------------------------------------------------------------------------
(* The shell.                                                              *)

(* the items of the start menu that enter activates                        *)
Enabled(item) ==
  /\ screen = "menu"
  /\ item \in {"resume", "save"} => session # NoSession
  /\ item \in {"load", "save"} => withStore
  /\ item = "load" => slots # << >>

(* the process ends, and its goroutines with it                            *)
EndProcess(reason) ==
  /\ screen' = "none" /\ exit' = reason
  /\ session' = NoSession /\ game' = 0
  /\ plays' = [p \in PlayIds |->
       [plays[p] EXCEPT !.events = << >>, !.waiters = 0,
                        !.stage = IF @ \in Running THEN "killed" ELSE @]]

(* enterGameplay: with a store, the snapshots of the match must be there   *)
Enter(m, state) ==
  /\ Len(plays) < MaxPlays
  /\ \/ /\ withStore /\ ~Known(m)
        /\ EndProcess("matchNotFound")
     \/ /\ withStore => Known(m)
        /\ plays' = Append(plays, NewPlay(m, state))
        /\ screen' = "game" /\ game' = Len(plays) + 1
        /\ session' = [match |-> m, state |-> state]
        /\ exit' = "none"
  /\ UNCHANGED <<storeVars, withStore>>

Fresh(m) == ~Known(m) /\ \A p \in PlayIds : plays[p].match # m

StartNewGame(m) ==
  /\ Enabled("start")
  /\ Fresh(m) \/ m \in ConfiguredIds
  /\ Enter(m, << >>)

ResumeGame ==
  /\ Enabled("resume")
  /\ Enter(session.match, session.state)

LoadGame(slot) ==
  /\ Enabled("load") /\ slot \in DOMAIN slots
  /\ Enter(slots[slot].match, SlotState(slot))

SaveGame(slot) ==
  /\ Enabled("save") /\ Known(session.match)
  /\ SaveSlot(slot, session.match)
  /\ UNCHANGED <<withStore, shellVars, plays>>

(* q: the session keeps the last published state, the play is cancelled    *)
ReturnToMenu ==
  /\ screen = "game"
  /\ session' = [session EXCEPT !.state = plays[game].latest]
  /\ plays' = [plays EXCEPT ![game].cancelled = TRUE]
  /\ screen' = "menu" /\ game' = 0
  /\ UNCHANGED <<storeVars, withStore, exit>>

(* exit, ctrl+c, or a crash of the process                                 *)
Stop ==
  /\ screen # "none"
  /\ EndProcess("user")
  /\ UNCHANGED <<storeVars, withStore>>

Restart ==
  /\ screen = "none"
  /\ screen' = "menu" /\ exit' = "none"
  /\ UNCHANGED <<storeVars, withStore, session, game, plays>>

(* -resume-match-id: CurrentState, then the gameplay screen after the splash *)
RestartWithMatch(m) ==
  /\ screen = "none" /\ withStore /\ Known(m)
  /\ Enter(m, stored[m])

-----------------------------------------------------------------------------
(* MatchRunner.Play.                                                       *)

MovePlay(p, from, play) ==
  /\ plays[p].stage = from
  /\ plays' = [plays EXCEPT ![p] = play]
  /\ UNCHANGED <<withStore, shellVars>>

(* the events are a status line, except after a cancellation, and the end  *)
Ended(play, outcome) ==
  [play EXCEPT !.stage = outcome,
               !.events = IF outcome = "canceled" THEN <<outcome>>
                          ELSE <<"status", outcome>>]

(* the match is created in the store unless it is there; its id is that of *)
(* a match the screen has found there                                      *)
FindMatch(p) ==
  /\ MovePlay(p, "starting", [plays[p] EXCEPT !.stage = "collecting"])
  /\ IF withStore /\ ~Known(plays[p].match)
     THEN CreateMatch(plays[p].match, plays[p].state)
     ELSE UNCHANGED storeVars

(* also after a cancellation: what everybody has submitted by then, or AI  *)
(* roles that recover from it                                              *)
CollectRound(p) ==
  /\ MovePlay(p, "collecting", [plays[p] EXCEPT !.stage = "resolving"])
  /\ UNCHANGED storeVars

CollectStops(p) ==
  /\ plays[p].cancelled
  /\ MovePlay(p, "collecting", Ended(plays[p], "canceled"))
  /\ UNCHANGED storeVars

CollectFails(p) ==
  /\ MovePlay(p, "collecting", Ended(plays[p], "failed"))
  /\ UNCHANGED storeVars

(* Mutant: the play has one round too many.                                *)
ProceededOnceMore(play, next) ==
  LET on == [play EXCEPT !.state = next, !.latest = next, !.left = @ - 1]
  IN  IF play.left < 1 THEN Ended(on, "complete")
      ELSE [on EXCEPT !.stage = "collecting"]

(* the state revealed, and the next round or the end of the play           *)
Proceeded(play, next) ==
  LET on == [play EXCEPT !.state = next, !.latest = next, !.left = @ - 1]
  IN  IF play.left = 1 THEN Ended(on, "complete")
      ELSE [on EXCEPT !.stage = "collecting"]

Resolved(p) == Append(plays[p].state, p)

ResolveRound(p) ==
  /\ withStore => ~Refuses(plays[p].match, Resolved(p))
  /\ MovePlay(p, "resolving", Proceeded(plays[p], Resolved(p)))
  /\ IF withStore THEN CommitRound(plays[p].match, Resolved(p))
     ELSE UNCHANGED storeVars

(* Mutant: the state is published before it is committed.                  *)
CommitFailsAfterReveal(p) ==
  /\ withStore
  /\ MovePlay(p, "resolving", Ended([plays[p] EXCEPT !.latest = Resolved(p)], "failed"))
  /\ UNCHANGED storeVars

(* the round is refused, or the database fails                             *)
CommitFails(p) ==
  /\ withStore
  /\ MovePlay(p, "resolving", Ended(plays[p], "failed"))
  /\ UNCHANGED storeVars

-----------------------------------------------------------------------------
(* The message loop of the shell and the events of the plays.              *)

Taken(p) == [plays EXCEPT ![p].events = Tail(@), ![p].waiters = @ - 1]

DropEvent(p) ==
  /\ screen = "menu"
  /\ plays' = Taken(p)
  /\ UNCHANGED shellVars

(* no command waits for the message that follows the status line           *)
ShowStatus(p) ==
  /\ screen = "game" /\ Head(plays[p].events) = "status"
  /\ plays' = Taken(p)
  /\ UNCHANGED shellVars

(* Mutant: the session takes the state of the play that has ended.         *)
PlayDoneOfSender(p) ==
  /\ screen = "game" /\ Head(plays[p].events) \in {"complete", "canceled"}
  /\ session' = [session EXCEPT !.state = plays[p].latest]
  /\ plays' = [Taken(p) EXCEPT ![game].waiters = @ + 1]
  /\ UNCHANGED <<screen, exit, game>>

(* gameplayRunnerDoneMsg, of this play or an earlier one: the session is   *)
(* that of the screen, and so are the events waited for next               *)
PlayDone(p) ==
  /\ screen = "game" /\ Head(plays[p].events) \in {"complete", "canceled"}
  /\ session' = [session EXCEPT !.state = plays[game].latest]
  /\ plays' = [Taken(p) EXCEPT ![game].waiters = @ + 1]
  /\ UNCHANGED <<screen, exit, game>>

PlayFailed(p) ==
  /\ screen = "game" /\ Head(plays[p].events) = "failed"
  /\ EndProcess("matchFailed")

HandleEvent(p) ==
  /\ plays[p].waiters > 0 /\ plays[p].events # << >>
  /\ DropEvent(p) \/ ShowStatus(p) \/ PlayDone(p) \/ PlayFailed(p)
  /\ UNCHANGED <<storeVars, withStore>>

(* the channel is closed and empty: gameplayEventsClosedMsg                *)
EventsClosed(p) ==
  /\ plays[p].waiters > 0 /\ plays[p].events = << >> /\ plays[p].stage \in Over
  /\ plays' = [plays EXCEPT ![p].waiters = @ - 1]
  /\ UNCHANGED <<storeVars, withStore, shellVars>>

Shell ==
  \/ \E m \in Matches : StartNewGame(m)
  \/ ResumeGame
  \/ \E slot \in Slots : LoadGame(slot)
  \/ \E slot \in Slots : SaveGame(slot)
  \/ ReturnToMenu
  \/ Stop
  \/ Restart
  \/ \E m \in Matches : RestartWithMatch(m)

Play(p) ==
  \/ FindMatch(p)
  \/ CollectRound(p) \/ CollectStops(p) \/ CollectFails(p)
  \/ ResolveRound(p) \/ CommitFails(p)

Next ==
  \/ Shell
  \/ \E p \in PlayIds : Play(p)
  \/ \E p \in PlayIds : HandleEvent(p)
  \/ \E p \in PlayIds : EventsClosed(p)

Spec == Init /\ [][Next]_vars

-----------------------------------------------------------------------------
(* Properties.                                                             *)

Histories == Seq(1 .. MaxPlays)

(* Every variable has its type; a play ends after its rounds, and no more  *)
(* commands wait on its events than screens were opened.                   *)
TypeOK ==
  /\ DOMAIN stored \subseteq Matches /\ \A m \in DOMAIN stored : stored[m] \in Histories
  /\ rounds \in [DOMAIN stored -> Seq([number : Nat, by : PlayIds])]
  /\ snapshots \in [DOMAIN stored -> Seq(Histories)]
  /\ DOMAIN slots \subseteq Slots
  /\ withStore \in BOOLEAN /\ screen \in {"menu", "game", "none"}
  /\ exit \in {"none", "user", "matchFailed", "matchNotFound"}
  /\ session = NoSession \/ session.match \in Matches
  /\ game \in PlayIds \union {0} /\ (game = 0) = (screen # "game")
  /\ \A p \in PlayIds :
       /\ plays[p].match \in Matches /\ plays[p].stage \in Running \union Over
       /\ plays[p].left \in 0 .. RoundsToPlay
       /\ plays[p].waiters \in 0 .. MaxPlays

(* With a store, nothing is on a screen or kept as the session that is not *)
(* committed: what the user sees survives a crash, also while an older     *)
(* play of the same match still runs.                                      *)
NothingUncommittedShown ==
  withStore =>
    /\ \A p \in PlayIds : IsPrefix(plays[p].latest, stored[plays[p].match])
    /\ session # NoSession => IsPrefix(session.state, stored[session.match])

(* The session is the match on the screen, at a state its play has gone    *)
(* through, although messages of other plays reach the screen too.         *)
SessionFollowsItsScreen ==
  screen = "game" =>
    /\ session.match = plays[game].match
    /\ IsPrefix(session.state, plays[game].latest)

(* The tables implement the in-memory store: whatever plays of one match   *)
(* commit and whichever are refused, a match is never created again, its   *)
(* rounds are only appended to, in order, and the state a play hands in    *)
(* has exactly the history the store has recorded.                         *)
Recorded(state) == [round |-> CurrentRound(state), history |-> History(state)]
RecordedAll(rows) == [i \in DOMAIN rows |-> Recorded(rows[i])]

StoredMatches ==
  [m \in DOMAIN stored |-> [state |-> Recorded(stored[m]), rounds |-> rounds[m],
                            snapshots |-> RecordedAll(snapshots[m])]]

Memory == INSTANCE MemoryStore WITH
  MatchIDs <- Matches, Opening <- OpeningMatches,
  Plays <- 1 .. MaxPlays, MaxRounds <- MaxPlays * RoundsToPlay,
  matches <- StoredMatches

ImplementsMemoryStore == Memory!Spec

(* A game that the menu starts opens its screen.                           *)
NewGamesStart == exit # "matchNotFound"
=============================================================================
