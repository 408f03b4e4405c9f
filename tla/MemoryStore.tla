----------------------------- MODULE MemoryStore -----------------------------
(***************************************************************************)
(* The in-memory store of matches (internal/adapters/persistence/memory):  *)
(* one record per match under one mutex, so that each operation is one     *)
(* step.  It is the plainest implementation of the port the SQLite store   *)
(* implements too, and serves as the abstract specification of that one:   *)
(* MatchSession shows that its tables behave as this store does.           *)
(*                                                                         *)
(* Of a round only its number and the play that resolved it are kept, of a *)
(* state its current round and its history.  The window of recent rounds   *)
(* (RecentHistoryLimit) is left out, and so are the events and commentary, *)
(* which are those of the rounds.                                          *)
(***************************************************************************)
EXTENDS Naturals, Sequences, SequencesExt, TLC

CONSTANTS MatchIDs, Opening,   \* the matches held when the store is opened
          Plays,               \* who resolves rounds
          MaxRounds            \* bound: rounds of a match

VARIABLE matches

Rounds == [number : 1 .. MaxRounds, by : Plays]

State(round, history) == [round |-> round, history |-> history]

Created(state) ==
  [state |-> state, snapshots |-> <<state>>, rounds |-> state.history]

StartState == State(1, << >>)

Init == matches = [m \in Opening |-> Created(StartState)]

CreateMatch(m, initial) ==
  /\ m \notin DOMAIN matches
  /\ matches' = matches @@ (m :> Created(initial))

AppendOrReplaceSnapshot(snapshots, next) ==
  IF \E i \in DOMAIN snapshots : snapshots[i].round = next.round
  THEN [i \in DOMAIN snapshots |-> IF snapshots[i].round = next.round THEN next ELSE snapshots[i]]
  ELSE Append(snapshots, next)

(* the round must be greater than the last; the state that is kept has the *)
(* history of the store, whatever history it comes with                    *)
CommitRound(m, round) ==
  /\ m \in DOMAIN matches
  /\ matches[m].rounds # << >> => round.number > Last(matches[m].rounds).number
  /\ LET history == Append(matches[m].rounds, round)
         next == State(round.number + 1, history)
     IN  matches' = [matches EXCEPT
           ![m] = [state |-> next, rounds |-> history,
                   snapshots |-> AppendOrReplaceSnapshot(@.snapshots, next)]]

Next ==
  \E m \in MatchIDs :
    \/ CreateMatch(m, StartState)
    \/ \E round \in Rounds : CommitRound(m, round)

Spec == Init /\ [][Next]_matches

=============================================================================
