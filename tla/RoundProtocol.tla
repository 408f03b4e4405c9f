--------------------------- MODULE RoundProtocol ---------------------------
(***************************************************************************)
(* What round collection promises, apart from goroutines, channels and the *)
(* user interface: in every round each role has one action accepted, in    *)
(* any order; the round is committed when no role is missing, and then the *)
(* next one opens; a match may be given up in any round, and a match that  *)
(* is over stays over.  LiveMatch implements it.                           *)
(***************************************************************************)
EXTENDS Naturals

CONSTANTS Roles,     \* the assigned roles of the match
          MaxRound   \* rounds the match is played for

VARIABLES round,     \* the round being collected
          accepted,  \* roles whose action for this round has been accepted
          over

vars == <<round, accepted, over>>

Init ==
  /\ round = 1
  /\ accepted = {}
  /\ over = FALSE

Accept(role) ==
  /\ ~over /\ round <= MaxRound
  /\ role \notin accepted
  /\ accepted' = accepted \cup {role}
  /\ UNCHANGED <<round, over>>

CommitRound ==
  /\ ~over
  /\ accepted = Roles
  /\ round' = round + 1
  /\ accepted' = {}
  /\ UNCHANGED over

End ==
  /\ ~over
  /\ over' = TRUE
  /\ accepted' = {}
  /\ UNCHANGED round

Next ==
  \/ \E role \in Roles : Accept(role)
  \/ CommitRound
  \/ End

Spec == Init /\ [][Next]_vars
=============================================================================
