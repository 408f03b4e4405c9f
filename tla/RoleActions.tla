----------------------------- MODULE RoleActions -----------------------------
(***************************************************************************)
(* The action a role submits for a round, and the gates it passes: the     *)
(* action schema (internal/actionschema/validate.go), the completion of a  *)
(* submission by the round collector, and the checks of the resolver,      *)
(* which does not resolve a round with an action it refuses.               *)
(*                                                                         *)
(* Of an action, only what the gates tell apart is kept: the payloads it   *)
(* holds, the kinds of reference in it that the scenario does not know,    *)
(* whether a number is negative, and the effective round of a finance      *)
(* payload; "decided" names its contents.                                  *)
(***************************************************************************)
EXTENDS Naturals, Sequences, FiniteSets

RoleIDs == {"procurement", "production", "sales", "finance"}

(* a product, part or supplier, and a workstation                          *)
References == {"item", "workstation"}

Actions(contents, roundNumbers) ==
  [decided : contents, payloads : SUBSET RoleIDs, unknown : SUBSET References,
   negative : BOOLEAN, effective : roundNumbers]

-----------------------------------------------------------------------------
(* The action schema, for the view of a round.                             *)

ValidateFinanceTargets(action, targets) == action.effective = targets.effective + 1

ValidateRoleAction(role, action, targets) ==
  /\ action.payloads = {role}
  /\ action.unknown = {} /\ ~action.negative
  /\ role = "finance" => ValidateFinanceTargets(action, targets)

-----------------------------------------------------------------------------
(* What a role submits.  A field that is not set is 0 or "".  "id" stands  *)
(* for the ActionID and the SubmittedAt, each named by the round that gave *)
(* it.                                                                     *)

Submission(action) == [round |-> 0, role |-> "", id |-> 0, action |-> action]

ResponseToSubmission(action, role, round) ==
  [Submission(action) EXCEPT !.round = round, !.role = role]

(* no orders, no releases, no offers, the targets that are in force        *)
SafeNoOpAction(role, targets) ==
  [decided |-> IF role = "finance" THEN targets.decided ELSE 0,
   payloads |-> {role}, unknown |-> {}, negative |-> FALSE,
   effective |-> IF role = "finance" THEN targets.effective ELSE 0]

(* previous: the accepted submission of the role, or the empty set         *)
FallbackSubmission(role, round, targets, previous) ==
  {[p EXCEPT !.round = round, !.role = role] :
     p \in IF previous # {} THEN previous
           ELSE {Submission(SafeNoOpAction(role, targets))}}

RecoveredSubmission(role, targets, previous) ==
  IF previous # {} THEN previous ELSE {Submission(SafeNoOpAction(role, targets))}

(* Mutant: a submission that says its round and role keeps them.           *)
NormalizeWhatIsMissing(submission, role, round) ==
  [submission EXCEPT !.round = IF @ = 0 THEN round ELSE @,
                     !.role = IF @ = "" THEN role ELSE @,
                     !.id = IF @ = 0 THEN round ELSE @]

(* round and role are those of the request; an id and a time are kept      *)
NormalizeSubmission(submission, role, round) ==
  [submission EXCEPT !.round = round, !.role = role,
                     !.id = IF @ = 0 THEN round ELSE @]

-----------------------------------------------------------------------------
(* The resolver.                                                           *)

AssignedRoles(roster) == roster

(* quantities, prices and targets; a workstation is looked up in the plant *)
ValidateActionSubmission(submission) ==
  /\ submission.action.payloads = {submission.role}
  /\ ~submission.action.negative
  /\ submission.role = "production" => "workstation" \notin submission.action.unknown

NormalizeActions(roster, round, submissions) ==
  /\ \A i \in DOMAIN submissions :
       /\ submissions[i].round = round
       /\ submissions[i].role \in RoleIDs \intersect AssignedRoles(roster)
       /\ ValidateActionSubmission(submissions[i])
  /\ \A i, j \in DOMAIN submissions :
       submissions[i].role = submissions[j].role => i = j

=============================================================================
