----------------------------- MODULE AIDecision -----------------------------
(***************************************************************************)
(* How an AI role gets the action of a round: AIOrchestrator.Decide        *)
(* (internal/app/ai_orchestrator.go) with its retries, lookups and         *)
(* fallback, the recovery of the llm player from a provider that does not  *)
(* respond, and the accepted actions the match runner hands to the next    *)
(* round, or to the next Play of the same match.                           *)
(*                                                                         *)
(* One role is modelled.  Other roles, the commit and the user end a Play  *)
(* at any time (LiveMatch, MatchSession); a later Play starts from the     *)
(* committed rounds.  The contents of an action are named by the round in  *)
(* which they were decided; 0 are those of a new match.                    *)
(*                                                                         *)
(* A definition marked "Mutant" is a deliberately wrong variant of the one *)
(* that follows it; no specification uses it.                              *)
(***************************************************************************)
EXTENDS RoleActions, SequencesExt

CONSTANTS MaxAttempts, MaxToolCalls,  \* 3 and 2 in NewAIOrchestrator
          Roles,                      \* the AI roles to look at
          MaxRound,                   \* bound: rounds of the match
          MaxPlays                    \* bound: Plays of the match

ASSUME DecisionAssumption ==
  /\ Roles \subseteq RoleIDs
  /\ MaxAttempts \in Nat \ {0} /\ MaxToolCalls \in Nat \ {0}
  /\ MaxRound \in Nat /\ MaxPlays \in Nat \ {0}

(* NewAIOrchestrator leaves an attempt beyond the lookups                  *)
ASSUME BudgetAssumption == MaxToolCalls < MaxAttempts

VARIABLES
  role,       \* the role that decides
  rounds,     \* committed rounds: the submission accepted, how it was obtained
  targets,    \* ActiveTargets: whose they are, and their effective round
  previous,   \* MatchRunner's previous accepted submission: at most one
  stage,      \* of the decision: "asking", "submitted", or "ended" with the Play
  calls,      \* provider calls of this decision and what became of each; the
              \* AICallRecords do not tell a refused lookup from a granted one
  toolCalls,
  feedback,   \* attempt number in the RetryFeedback of the next call, or 0
  submission, \* what the role hands in, and by which way
  nplays      \* Plays started

decisionVars == <<calls, toolCalls, feedback>>
matchVars == <<role, rounds, targets>>
vars == <<matchVars, previous, stage, decisionVars, submission, nplays>>

Unsubmitted == [sub |-> {}, by |-> "nobody"]

CurrentRound == Len(rounds) + 1
Attempt == Len(calls) + 1

BeginDecision ==
  /\ stage' = "asking" /\ submission' = Unsubmitted
  /\ calls' = << >> /\ toolCalls' = 0 /\ feedback' = 0

Init ==
  /\ role \in Roles /\ rounds = << >> /\ previous = {}
  /\ targets = [decided |-> 0, effective |-> 1]
  /\ stage = "asking" /\ submission = Unsubmitted
  /\ calls = << >> /\ toolCalls = 0 /\ feedback = 0
  /\ nplays = 1

-----------------------------------------------------------------------------
(* What the provider may answer: a text without a JSON object that can be  *)
(* read, a call of a lookup tool, or a decision.                           *)

Unreadable == [shape : {"unreadable"}]
ToolCalls == [shape : {"lookup"}, known : BOOLEAN, complete : BOOLEAN]
Decisions ==
  LET other == CHOOSE r \in RoleIDs : r # role
  IN  [shape : {"decision"}, commentary : {"none", "fits", "long"},
       action : {a \in Actions({CurrentRound}, {targets.effective, targets.effective + 1}) :
                   a.payloads \subseteq {role, other}}]

ValidateToolCall(call) == call.known /\ call.complete

ValidateDecisionResponse(response) ==
  /\ Cardinality(response.action.payloads) = 1
  /\ ValidateRoleAction(role, response.action, targets)
  /\ response.commentary = "fits"

Refused(answer) ==
  \/ answer.shape = "unreadable"
  \/ answer.shape = "lookup" /\ ~ValidateToolCall(answer)
  \/ answer.shape = "decision" /\ ~ValidateDecisionResponse(answer)

-----------------------------------------------------------------------------
(* One provider call, recorded with its result.                            *)

(* Mutant: one attempt more than the limit.                                *)
CallProviderOnceMore(result) ==
  /\ stage = "asking" /\ Attempt <= MaxAttempts + 1
  /\ calls' = Append(calls, result)
  /\ UNCHANGED <<matchVars, previous, nplays>>

CallProvider(result) ==
  /\ stage = "asking" /\ Attempt <= MaxAttempts
  /\ calls' = Append(calls, result)
  /\ UNCHANGED <<matchVars, previous, nplays>>

(* the collector completes what the player hands in                        *)
Submit(s, by) ==
  /\ stage' = "submitted"
  /\ submission' = [sub |-> {NormalizeSubmission(s, role, CurrentRound)}, by |-> by]

Undecided == UNCHANGED <<stage, submission>>

Answered ==
  /\ CallProvider("valid")
  /\ \E answer \in Decisions :
       /\ ~Refused(answer)
       /\ Submit(ResponseToSubmission(answer.action, role, CurrentRound), "decision")
  /\ UNCHANGED <<toolCalls, feedback>>

RefuseAnswer ==
  /\ \E answer \in Unreadable \union ToolCalls \union Decisions : Refused(answer)
  /\ CallProvider("refused")
  /\ feedback' = Attempt
  /\ Undecided /\ UNCHANGED toolCalls

(* Mutant: one lookup more than the budget.                                *)
GrantLookupOverBudget ==
  /\ toolCalls <= MaxToolCalls
  /\ CallProvider("lookup")
  /\ toolCalls' = toolCalls + 1
  /\ feedback' = 0
  /\ Undecided

GrantLookup ==
  /\ toolCalls < MaxToolCalls
  /\ CallProvider("lookup")
  /\ toolCalls' = toolCalls + 1
  /\ feedback' = 0
  /\ Undecided

(* over the budget, or the scenario does not find what is asked for        *)
RefuseLookup ==
  /\ CallProvider("refused")
  /\ toolCalls' = toolCalls + 1
  /\ feedback' = Attempt
  /\ Undecided

(* timeout or transport failure: not retried, the llm player recovers      *)
NoResponse ==
  /\ CallProvider("unanswered")
  /\ \E s \in RecoveredSubmission(role, targets, previous) : Submit(s, "recovery")
  /\ UNCHANGED <<toolCalls, feedback>>

(* any other error, as a reply without choices, ends the Play              *)
ProviderBroken ==
  /\ CallProvider("broken")
  /\ stage' = "ended"
  /\ UNCHANGED <<toolCalls, feedback, submission>>

Fallback ==
  /\ stage = "asking" /\ Attempt > MaxAttempts
  /\ \E s \in FallbackSubmission(role, CurrentRound, targets, previous) :
       Submit(s, "fallback")
  /\ UNCHANGED <<matchVars, previous, decisionVars, nplays>>

-----------------------------------------------------------------------------
(* MatchRunner.Play.                                                       *)

(* the targets of a finance submission are in force from the next round    *)
NextTargets(s) ==
  IF role = "finance"
  THEN [decided |-> s.action.decided, effective |-> CurrentRound + 1]
  ELSE targets

(* the round is resolved and committed with every role's submission        *)
CommitRound ==
  /\ stage = "submitted" /\ Len(rounds) < MaxRound
  /\ \E s \in submission.sub :
       /\ NormalizeActions(RoleIDs, CurrentRound, <<s>>)
       /\ rounds' = Append(rounds, [sub |-> s, by |-> submission.by])
       /\ targets' = NextTargets(s)
       /\ previous' = {s}
  /\ BeginDecision
  /\ UNCHANGED <<role, nplays>>

(* another role fails, the round is not committed, or the user leaves      *)
EndPlay ==
  /\ stage # "ended"
  /\ stage' = "ended"
  /\ UNCHANGED <<matchVars, previous, decisionVars, submission, nplays>>

(* Mutant: a new Play starts without accepted actions.                     *)
PreviousAcceptedActionsEmpty == {}

(* the actions in the history of the state: those of the latest round      *)
PreviousAcceptedActions ==
  IF rounds = << >> THEN {} ELSE {Last(rounds).sub}

NextPlay ==
  /\ stage = "ended" /\ nplays < MaxPlays
  /\ nplays' = nplays + 1
  /\ previous' = PreviousAcceptedActions
  /\ BeginDecision
  /\ UNCHANGED matchVars

(* the horizon of the model                                                *)
Horizon ==
  /\ \/ stage = "submitted" /\ Len(rounds) = MaxRound
     \/ stage = "ended" /\ nplays = MaxPlays
  /\ UNCHANGED vars

Next ==
  \/ Answered \/ RefuseAnswer \/ GrantLookup \/ RefuseLookup
  \/ NoResponse \/ ProviderBroken \/ Fallback
  \/ CommitRound \/ EndPlay \/ NextPlay
  \/ Horizon

Spec == Init /\ [][Next]_vars

-----------------------------------------------------------------------------
(* Properties.                                                             *)

Results == {"valid", "refused", "lookup", "unanswered", "broken"}
Submissions ==
  [round : 1 .. MaxRound + 1, role : {role}, id : 1 .. MaxRound + 1,
   action : Actions(0 .. MaxRound + 1, 0 .. MaxRound + 2)]

(* Every variable has its type; a decision makes at most MaxAttempts calls *)
(* whatever mixture of lookups and refused answers it meets.               *)
TypeOK ==
  /\ role \in Roles /\ stage \in {"asking", "submitted", "ended"}
  /\ \A i \in DOMAIN rounds :
       rounds[i].sub \in Submissions /\ rounds[i].by \in {"decision", "recovery", "fallback"}
  /\ targets \in [decided : 0 .. MaxRound, effective : 1 .. MaxRound + 1]
  /\ previous \subseteq Submissions /\ submission.sub \subseteq Submissions
  /\ calls \in Seq(Results) /\ Len(calls) \in 0 .. MaxAttempts
  /\ toolCalls \in 0 .. Len(calls) /\ feedback \in 0 .. Len(calls)
  /\ nplays \in 1 .. MaxPlays

(* The calls made explain what follows.  A decision is the valid answer of *)
(* the last call, a recovery follows a call without response, the fallback *)
(* is used only when every attempt has been made and at least one answer   *)
(* was refused, never after lookups alone; no call follows one that        *)
(* settled the matter.  "RetryContext is populated only on a retry after   *)
(* an invalid attempt" (ADR 0003): a call carries feedback exactly if the  *)
(* call before it was refused, and it is the feedback on that call.        *)
CallsExplainSubmission ==
  /\ \A i \in DOMAIN calls : i < Len(calls) => calls[i] \in {"refused", "lookup"}
  /\ stage = "submitted" =>
       \/ submission.by = "decision" /\ Last(calls) = "valid"
       \/ submission.by = "recovery" /\ Last(calls) = "unanswered"
       \/ /\ submission.by = "fallback" /\ Len(calls) = MaxAttempts
          /\ Last(calls) \in {"refused", "lookup"}
          /\ \E i \in DOMAIN calls : calls[i] = "refused"
  /\ stage = "asking" =>
       feedback = IF calls # << >> /\ Last(calls) = "refused" THEN Len(calls) ELSE 0

(* The resolver refuses no submission of an AI role, and with it the round *)
(* of everybody: not the answer the schema has let through, not the action *)
(* of an earlier round that is handed in again, not the safe no-op.        *)
SubmissionsAccepted ==
  \A s \in submission.sub : NormalizeActions(RoleIDs, CurrentRound, <<s>>)

(* A round without a decision repeats the action accepted in the round     *)
(* before it, and is a no-op only when there is none, over any number of   *)
(* such rounds and also when the match was left and resumed in between.    *)
(* The action keeps its id, from which the resolver names purchase orders: *)
(* two rounds share an id exactly if the later repeats the earlier.        *)
FallbackRepeatsLastRound ==
  \A i \in DOMAIN rounds :
    IF i > 1 /\ rounds[i].by # "decision"
    THEN rounds[i].sub.action = rounds[i - 1].sub.action /\ rounds[i].sub.id = rounds[i - 1].sub.id
    ELSE /\ rounds[i].sub.id = i
         /\ (rounds[i].sub.action.decided = 0) = (rounds[i].by # "decision")

=============================================================================
