-------------------------- MODULE AIDecisionProofs --------------------------
(***************************************************************************)
(* Proofs about AIDecision, for every value of its constants: the types    *)
(* and the limit of attempts, submissions the resolver accepts, calls that *)
(* explain what is submitted, and fallbacks that repeat the last round.    *)
(***************************************************************************)
EXTENDS AIDecision, FiniteSetTheorems, TLAPS

Ways == {"decision", "recovery", "fallback"}

(* TypeOK by variable, with rounds as a sequence and by its ways.          *)
MatchTypes ==
  /\ role \in Roles
  /\ rounds \in Seq([sub : Submissions, by : Ways]) /\ Len(rounds) <= MaxRound
  /\ targets \in [decided : 0 .. MaxRound, effective : 1 .. MaxRound + 1]
  /\ previous \subseteq Submissions /\ nplays \in 1 .. MaxPlays

DecisionTypes ==
  /\ stage \in {"asking", "submitted", "ended"}
  /\ calls \in Seq(Results) /\ Len(calls) <= MaxAttempts
  /\ toolCalls \in 0 .. Len(calls) /\ feedback \in 0 .. Len(calls)

SubmissionTypes ==
  /\ submission \in [sub : SUBSET Submissions, by : Ways \union {"nobody"}]
  /\ submission.sub # {} => submission.by \in Ways

Types == MatchTypes /\ DecisionTypes /\ SubmissionTypes

(* What the runner carries is what the history holds, so that it does not  *)
(* matter when it was rebuilt from there.                                  *)
PreviousIsLast == previous = PreviousAcceptedActions

(* An action passed the schema, or names nothing that could be refused.    *)
Clean(action) == action.payloads = {role} /\ action.unknown = {} /\ ~action.negative

(* Nothing known before a round was decided in it or later.                *)
DecidedBefore ==
  /\ targets.decided <= Len(rounds) /\ targets.effective <= Len(rounds) + 1
  /\ \A s \in previous : Clean(s.action) /\ s.action.decided <= Len(rounds)

(* How the submission at hand relates to the rounds before it: what        *)
(* FallbackRepeatsLastRound says of the round it is about to make.         *)
Explained(s) ==
  IF rounds # << >> /\ submission.by # "decision"
  THEN s.action = Last(rounds).sub.action /\ s.id = Last(rounds).sub.id
  ELSE /\ s.id = CurrentRound
       /\ (s.action.decided = 0) = (submission.by # "decision")

HandedIn ==
  \A s \in submission.sub :
    /\ s.round = CurrentRound /\ s.role = role /\ Clean(s.action)
    /\ s.action.decided <= CurrentRound
    /\ Explained(s)

(* While the role is asked, no call has settled the matter, and granted    *)
(* lookups stay within their budget.                                       *)
Lookups == {i \in DOMAIN calls : calls[i] = "lookup"}

CallsOpen ==
  /\ stage = "asking" => \A i \in DOMAIN calls : calls[i] \in {"refused", "lookup"}
  /\ IsFiniteSet(Lookups)
  /\ Cardinality(Lookups) <= toolCalls /\ Cardinality(Lookups) <= MaxToolCalls

IInv ==
  /\ Types
  /\ PreviousIsLast /\ DecidedBefore /\ HandedIn
  /\ CallsOpen /\ CallsExplainSubmission
  /\ FallbackRepeatsLastRound

-----------------------------------------------------------------------------
(* Submissions before the collector has completed them.                    *)
Contents == Actions(0 .. MaxRound + 1, 0 .. MaxRound + 2)
Drafts == [round : 0 .. MaxRound + 1, role : RoleIDs \union {""},
           id : 0 .. MaxRound + 1, action : Contents]

(* A draft that may be handed in by way of "by": its id and its contents   *)
(* are those of the last round, or new.                                    *)
Suits(s, by) ==
  /\ s \in Drafts /\ Clean(s.action) /\ s.action.decided <= CurrentRound
  /\ IF rounds # << >> /\ by # "decision"
     THEN s.action = Last(rounds).sub.action /\ s.id = Last(rounds).sub.id /\ s.id > 0
     ELSE s.id = 0 /\ (s.action.decided = 0) = (by # "decision")

(* Submissions are copied with some of their fields set.                   *)
LEMMA RoundAndRole ==
  ASSUME NEW s, s = [round |-> s.round, role |-> s.role, id |-> s.id, action |-> s.action],
         NEW r, NEW o
  PROVE  [s EXCEPT !.round = r, !.role = o]
         = [round |-> r, role |-> o, id |-> s.id, action |-> s.action]
<1> DEFINE a == [s EXCEPT !.round = r]
<1>1. /\ a \in [round : {r}, role : {s.role}, id : {s.id}, action : {s.action}]
      /\ a.round = r /\ a.id = s.id /\ a.action = s.action
  <2>1. s \in [round : {s.round}, role : {s.role}, id : {s.id}, action : {s.action}]
    OBVIOUS
  <2> QED
    BY ONLY <2>1
<1> HIDE DEF a
<1>2. [a EXCEPT !.role = o] = [round |-> r, role |-> o, id |-> s.id, action |-> s.action]
  BY ONLY <1>1
<1> QED
  BY <1>2 DEF a

(* Completing a submission fills in round, role and identifier and keeps   *)
(* its action (normalizeSubmission).                                       *)
LEMMA CompletedRecord ==
  ASSUME NEW s, s = [round |-> s.round, role |-> s.role, id |-> s.id, action |-> s.action],
         NEW r
  PROVE  NormalizeSubmission(s, role, r)
         = [round |-> r, role |-> role, id |-> IF s.id = 0 THEN r ELSE s.id, action |-> s.action]
<1> DEFINE id == IF s.id = 0 THEN r ELSE s.id
           b == [s EXCEPT !.round = r, !.role = role]
           n == [b EXCEPT !.id = id]
<1>1. NormalizeSubmission(s, role, r) = n
  BY Zenon DEF NormalizeSubmission
<1>2. b = [round |-> r, role |-> role, id |-> s.id, action |-> s.action]
  BY RoundAndRole, Zenon
<1> HIDE DEF b, id
<1>3. /\ b \in [round : {r}, role : {role}, id : {s.id}, action : {s.action}]
      /\ b.round = r /\ b.role = role /\ b.id = s.id /\ b.action = s.action
  BY <1>2
<1>4. n = [round |-> r, role |-> role, id |-> id, action |-> s.action]
  BY ONLY <1>3
<1> QED
  BY <1>1, <1>4 DEF id

(* normalizeSubmission gives a submission its round and role, and an id    *)
(* only if it has none; its action stays as it is.                         *)
LEMMA Completion ==
  ASSUME NEW s \in Drafts, NEW r \in 1 .. MaxRound + 1
  PROVE  LET n == NormalizeSubmission(s, role, r)
         IN  /\ n \in Submissions
             /\ n.round = r /\ n.role = role /\ n.action = s.action
             /\ n.id = IF s.id = 0 THEN r ELSE s.id
<1> DEFINE n == NormalizeSubmission(s, role, r)
<1> HIDE DEF n
<1>1. NormalizeSubmission(s, role, r)
      = [round |-> r, role |-> role, id |-> IF s.id = 0 THEN r ELSE s.id, action |-> s.action]
  <2>1. s = [round |-> s.round, role |-> s.role, id |-> s.id, action |-> s.action]
    BY DEF Drafts
  <2> QED
    BY <2>1, CompletedRecord, Zenon
<1>2. s.action \in Contents /\ (s.id # 0 => s.id \in 1 .. MaxRound + 1)
  <2>1. s.id \in 0 .. MaxRound + 1 /\ s.action \in Contents
    BY DEF Drafts
  <2> QED
    BY <2>1, DecisionAssumption
<1> QED
  BY <1>1, <1>2 DEF Submissions, Contents, n

(* Handing in a suitable draft.                                            *)
LEMMA SubmitSuits ==
  ASSUME Types, NEW s, NEW by \in Ways, Suits(s, by), Submit(s, by),
         UNCHANGED <<matchVars, previous>>
  PROVE  /\ stage' = "submitted" /\ submission'.by = by
         /\ SubmissionTypes' /\ HandedIn'
<1> DEFINE n == NormalizeSubmission(s, role, CurrentRound)
<1>1. CurrentRound \in 1 .. MaxRound + 1
  BY DecisionAssumption DEF Types, MatchTypes, CurrentRound
<1>2. /\ n \in Submissions
      /\ n.round = CurrentRound /\ n.role = role /\ n.action = s.action
      /\ n.id = IF s.id = 0 THEN CurrentRound ELSE s.id
  BY <1>1, Completion DEF Suits
<1>3. submission' = [sub |-> {n}, by |-> by] /\ stage' = "submitted"
  BY DEF Submit
<1>4. Submissions' = Submissions /\ CurrentRound' = CurrentRound
  BY DEF Submissions, CurrentRound, matchVars
<1> HIDE DEF n
<1>5. ASSUME NEW t \in submission'.sub
      PROVE  t.round = CurrentRound' /\ t.role = role' /\ Clean(t.action)'
             /\ t.action.decided <= CurrentRound' /\ Explained(t)'
  BY <1>2, <1>3, <1>4, <1>5 DEF Suits, Clean, Explained, matchVars
<1> QED
  BY <1>2, <1>3, <1>4, <1>5 DEF SubmissionTypes, HandedIn

(* The action accepted in the last round, or a safe no-op in the first,    *)
(* suits a recovery and a fallback (RecoverFromNonResponse, fallback).     *)
LEMMA PreviousSuits ==
  ASSUME IInv, NEW by \in {"recovery", "fallback"}, NEW s \in Drafts,
         \/ \E p \in previous : s.action = p.action /\ s.id = p.id
         \/ /\ previous = {} /\ s.id = 0
            /\ s.action = SafeNoOpAction(role, targets)
  PROVE  Suits(s, by)
<1>1. CASE previous # {}
  <2>1. PICK p \in previous : s.action = p.action /\ s.id = p.id
    BY <1>1
  <2>2. rounds # << >> /\ p = Last(rounds).sub
    BY <1>1 DEF IInv, PreviousIsLast, PreviousAcceptedActions
  <2>3. Clean(s.action) /\ s.action.decided <= Len(rounds)
    BY <2>1 DEF IInv, DecidedBefore
  <2>4. s.id > 0
    BY <2>1, DecisionAssumption DEF IInv, Types, MatchTypes, Submissions
  <2>5. s.action.decided \in Nat /\ Len(rounds) \in Nat
    <3>1. s.action.decided \in 0 .. MaxRound + 1
      BY DEF Drafts, Contents, Actions
    <3> QED
      BY <3>1, DecisionAssumption DEF IInv, Types, MatchTypes
  <2> QED
    BY <2>1, <2>2, <2>3, <2>4, <2>5 DEF Suits, CurrentRound
<1>2. CASE previous = {}
  <2>1. rounds = << >>
    BY <1>2 DEF IInv, PreviousIsLast, PreviousAcceptedActions
  <2>2. s.id = 0 /\ s.action = SafeNoOpAction(role, targets)
    BY <1>2
  <2>3. targets.decided = 0
    BY <2>1 DEF IInv, DecidedBefore, Types, MatchTypes
  <2>4. s.action.decided = 0 /\ Clean(s.action)
    BY <2>2, <2>3 DEF SafeNoOpAction, Clean
  <2> QED
    BY <2>1, <2>2, <2>4 DEF Suits, CurrentRound
<1> QED
  BY <1>1, <1>2

-----------------------------------------------------------------------------
(* What most actions leave alone.                                          *)

MatchPart ==
  /\ MatchTypes /\ PreviousIsLast /\ DecidedBefore /\ FallbackRepeatsLastRound

(* Steps within a decision leave alone what is known of the rounds before  *)
(* it.                                                                     *)
LEMMA MatchUnchanged ==
  ASSUME IInv, UNCHANGED <<matchVars, previous, nplays>>
  PROVE  MatchPart'
BY DEF IInv, Types, MatchPart, MatchTypes, PreviousIsLast, PreviousAcceptedActions,
       DecidedBefore, Clean, FallbackRepeatsLastRound, Submissions, matchVars

(* Steps that submit nothing leave alone what was said of the submission.  *)
LEMMA SubmissionUnchanged ==
  ASSUME IInv, UNCHANGED <<matchVars, submission>>
  PROVE  SubmissionTypes' /\ HandedIn'
BY DEF IInv, Types, SubmissionTypes, HandedIn, Clean, Explained, CurrentRound,
       Submissions, matchVars

(* TypeOK is the three parts together.                                     *)
LEMMA TypesGiveTypeOK == ASSUME Types PROVE TypeOK
<1>1. \A i \in DOMAIN rounds : rounds[i].sub \in Submissions /\ rounds[i].by \in Ways
  <2> DEFINE R == [sub : Submissions, by : Ways]
  <2>1. rounds \in Seq(R)
    BY DEF Types, MatchTypes
  <2>2. \A r \in R : r.sub \in Submissions /\ r.by \in Ways
    OBVIOUS
  <2> HIDE DEF R
  <2> QED
    BY <2>1, <2>2
<1>2. Len(calls) \in 0 .. MaxAttempts
  BY DecisionAssumption DEF Types, DecisionTypes
<1> QED
  BY <1>1, <1>2 DEF Types, MatchTypes, DecisionTypes, SubmissionTypes, TypeOK, Ways

(* One call more, while the role is asked.                                 *)
LEMMA CallMade ==
  ASSUME IInv, NEW result \in Results, CallProvider(result)
  PROVE  /\ MatchPart'
         /\ calls' \in Seq(Results) /\ Len(calls') = Len(calls) + 1
         /\ Len(calls') <= MaxAttempts /\ Len(calls') = Attempt
         /\ calls' # << >> /\ Last(calls') = result
         /\ \A i \in DOMAIN calls' :
              calls'[i] = result \/ (i \in DOMAIN calls /\ calls'[i] \in {"refused", "lookup"})
         /\ \A i \in DOMAIN calls' : i < Len(calls') => calls'[i] \in {"refused", "lookup"}
         /\ IsFiniteSet(Lookups')
         /\ Cardinality(Lookups') = Cardinality(Lookups) + IF result = "lookup" THEN 1 ELSE 0
<1>1. /\ calls \in Seq(Results) /\ calls' = Append(calls, result)
      /\ Len(calls) + 1 <= MaxAttempts /\ stage = "asking"
      /\ \A i \in DOMAIN calls : calls[i] \in {"refused", "lookup"}
      /\ IsFiniteSet(Lookups) /\ Cardinality(Lookups) \in Nat
  BY FS_CardinalityType DEF IInv, Types, DecisionTypes, CallProvider, Attempt, CallsOpen
<1>2. /\ calls' \in Seq(Results) /\ Len(calls') = Len(calls) + 1
      /\ DOMAIN calls = 1 .. Len(calls) /\ DOMAIN calls' = 1 .. Len(calls) + 1
      /\ Len(calls) \in Nat
      /\ calls'[Len(calls) + 1] = result
      /\ \A i \in 1 .. Len(calls) : calls'[i] = calls[i]
  BY <1>1
<1>3. Lookups' = IF result = "lookup" THEN Lookups \union {Len(calls) + 1} ELSE Lookups
  BY <1>2 DEF Lookups
<1>4. Len(calls) + 1 \notin Lookups
  BY <1>2 DEF Lookups
<1>5. /\ IsFiniteSet(Lookups')
      /\ Cardinality(Lookups') = Cardinality(Lookups) + IF result = "lookup" THEN 1 ELSE 0
  <2>1. CASE result = "lookup"
    BY <1>1, <1>3, <1>4, <2>1, FS_AddElement
  <2>2. CASE result # "lookup"
    BY <1>1, <1>3, <2>2
  <2> QED
    BY <2>1, <2>2
<1>6. MatchPart'
  BY MatchUnchanged DEF CallProvider
<1> QED
  BY <1>1, <1>2, <1>5, <1>6 DEF Last, Attempt

-----------------------------------------------------------------------------
(* Every action keeps IInv.                                                *)

LEMMA InitIInv == Init => IInv
<1> SUFFICES ASSUME Init PROVE IInv
  OBVIOUS
<1> USE DecisionAssumption DEF Init, Unsubmitted
<1>1. Types
  BY DEF Types, MatchTypes, DecisionTypes, SubmissionTypes
<1>2. PreviousIsLast /\ DecidedBefore /\ HandedIn /\ FallbackRepeatsLastRound
  BY DEF PreviousIsLast, PreviousAcceptedActions, DecidedBefore, HandedIn, FallbackRepeatsLastRound
<1>3. CallsOpen
  <2>1. Lookups = {}
    BY DEF Lookups
  <2> QED
    BY <2>1, FS_EmptySet DEF CallsOpen
<1>4. CallsExplainSubmission
  BY DEF CallsExplainSubmission
<1> QED
  BY <1>1, <1>2, <1>3, <1>4 DEF IInv

(* A call that settles nothing leaves the role asked, with feedback if it  *)
(* was refused.                                                            *)
LEMMA StillAsked ==
  ASSUME IInv, NEW result \in {"refused", "lookup"}, CallProvider(result),
         UNCHANGED <<stage, submission>>, toolCalls' \in toolCalls .. toolCalls + 1,
         feedback' = IF result = "refused" THEN Attempt ELSE 0,
         result = "lookup" => toolCalls' = toolCalls + 1 /\ toolCalls < MaxToolCalls
  PROVE  IInv'
<1> USE DecisionAssumption
<1>1. result \in Results /\ stage = "asking"
  BY DEF Results, CallProvider
<1>2. MatchPart'
  BY <1>1, CallMade
<1>3. /\ calls' \in Seq(Results) /\ Len(calls') = Len(calls) + 1 /\ Len(calls') <= MaxAttempts
      /\ Len(calls') = Attempt /\ calls' # << >> /\ Last(calls') = result
      /\ \A i \in DOMAIN calls' : calls'[i] \in {"refused", "lookup"}
  BY <1>1, CallMade
<1>4. /\ IsFiniteSet(Lookups')
      /\ Cardinality(Lookups') = Cardinality(Lookups) + IF result = "lookup" THEN 1 ELSE 0
  BY <1>1, CallMade
<1>5. SubmissionTypes' /\ HandedIn'
  BY SubmissionUnchanged DEF CallProvider
<1>6. DecisionTypes'
  BY <1>3 DEF DecisionTypes, IInv, Types
<1>7. CallsOpen'
  BY <1>3, <1>4, FS_CardinalityType DEF CallsOpen, IInv, Types, DecisionTypes
<1>8. CallsExplainSubmission'
  BY <1>1, <1>3 DEF CallsExplainSubmission
<1> QED
  BY <1>2, <1>5, <1>6, <1>7, <1>8 DEF IInv, Types, MatchPart

(* An answer that fails the checks is refused, with feedback, and asked    *)
(* for again.                                                              *)
LEMMA RefuseAnswerIInv == ASSUME IInv, RefuseAnswer PROVE IInv'
BY StillAsked DEF RefuseAnswer, Undecided, IInv, Types, DecisionTypes

(* A lookup within the limit is answered, and the provider asked again.    *)
LEMMA GrantLookupIInv == ASSUME IInv, GrantLookup PROVE IInv'
BY StillAsked DEF GrantLookup, Undecided, IInv, Types, DecisionTypes

(* A lookup beyond the limit is refused, and the provider asked again.     *)
LEMMA RefuseLookupIInv == ASSUME IInv, RefuseLookup PROVE IInv'
BY StillAsked DEF RefuseLookup, Undecided, IInv, Types, DecisionTypes

(* A call that settles the decision: every call before it was a refused    *)
(* answer or a lookup.                                                     *)
LEMMA AskedNoMore ==
  ASSUME IInv, NEW result \in {"valid", "unanswered", "broken"}, CallProvider(result),
         toolCalls' = toolCalls, feedback' = feedback, stage' \in {"submitted", "ended"}
  PROVE  /\ MatchPart' /\ DecisionTypes' /\ CallsOpen' /\ Last(calls') = result
         /\ \A i \in DOMAIN calls' : i < Len(calls') => calls'[i] \in {"refused", "lookup"}
<1> USE DecisionAssumption
<1>1. result \in Results /\ result # "lookup" /\ toolCalls' = toolCalls /\ feedback' = feedback
  BY DEF Results
<1>2. /\ calls' \in Seq(Results) /\ Len(calls') = Len(calls) + 1 /\ Len(calls') <= MaxAttempts
      /\ IsFiniteSet(Lookups')
      /\ Cardinality(Lookups') = Cardinality(Lookups) + IF result = "lookup" THEN 1 ELSE 0
      /\ MatchPart' /\ Last(calls') = result
      /\ \A i \in DOMAIN calls' : i < Len(calls') => calls'[i] \in {"refused", "lookup"}
  BY <1>1, CallMade
<1>3. /\ Len(calls) \in Nat /\ toolCalls \in 0 .. Len(calls) /\ feedback \in 0 .. Len(calls)
      /\ Cardinality(Lookups) \in Nat
      /\ Cardinality(Lookups) <= toolCalls /\ Cardinality(Lookups) <= MaxToolCalls
  BY ONLY IInv, FS_CardinalityType DEF DecisionTypes, IInv, Types, CallsOpen
<1>4. DecisionTypes'
  BY <1>1, <1>2, <1>3 DEF DecisionTypes
<1>5. CallsOpen'
  BY <1>1, <1>2, <1>3 DEF CallsOpen
<1> QED
  BY <1>2, <1>4, <1>5

(* A reply without choices ends the match.                                 *)
LEMMA ProviderBrokenIInv == ASSUME IInv, ProviderBroken PROVE IInv'
<1>1. CallProvider("broken") /\ stage' = "ended" /\ UNCHANGED <<toolCalls, feedback, submission>>
  BY DEF ProviderBroken
<1>2. /\ MatchPart' /\ DecisionTypes' /\ CallsOpen'
      /\ \A i \in DOMAIN calls' : i < Len(calls') => calls'[i] \in {"refused", "lookup"}
  BY <1>1, AskedNoMore
<1>3. SubmissionTypes' /\ HandedIn'
  BY <1>1, SubmissionUnchanged DEF CallProvider
<1>4. CallsExplainSubmission'
  BY <1>1, <1>2 DEF CallsExplainSubmission
<1> QED
  BY <1>2, <1>3, <1>4 DEF IInv, Types, MatchPart

(* The decision of an answer is new: it has no id yet and the round is its *)
(* own.                                                                    *)
LEMMA AnsweredIInv == ASSUME IInv, Answered PROVE IInv'
<1> USE DecisionAssumption
<1>1. PICK answer \in Decisions :
        /\ ~Refused(answer)
        /\ Submit(ResponseToSubmission(answer.action, role, CurrentRound), "decision")
  BY DEF Answered
<1> DEFINE draft == ResponseToSubmission(answer.action, role, CurrentRound)
<1>2. CallProvider("valid") /\ UNCHANGED <<toolCalls, feedback>>
  BY DEF Answered
<1>3. CurrentRound \in 1 .. MaxRound + 1 /\ role \in RoleIDs
  BY DEF IInv, Types, MatchTypes, CurrentRound
<1>4. /\ answer.action \in Contents /\ Clean(answer.action)
      /\ answer.action.decided = CurrentRound
  <2>1. /\ answer.action \in Actions({CurrentRound}, {targets.effective, targets.effective + 1})
        /\ answer.shape = "decision"
    BY DEF Decisions
  <2>2. targets.effective \in 1 .. MaxRound + 1
    BY DEF IInv, Types, MatchTypes
  <2>3. answer.action \in Contents /\ answer.action.decided = CurrentRound
    BY <1>3, <2>1, <2>2 DEF Contents, Actions
  <2>4. ValidateRoleAction(role, answer.action, targets)
    BY <1>1, <2>1 DEF Refused, ValidateDecisionResponse
  <2> QED
    BY <2>3, <2>4 DEF ValidateRoleAction, Clean
<1>5. draft = [round |-> CurrentRound, role |-> role, id |-> 0, action |-> answer.action]
  <2> DEFINE s == Submission(answer.action)
  <2>1. /\ s = [round |-> s.round, role |-> s.role, id |-> s.id, action |-> s.action]
        /\ s.id = 0 /\ s.action = answer.action
    BY DEF Submission
  <2>2. draft = [s EXCEPT !.round = CurrentRound, !.role = role]
    BY Zenon DEF ResponseToSubmission
  <2> HIDE DEF s, draft
  <2> QED
    BY <2>1, <2>2, RoundAndRole
<1>6. Suits(draft, "decision")
  <2>1. draft \in Drafts
    <3>1. CurrentRound \in 0 .. MaxRound + 1 /\ 0 \in 0 .. MaxRound + 1
      BY <1>3
    <3> HIDE DEF draft
    <3> QED
      BY <1>3, <1>4, <1>5, <3>1 DEF Drafts
  <2>2. Clean(draft.action) /\ draft.action.decided = CurrentRound /\ draft.id = 0
    BY <1>4, <1>5
  <2> HIDE DEF draft
  <2> QED
    BY <1>3, <2>1, <2>2 DEF Suits
<1>7. UNCHANGED <<matchVars, previous, nplays>>
  BY <1>2 DEF CallProvider
<1> HIDE DEF draft
<1>8. stage' = "submitted" /\ submission'.by = "decision" /\ SubmissionTypes' /\ HandedIn'
  <2>1. Types /\ "decision" \in Ways /\ Submit(draft, "decision")
    BY <1>1 DEF IInv, Ways, draft
  <2> QED
    BY <1>6, <1>7, <2>1, SubmitSuits
<1>9. /\ MatchPart' /\ DecisionTypes' /\ CallsOpen' /\ Last(calls') = "valid"
      /\ \A i \in DOMAIN calls' : i < Len(calls') => calls'[i] \in {"refused", "lookup"}
  BY <1>2, <1>8, AskedNoMore
<1>10. CallsExplainSubmission'
  BY <1>8, <1>9 DEF CallsExplainSubmission
<1> QED
  BY <1>8, <1>9, <1>10 DEF IInv, Types, MatchPart

(* The llm player recovers with the accepted action of the last round, or  *)
(* a no-op.                                                                *)
LEMMA NoOpIsDraft ==
  ASSUME IInv
  PROVE  LET s == Submission(SafeNoOpAction(role, targets))
         IN  /\ s = [round |-> 0, role |-> "", id |-> 0, action |-> SafeNoOpAction(role, targets)]
             /\ s \in Drafts /\ SafeNoOpAction(role, targets) \in Contents
<1> USE DecisionAssumption
<1>1. /\ targets.decided \in 0 .. MaxRound + 1 /\ targets.effective \in 0 .. MaxRound + 2
      /\ role \in RoleIDs
  BY DEF IInv, Types, MatchTypes
<1>2. 0 \in 0 .. MaxRound + 1 /\ 0 \in 0 .. MaxRound + 2
  OBVIOUS
<1>3. SafeNoOpAction(role, targets) \in Contents
  BY <1>1, <1>2 DEF SafeNoOpAction, Contents, Actions
<1>4. Submission(SafeNoOpAction(role, targets)) \in Drafts
  BY <1>2, <1>3 DEF Submission, Drafts
<1> QED
  BY <1>3, <1>4 DEF Submission

(* A previous accepted action is a submission with the fields of a draft.  *)
LEMMA PreviousIsDraft ==
  ASSUME IInv, NEW p \in previous
  PROVE  /\ p \in Drafts
         /\ p = [round |-> p.round, role |-> p.role, id |-> p.id, action |-> p.action]
<1> USE DecisionAssumption
<1>1. p \in Submissions /\ role \in RoleIDs
  BY DEF IInv, Types, MatchTypes
<1>2. 1 .. MaxRound + 1 \subseteq 0 .. MaxRound + 1
  OBVIOUS
<1> QED
  BY <1>1, <1>2 DEF Submissions, Drafts, Contents

(* A provider that does not respond: the previous action or a no-op is     *)
(* handed in (RecoverFromNonResponse).                                     *)
LEMMA NoResponseIInv == ASSUME IInv, NoResponse PROVE IInv'
<1>1. PICK s \in RecoveredSubmission(role, targets, previous) : Submit(s, "recovery")
  BY DEF NoResponse
<1>2. CallProvider("unanswered") /\ UNCHANGED <<toolCalls, feedback>>
  BY DEF NoResponse
<1>3. Suits(s, "recovery")
  <2>1. CASE previous # {}
    <3>1. s \in previous
      BY <1>1, <2>1 DEF RecoveredSubmission
    <3> QED
      BY <3>1, PreviousIsDraft, PreviousSuits
  <2>2. CASE previous = {}
    <3>1. s = Submission(SafeNoOpAction(role, targets))
      BY <1>1, <2>2 DEF RecoveredSubmission
    <3>2. s \in Drafts /\ s.id = 0 /\ s.action = SafeNoOpAction(role, targets)
      BY <3>1, NoOpIsDraft DEF Submission
    <3> QED
      BY <2>2, <3>2, PreviousSuits
  <2> QED
    BY <2>1, <2>2
<1>4. UNCHANGED <<matchVars, previous, nplays>>
  BY <1>2 DEF CallProvider
<1>5. stage' = "submitted" /\ submission'.by = "recovery" /\ SubmissionTypes' /\ HandedIn'
  <2>1. Types /\ "recovery" \in Ways
    BY DEF IInv, Ways
  <2> QED
    BY <1>1, <1>3, <1>4, <2>1, SubmitSuits
<1>6. /\ MatchPart' /\ DecisionTypes' /\ CallsOpen' /\ Last(calls') = "unanswered"
      /\ \A i \in DOMAIN calls' : i < Len(calls') => calls'[i] \in {"refused", "lookup"}
  BY <1>2, <1>5, AskedNoMore
<1>7. CallsExplainSubmission'
  BY <1>5, <1>6 DEF CallsExplainSubmission
<1> QED
  BY <1>5, <1>6, <1>7 DEF IInv, Types, MatchPart

(* The budget of lookups leaves an attempt: when all are used, an answer   *)
(* was refused.                                                            *)
LEMMA SomeAnswerRefused ==
  ASSUME IInv, stage = "asking", Attempt > MaxAttempts
  PROVE  \E i \in DOMAIN calls : calls[i] = "refused"
<1> USE DecisionAssumption, BudgetAssumption
<1>1. /\ calls \in Seq(Results) /\ Len(calls) = MaxAttempts
      /\ \A i \in DOMAIN calls : calls[i] \in {"refused", "lookup"}
      /\ Cardinality(Lookups) <= MaxToolCalls
  BY DEF IInv, Types, DecisionTypes, CallsOpen, Attempt
<1>2. SUFFICES ASSUME \A i \in DOMAIN calls : calls[i] # "refused" PROVE FALSE
  OBVIOUS
<1>3. DOMAIN calls = 1 .. MaxAttempts
  BY <1>1
<1>4. Lookups = 1 .. MaxAttempts
  BY <1>1, <1>2, <1>3 DEF Lookups
<1>5. Cardinality(1 .. MaxAttempts) = MaxAttempts
  BY FS_Interval
<1> QED
  BY <1>1, <1>4, <1>5

(* After the last attempt the fallback repeats the previous action or is a *)
(* no-op.                                                                  *)
LEMMA FallbackIInv == ASSUME IInv, Fallback PROVE IInv'
<1>1. PICK s \in FallbackSubmission(role, CurrentRound, targets, previous) : Submit(s, "fallback")
  BY DEF Fallback
<1>2. /\ stage = "asking" /\ Attempt > MaxAttempts
      /\ UNCHANGED <<matchVars, previous, decisionVars, nplays>>
  BY DEF Fallback
<1>3. CurrentRound \in 0 .. MaxRound + 1 /\ role \in RoleIDs
  BY DecisionAssumption DEF IInv, Types, MatchTypes, CurrentRound
<1>4. Suits(s, "fallback")
  <2>1. PICK p \in IF previous # {} THEN previous
                   ELSE {Submission(SafeNoOpAction(role, targets))} :
          s = [p EXCEPT !.round = CurrentRound, !.role = role]
    BY <1>1, Zenon DEF FallbackSubmission
  <2>2. /\ p \in Drafts
        /\ p = [round |-> p.round, role |-> p.role, id |-> p.id, action |-> p.action]
        /\ previous # {} => p \in previous
        /\ previous = {} => p.id = 0 /\ p.action = SafeNoOpAction(role, targets)
    <3>1. CASE previous # {}
      BY <2>1, <3>1, PreviousIsDraft
    <3>2. CASE previous = {}
      <4>1. p = Submission(SafeNoOpAction(role, targets))
        BY <2>1, <3>2
      <4> QED
        BY <3>2, <4>1, NoOpIsDraft DEF Submission
    <3> QED
      BY <3>1, <3>2
  <2>3. s = [round |-> CurrentRound, role |-> role, id |-> p.id, action |-> p.action]
    BY <2>1, <2>2, RoundAndRole, Zenon
  <2>4. s \in Drafts /\ s.id = p.id /\ s.action = p.action
    BY <1>3, <2>2, <2>3 DEF Drafts
  <2> QED
    BY <2>2, <2>4, PreviousSuits
<1>5. stage' = "submitted" /\ submission'.by = "fallback" /\ SubmissionTypes' /\ HandedIn'
  <2>1. Types /\ "fallback" \in Ways
    BY DEF IInv, Ways
  <2> QED
    BY <1>1, <1>2, <1>4, <2>1, SubmitSuits
<1>6. MatchPart'
  BY <1>2, MatchUnchanged
<1>7. DecisionTypes' /\ CallsOpen'
  BY <1>2, <1>5 DEF IInv, Types, DecisionTypes, CallsOpen, Lookups, decisionVars
<1>8. CallsExplainSubmission'
  <2>1. /\ calls' = calls /\ calls \in Seq(Results) /\ Len(calls) = MaxAttempts
        /\ \A i \in DOMAIN calls : calls[i] \in {"refused", "lookup"}
        /\ MaxAttempts \in Nat \ {0}
    BY <1>2, DecisionAssumption DEF IInv, Types, DecisionTypes, CallsOpen, Attempt, decisionVars
  <2>2. \E i \in DOMAIN calls : calls[i] = "refused"
    BY <1>2, SomeAnswerRefused
  <2>3. Last(calls) \in {"refused", "lookup"}
    BY <2>1 DEF Last
  <2> QED
    BY <1>5, <2>1, <2>2, <2>3 DEF CallsExplainSubmission
<1> QED
  BY <1>5, <1>6, <1>7, <1>8 DEF IInv, Types, MatchPart

(* A decision begins without calls, and nothing is handed in yet.          *)
LEMMA Beginning ==
  ASSUME BeginDecision
  PROVE  DecisionTypes' /\ SubmissionTypes' /\ HandedIn' /\ CallsOpen' /\ CallsExplainSubmission'
<1> USE DecisionAssumption DEF BeginDecision, Unsubmitted
<1>1. DecisionTypes' /\ SubmissionTypes' /\ HandedIn' /\ CallsExplainSubmission'
  BY DEF DecisionTypes, SubmissionTypes, HandedIn, CallsExplainSubmission
<1>2. CallsOpen'
  <2>1. Lookups' = {}
    BY DEF Lookups
  <2> QED
    BY <2>1, FS_EmptySet DEF CallsOpen
<1> QED
  BY <1>1, <1>2

(* The round that is committed is the one HandedIn speaks of.              *)
LEMMA CommitRoundIInv == ASSUME IInv, CommitRound PROVE IInv'
<1> USE DecisionAssumption
<1>1. PICK s \in submission.sub :
        /\ rounds' = Append(rounds, [sub |-> s, by |-> submission.by])
        /\ targets' = NextTargets(s) /\ previous' = {s}
  BY DEF CommitRound
<1>2. /\ BeginDecision /\ Len(rounds) < MaxRound /\ role' = role /\ nplays' = nplays
  BY DEF CommitRound
<1> DEFINE round == [sub |-> s, by |-> submission.by]
<1>3. /\ s \in Submissions /\ submission.by \in Ways
      /\ Clean(s.action) /\ s.action.decided <= Len(rounds) + 1 /\ s.action.decided \in Nat
      /\ Explained(s) /\ CurrentRound = Len(rounds) + 1
  <2>1. s \in Submissions /\ submission.by \in Ways
    BY DEF IInv, Types, SubmissionTypes
  <2>2. s.action.decided \in 0 .. MaxRound + 1
    BY <2>1 DEF Submissions, Actions
  <2> QED
    BY <2>1, <2>2 DEF IInv, HandedIn, CurrentRound
<1>4. /\ rounds \in Seq([sub : Submissions, by : Ways]) /\ Len(rounds) \in Nat
      /\ round \in [sub : Submissions, by : Ways]
  BY <1>3 DEF IInv, Types, MatchTypes
<1>5. /\ rounds' \in Seq([sub : Submissions, by : Ways]) /\ Len(rounds') = Len(rounds) + 1
      /\ rounds' # << >> /\ rounds'[Len(rounds) + 1] = round /\ Last(rounds') = round
      /\ \A i \in 1 .. Len(rounds) : rounds'[i] = rounds[i]
      /\ DOMAIN rounds' = 1 .. Len(rounds) + 1 /\ DOMAIN rounds = 1 .. Len(rounds)
  <2> DEFINE R == [sub : Submissions, by : Ways]
  <2>1. rounds' = Append(rounds, round)
    BY <1>1
  <2> HIDE DEF round, R
  <2>2. rounds \in Seq(R) /\ round \in R
    BY <1>4 DEF R
  <2>3. /\ rounds' \in Seq(R) /\ Len(rounds') = Len(rounds) + 1
        /\ rounds' # << >> /\ rounds'[Len(rounds) + 1] = round
        /\ \A i \in 1 .. Len(rounds) : rounds'[i] = rounds[i]
        /\ DOMAIN rounds' = 1 .. Len(rounds) + 1 /\ DOMAIN rounds = 1 .. Len(rounds)
    BY <2>1, <2>2
  <2> QED
    BY <2>3 DEF R, Last
<1>6. Submissions' = Submissions
  BY <1>2 DEF Submissions
<1>7. /\ targets' \in [decided : 0 .. MaxRound, effective : 1 .. MaxRound + 1]
      /\ targets'.decided <= Len(rounds') /\ targets'.effective <= Len(rounds') + 1
  <2>1. CASE role = "finance"
    BY <1>1, <1>2, <1>3, <1>4, <1>5, <2>1 DEF NextTargets
  <2>2. CASE role # "finance"
    BY <1>1, <1>4, <1>5, <2>2 DEF NextTargets, IInv, DecidedBefore, Types, MatchTypes
  <2> QED
    BY <2>1, <2>2
<1>8. MatchTypes'
  BY <1>1, <1>2, <1>3, <1>4, <1>5, <1>6, <1>7 DEF IInv, Types, MatchTypes
<1>9. PreviousIsLast'
  BY <1>1, <1>5 DEF PreviousIsLast, PreviousAcceptedActions
<1>10. DecidedBefore'
  BY <1>1, <1>2, <1>3, <1>5, <1>7 DEF DecidedBefore, Clean
<1>11. FallbackRepeatsLastRound'
  <2> SUFFICES ASSUME NEW i \in 1 .. Len(rounds) + 1
               PROVE  IF i > 1 /\ rounds'[i].by # "decision"
                      THEN /\ rounds'[i].sub.action = rounds'[i - 1].sub.action
                           /\ rounds'[i].sub.id = rounds'[i - 1].sub.id
                      ELSE /\ rounds'[i].sub.id = i
                           /\ (rounds'[i].sub.action.decided = 0) = (rounds'[i].by # "decision")
    BY <1>5 DEF FallbackRepeatsLastRound
  <2>1. CASE i \in 1 .. Len(rounds)
    <3>1. rounds'[i] = rounds[i] /\ (i > 1 => rounds'[i - 1] = rounds[i - 1])
      BY <1>4, <1>5, <2>1
    <3> QED
      BY <1>5, <2>1, <3>1 DEF IInv, FallbackRepeatsLastRound
  <2>2. CASE i = Len(rounds) + 1
    <3>1. rounds'[i].sub = s /\ rounds'[i].by = submission.by
      BY <1>5, <2>2
    <3>2. CASE rounds = << >>
      BY <1>3, <1>4, <2>2, <3>1, <3>2 DEF Explained
    <3>3. CASE rounds # << >>
      <4>1. i > 1 /\ rounds'[i - 1] = Last(rounds)
        BY <1>4, <1>5, <2>2, <3>3 DEF Last
      <4> QED
        BY <1>3, <2>2, <3>1, <3>3, <4>1 DEF Explained
    <3> QED
      BY <3>2, <3>3
  <2> QED
    BY <1>4, <2>1, <2>2
<1> QED
  BY <1>2, <1>8, <1>9, <1>10, <1>11, Beginning DEF IInv, Types

(* A play ends; the next one rebuilds its previous actions from the        *)
(* history.                                                                *)
LEMMA EndPlayIInv == ASSUME IInv, EndPlay PROVE IInv'
<1>1. MatchPart'
  BY MatchUnchanged DEF EndPlay
<1>2. SubmissionTypes' /\ HandedIn'
  BY SubmissionUnchanged DEF EndPlay
<1>3. DecisionTypes' /\ CallsOpen' /\ CallsExplainSubmission'
  BY DEF EndPlay, IInv, Types, DecisionTypes, CallsOpen, Lookups, CallsExplainSubmission, decisionVars
<1> QED
  BY <1>1, <1>2, <1>3 DEF IInv, Types, MatchPart

(* A new Play reads from the history what the old one carried along.       *)
LEMMA NextPlayIInv == ASSUME IInv, NextPlay PROVE IInv'
<1>1. UNCHANGED <<matchVars, previous>>
  BY DEF NextPlay, IInv, PreviousIsLast
<1>2. MatchPart'
  <2>1. nplays' \in 1 .. MaxPlays
    BY DecisionAssumption DEF NextPlay, IInv, Types, MatchTypes
  <2> QED
    BY <1>1, <2>1 DEF IInv, Types, MatchPart, MatchTypes, PreviousIsLast, PreviousAcceptedActions,
       DecidedBefore, Clean, FallbackRepeatsLastRound, Submissions, matchVars
<1> QED
  BY <1>2, Beginning DEF NextPlay, IInv, Types, MatchPart

(* A step that changes nothing.                                            *)
LEMMA UnchangedIInv == ASSUME IInv, UNCHANGED vars PROVE IInv'
<1>1. MatchPart' /\ SubmissionTypes' /\ HandedIn'
  BY MatchUnchanged, SubmissionUnchanged DEF vars
<1>2. DecisionTypes' /\ CallsOpen' /\ CallsExplainSubmission'
  BY DEF IInv, Types, DecisionTypes, CallsOpen, Lookups, CallsExplainSubmission, vars, decisionVars
<1> QED
  BY <1>1, <1>2 DEF IInv, Types, MatchPart

(* IInv is an invariant: it holds at first and every action keeps it.      *)
THEOREM Inductive == Spec => []IInv
<1>1. ASSUME IInv, [Next]_vars PROVE IInv'
  BY <1>1, AnsweredIInv, RefuseAnswerIInv, GrantLookupIInv, RefuseLookupIInv, NoResponseIInv,
     ProviderBrokenIInv, FallbackIInv, CommitRoundIInv, EndPlayIInv, NextPlayIInv, UnchangedIInv
  DEF Next, Horizon
<1> QED
  BY InitIInv, <1>1, PTL DEF Spec

-----------------------------------------------------------------------------
(* The theorems.                                                           *)

(* Every variable keeps its type, and a decision makes at most MaxAttempts *)
(* calls, for any limits, match length and number of Plays.                *)
THEOREM TypeCorrect == Spec => []TypeOK
<1>1. IInv => TypeOK
  BY TypesGiveTypeOK DEF IInv
<1> QED
  BY Inductive, <1>1, PTL

(* The calls of a decision explain how the submission was obtained; the    *)
(* fallback never follows lookups alone, because their budget is smaller   *)
(* than the number of attempts.                                            *)
THEOREM CallsAlwaysExplain == Spec => []CallsExplainSubmission
<1>1. IInv => CallsExplainSubmission
  BY DEF IInv
<1> QED
  BY Inductive, <1>1, PTL

(* Every submission of an AI role passes the resolver, whichever way it    *)
(* was obtained and however many Plays ago it was first decided.           *)
THEOREM AlwaysAccepted == Spec => []SubmissionsAccepted
<1>1. IInv => SubmissionsAccepted
  <2> SUFFICES ASSUME IInv, NEW s \in submission.sub
               PROVE  NormalizeActions(RoleIDs, CurrentRound, <<s>>)
    BY DEF SubmissionsAccepted
  <2>1. s.round = CurrentRound /\ s.role = role /\ Clean(s.action) /\ role \in RoleIDs
    BY DecisionAssumption DEF IInv, HandedIn, Types, MatchTypes
  <2>2. ValidateActionSubmission(s)
    BY <2>1 DEF ValidateActionSubmission, Clean
  <2>3. DOMAIN <<s>> = {1} /\ <<s>>[1] = s
    OBVIOUS
  <2> QED
    BY <2>1, <2>2, <2>3 DEF NormalizeActions, AssignedRoles
<1> QED
  BY Inductive, <1>1, PTL

(* A round without a decision repeats the round before it, over any number *)
(* of such rounds and Plays.                                               *)
THEOREM FallbackAlwaysRepeats == Spec => []FallbackRepeatsLastRound
<1>1. IInv => FallbackRepeatsLastRound
  BY DEF IInv
<1> QED
  BY Inductive, <1>1, PTL

=============================================================================
