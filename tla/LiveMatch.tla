----------------------------- MODULE LiveMatch -----------------------------
(***************************************************************************)
(* A match played in the terminal: the goroutines of MatchRunner.Play and  *)
(* RoundCollector.Collect (internal/app), the liveGameplayController that  *)
(* connects them with the user interface (cmd/herbiego), and the message   *)
(* loop of the user interface (internal/adapters/tui).                     *)
(*                                                                         *)
(*   runner goroutine --+                                                  *)
(*   one per role ------+--Publish--> updates --waiters--> UI message loop *)
(*        ^                                                     |          *)
(*        +----------------- submissions <------- Submit -------+          *)
(*                                                                         *)
(* A state on the updates channel is represented by its CurrentRound, the  *)
(* part the user interface acts on; an action by the role and the round it *)
(* was made for.  What the actions contain is the resolver's business.     *)
(* Definitions marked "Mutant" are as in CashLedger.                       *)
(***************************************************************************)
EXTENDS Naturals, Sequences, FiniteSets, SequencesExt

CONSTANTS Humans, AIs,  \* role assignments, by who plays them
          Runner,       \* the goroutine of MatchRunner.Play
          MaxRound,     \* rounds to play: the -rounds flag
          UpdateCap     \* buffer of the updates channel (8 in the code)

Roles == Humans \cup AIs

ASSUME RolesAssumption ==
  /\ IsFiniteSet(Humans) /\ IsFiniteSet(AIs) /\ Humans \cap AIs = {}
  /\ Roles # {} /\ Runner \notin Roles

ASSUME SizeAssumption == MaxRound \in Nat \ {0} /\ UpdateCap \in Nat \ {0}

Rounds == 1..MaxRound + 1
Writers == Roles \cup {Runner}

(* an action tagged with the role and round it was made for, or none       *)
Submission(role, r) == [role |-> role, round |-> r]
Submissions == [role : Roles, round : Rounds]
None == [role |-> Runner, round |-> 0]

SubmissionCap == Cardinality(Roles) + 1

VARIABLES
  round,        \* CurrentRound of the state the runner carries
  runner,       \* where MatchRunner.Play is
  task,         \* where the collecting goroutine of each role is
  collected,    \* the slots of Collect's result
  sending,      \* round of the state a goroutine is about to send; 0: none
  latest,       \* controller.latest
  updates,      \* controller.updates
  closed,       \* controller.closed: both channels are closed
  submissions,  \* controller.submissions
  pending,      \* controller.pending
  waiters,      \* UI commands blocked on the updates channel
  arriving,     \* states received by UI commands, on their way to the loop
  snapshot,     \* the UI has yet to load its first state
  shown,        \* CurrentRound of the state the UI shows; 0: none yet
  draft,        \* the action form of each human role: "open" or "locked"
  submitting,   \* the submission inside controller.Submit, past its check
  hasQuit,      \* the user has left the match
  panicked      \* a send on a closed channel has crashed the program

runnerVars == <<round, runner>>
channelVars == <<sending, latest, updates>>
intakeVars == <<submissions, pending>>
uiVars == <<waiters, arriving, snapshot, shown, draft, submitting, hasQuit,
            panicked>>
vars == <<round, runner, task, collected, sending, latest, updates, closed,
          submissions, pending, waiters, arriving, snapshot, shown, draft,
          submitting, hasQuit, panicked>>

Init ==
  /\ round = 1 /\ runner = "start"
  /\ task = [role \in Roles |-> "off"]
  /\ collected = [role \in Roles |-> None]
  /\ sending = [w \in Writers |-> 0]
  /\ latest = 1 /\ updates = <<>>
  /\ closed = FALSE
  /\ submissions = <<>>
  /\ pending = [s \in Submissions |-> 0]
  /\ waiters = 1 /\ arriving = <<>> /\ snapshot = TRUE
  /\ shown = 0
  /\ draft = [role \in Humans |-> "open"]
  /\ submitting = None
  /\ hasQuit = FALSE
  /\ panicked = FALSE

Quitted == hasQuit

Blocked(w) == sending[w] > 0

-----------------------------------------------------------------------------
(* liveGameplayController.Publish: the snapshot under the lock, the send   *)
(* after it; the sender waits while the buffer is full.                    *)

Publish(w, r) ==
  /\ ~Blocked(w)
  /\ IF closed
     THEN UNCHANGED <<latest, sending>>
     ELSE latest' = r /\ sending' = [sending EXCEPT ![w] = r]

(* Mutant: a state is dropped when the buffer is full.                     *)
SendUpdateOrDrop(w) ==
  /\ Blocked(w)
  /\ ~closed
  /\ updates' = IF Len(updates) < UpdateCap THEN Append(updates, sending[w]) ELSE updates
  /\ sending' = [sending EXCEPT ![w] = 0]
  /\ UNCHANGED <<runnerVars, task, collected, latest, closed, intakeVars, uiVars>>

SendUpdate(w) ==
  /\ Blocked(w)
  /\ ~closed
  /\ Len(updates) < UpdateCap
  /\ updates' = Append(updates, sending[w])
  /\ sending' = [sending EXCEPT ![w] = 0]
  /\ UNCHANGED <<runnerVars, task, collected, latest, closed, intakeVars, uiVars>>

-----------------------------------------------------------------------------
(* RoundCollector.Collect: one goroutine per role.                         *)

Returned(role) == task[role] \in {"done", "failed"} /\ ~Blocked(role)

(* the errgroup context: cancelled with the match, or by the first failure *)
GroupCancelled ==
  Quitted \/ \E role \in Roles : task[role] = "failed" /\ ~Blocked(role)

MoveTask(role, from, to) ==
  /\ task[role] = from
  /\ task' = [task EXCEPT ![role] = to]

(* markProviderWaiting *)
BeginTask(role) ==
  /\ MoveTask(role, "begin", "call")
  /\ Publish(role, round)
  /\ UNCHANGED <<runnerVars, collected, updates, closed, intakeVars, uiVars>>

Collected(role, submission) ==
  collected' = [collected EXCEPT ![role] = submission]

(* AIOrchestrator.SubmitRound, or RecoverFromNonResponse after a transport *)
(* failure, a timeout or a cancelled call: an action for this round        *)
AIReturns(role) ==
  /\ role \in AIs /\ ~Blocked(role)
  /\ MoveTask(role, "call", "submitted")
  /\ Collected(role, Submission(role, round))
  /\ UNCHANGED <<runnerVars, channelVars, closed, intakeVars, uiVars>>

(* an error that RecoverFromNonResponse does not recover                   *)
AIFails(role) ==
  /\ role \in AIs /\ ~Blocked(role)
  /\ MoveTask(role, "call", "failing")
  /\ UNCHANGED <<runnerVars, collected, channelVars, closed, intakeVars, uiVars>>

Key(role) == Submission(role, round)

(* liveGameplayController.SubmitRound: takePending, once, before the wait  *)
TakePending(role) ==
  /\ role \in Humans /\ ~Blocked(role)
  /\ IF pending[Key(role)] > 0
     THEN /\ MoveTask(role, "call", "submitted")
          /\ Collected(role, Key(role))
          /\ pending' = [pending EXCEPT ![Key(role)] = @ - 1]
     ELSE /\ MoveTask(role, "call", "select")
          /\ UNCHANGED <<collected, pending>>
  /\ UNCHANGED <<runnerVars, channelVars, closed, submissions, uiVars>>

(* Mutant: a submission for another role or round is dropped.              *)
HumanReceivesOwnOnly(role) ==
  /\ role \in Humans /\ task[role] = "select"
  /\ submissions # <<>>
  /\ submissions' = Tail(submissions)
  /\ IF Head(submissions) = Key(role)
     THEN /\ MoveTask(role, "select", "submitted")
          /\ Collected(role, Key(role))
     ELSE UNCHANGED <<task, collected>>
  /\ UNCHANGED <<runnerVars, channelVars, closed, pending, uiVars>>

(* Mutant: any submission of the round is taken for the role's own.        *)
HumanReceivesAny(role) ==
  /\ role \in Humans /\ task[role] = "select"
  /\ submissions # <<>>
  /\ submissions' = Tail(submissions)
  /\ IF Head(submissions).round = round
     THEN /\ MoveTask(role, "select", "submitted")
          /\ Collected(role, Head(submissions))
          /\ UNCHANGED pending
     ELSE /\ pending' = [pending EXCEPT ![Head(submissions)] = @ + 1]
          /\ UNCHANGED <<task, collected>>
  /\ UNCHANGED <<runnerVars, channelVars, closed, uiVars>>

HumanReceives(role) ==
  /\ role \in Humans /\ task[role] = "select"
  /\ submissions # <<>>
  /\ submissions' = Tail(submissions)
  /\ IF Head(submissions) = Key(role)
     THEN /\ MoveTask(role, "select", "submitted")
          /\ Collected(role, Key(role))
          /\ UNCHANGED pending
     ELSE /\ pending' = [pending EXCEPT ![Head(submissions)] = @ + 1]
          /\ UNCHANGED <<task, collected>>
  /\ UNCHANGED <<runnerVars, channelVars, closed, uiVars>>

(* Mutant: the wait of a human role ignores the failure of another role.   *)
HumanCancelledByQuit(role) ==
  /\ role \in Humans /\ Quitted
  /\ MoveTask(role, "select", "failing")
  /\ UNCHANGED <<runnerVars, collected, channelVars, closed, intakeVars, uiVars>>

(* Mutant: the wait of a human role ignores that the user has left.        *)
HumanCancelledByFailure(role) ==
  /\ role \in Humans
  /\ \E other \in Roles : task[other] = "failed" /\ ~Blocked(other)
  /\ MoveTask(role, "select", "failing")
  /\ UNCHANGED <<runnerVars, collected, channelVars, closed, intakeVars, uiVars>>

(* ctx.Done; RecoverFromNonResponse of a human player passes the error on  *)
HumanCancelled(role) ==
  /\ role \in Humans /\ GroupCancelled
  /\ MoveTask(role, "select", "failing")
  /\ UNCHANGED <<runnerVars, collected, channelVars, closed, intakeVars, uiVars>>

(* markSubmitted, or markProviderWaiting(false) before the error returns   *)
FinishTask(role) ==
  /\ \/ MoveTask(role, "submitted", "done")
     \/ MoveTask(role, "failing", "failed")
  /\ Publish(role, round)
  /\ UNCHANGED <<runnerVars, collected, updates, closed, intakeVars, uiVars>>

-----------------------------------------------------------------------------
(* MatchRunner.Play and the goroutine of newGameplayScreen around it.      *)

MoveRunner(from, to) == runner = from /\ ~Blocked(Runner) /\ runner' = to

AnnounceRound ==
  /\ MoveRunner("start", "spawn")
  /\ Publish(Runner, round)
  /\ UNCHANGED <<round, task, collected, updates, closed, intakeVars, uiVars>>

Spawn ==
  /\ MoveRunner("spawn", "wait")
  /\ task' = [role \in Roles |-> "begin"]
  /\ UNCHANGED <<round, collected, channelVars, closed, intakeVars, uiVars>>

(* Mutant: the round goes on without the roles that failed.                *)
GroupWaitIgnoresFailure ==
  /\ MoveRunner("wait", "resolve")
  /\ \A role \in Roles : Returned(role)
  /\ UNCHANGED <<round, task, collected, channelVars, closed, intakeVars, uiVars>>

GroupWait ==
  /\ \A role \in Roles : Returned(role)
  /\ IF \A role \in Roles : task[role] = "done"
     THEN MoveRunner("wait", "resolve")
     ELSE MoveRunner("wait", "stopped")
  /\ UNCHANGED <<round, task, collected, channelVars, closed, intakeVars, uiVars>>

AnnounceResolving ==
  /\ MoveRunner("resolve", "commit")
  /\ Publish(Runner, round)
  /\ UNCHANGED <<round, task, collected, updates, closed, intakeVars, uiVars>>

(* ResolveRound and CommitRound, and the state revealed                    *)
CommitRound ==
  /\ MoveRunner("commit", "reveal")
  /\ round' = round + 1
  /\ collected' = [role \in Roles |-> None]
  /\ task' = [role \in Roles |-> "off"]
  /\ UNCHANGED <<channelVars, closed, intakeVars, uiVars>>

CommitFails ==
  /\ MoveRunner("commit", "stopped")
  /\ UNCHANGED <<round, task, collected, channelVars, closed, intakeVars, uiVars>>

Reveal ==
  /\ MoveRunner("reveal", IF round > MaxRound THEN "stopped" ELSE "start")
  /\ Publish(Runner, round)
  /\ UNCHANGED <<round, task, collected, updates, closed, intakeVars, uiVars>>

(* the deferred controller.Close                                           *)
Close ==
  /\ runner = "stopped" /\ ~Blocked(Runner) /\ ~closed
  /\ closed' = TRUE
  /\ UNCHANGED <<runnerVars, task, collected, channelVars, intakeVars, uiVars>>

-----------------------------------------------------------------------------
(* The user interface: commands that wait for states, and the message loop *)
(* (tui.Model.Update), which a submission occupies until it returns.       *)

LoopFree == submitting = None /\ ~panicked

(* loadSnapshotCmd *)
LoadSnapshot ==
  /\ snapshot
  /\ snapshot' = FALSE
  /\ arriving' = Append(arriving, latest)
  /\ UNCHANGED <<runnerVars, task, collected, channelVars, closed, intakeVars,
                 waiters, shown, draft, submitting, hasQuit, panicked>>

(* waitForUpdateCmd *)
ReceiveUpdate ==
  /\ waiters > 0 /\ updates # <<>>
  /\ waiters' = waiters - 1
  /\ updates' = Tail(updates)
  /\ arriving' = Append(arriving, Head(updates))
  /\ UNCHANGED <<runnerVars, task, collected, sending, latest, closed, intakeVars,
                 snapshot, shown, draft, submitting, hasQuit, panicked>>

(* a closed stream: stateStreamClosedMsg, after which no command waits     *)
StreamEnds ==
  /\ waiters > 0 /\ updates = <<>> /\ closed
  /\ waiters' = waiters - 1
  /\ UNCHANGED <<runnerVars, task, collected, channelVars, closed, intakeVars,
                 arriving, snapshot, shown, draft, submitting, hasQuit, panicked>>

(* Mutant: no command waits for the next state.                            *)
ShowStateOnce(i) ==
  /\ ~Quitted
  /\ shown' = arriving[i]
  /\ draft' = IF arriving[i] = shown THEN draft ELSE [role \in Humans |-> "open"]
  /\ waiters' = waiters

(* Mutant: two commands wait for the next state.                           *)
ShowStateWaitTwice(i) ==
  /\ ~Quitted
  /\ shown' = arriving[i]
  /\ draft' = IF arriving[i] = shown THEN draft ELSE [role \in Humans |-> "open"]
  /\ waiters' = waiters + 2

(* the stateLoadedMsg case of tui.Model.Update                             *)
ShowState(i) ==
  /\ ~Quitted
  /\ shown' = arriving[i]
  /\ draft' = IF arriving[i] = shown THEN draft ELSE [role \in Humans |-> "open"]
  /\ waiters' = waiters + 1

(* the start menu drops the messages of the match it replaced              *)
DropState ==
  /\ Quitted
  /\ UNCHANGED <<shown, draft, waiters>>

(* Each command runs in a goroutine of its own, so that of two states on   *)
(* their way either may get to the message loop first.                     *)
Deliver(i) ==
  /\ LoopFree /\ i \in DOMAIN arriving
  /\ arriving' = RemoveAt(arriving, i)
  /\ ShowState(i) \/ DropState
  /\ UNCHANGED <<runnerVars, task, collected, channelVars, closed, intakeVars,
                 snapshot, submitting, hasQuit, panicked>>

(* controller.Submit, up to the unlock: a closed match refuses             *)
UserSubmit(role) ==
  /\ LoopFree /\ ~Quitted /\ shown > 0
  /\ draft[role] = "open"
  /\ ~closed
  /\ submitting' = Submission(role, shown)
  /\ UNCHANGED <<runnerVars, task, collected, channelVars, closed, intakeVars,
                 waiters, arriving, snapshot, shown, draft, hasQuit, panicked>>

(* the send, which the lock no longer protects: a closed channel panics, a *)
(* full queue is an error that leaves the form open                        *)
SendSubmission ==
  /\ submitting # None /\ ~panicked
  /\ IF closed
     THEN panicked' = TRUE /\ UNCHANGED <<submissions, draft, submitting>>
     ELSE /\ submitting' = None
          /\ IF Len(submissions) < SubmissionCap
             THEN /\ submissions' = Append(submissions, submitting)
                  /\ draft' = [draft EXCEPT ![submitting.role] = "locked"]
             ELSE UNCHANGED <<submissions, draft>>
          /\ UNCHANGED panicked
  /\ UNCHANGED <<runnerVars, task, collected, channelVars, closed, pending,
                 waiters, arriving, snapshot, shown, hasQuit>>

(* q: the shell cancels the match and returns to the start menu            *)
Quit ==
  /\ LoopFree /\ ~Quitted
  /\ hasQuit' = TRUE
  /\ UNCHANGED <<runnerVars, task, collected, channelVars, closed, intakeVars,
                 waiters, arriving, snapshot, shown, draft, submitting, panicked>>

(* the user is back at the start menu, or the program has crashed          *)
MatchLeft ==
  /\ panicked \/ Quitted
  /\ UNCHANGED vars

-----------------------------------------------------------------------------
Collecting(role) ==
  \/ BeginTask(role)
  \/ AIReturns(role) \/ AIFails(role)
  \/ TakePending(role) \/ HumanReceives(role) \/ HumanCancelled(role)
  \/ FinishTask(role)

Running ==
  \/ AnnounceRound \/ Spawn \/ GroupWait \/ AnnounceResolving
  \/ CommitRound \/ CommitFails \/ Reveal \/ Close

Waiting == LoadSnapshot \/ ReceiveUpdate \/ StreamEnds

Next ==
  \/ \E w \in Writers : SendUpdate(w)
  \/ \E role \in Roles : Collecting(role)
  \/ Running
  \/ Waiting
  \/ \E i \in DOMAIN arriving : Deliver(i)
  \/ \E role \in Humans : UserSubmit(role)
  \/ SendSubmission
  \/ Quit
  \/ MatchLeft

Spec == Init /\ [][Next]_vars

(* Goroutines and commands that can run do run; blocked senders and        *)
(* receivers of a channel are served in turn, so none waits forever while  *)
(* others pass.                                                            *)
SystemFairness ==
  /\ WF_vars(Running)
  /\ \A w \in Writers : SF_vars(SendUpdate(w))
  /\ \A role \in Humans : WF_vars(Collecting(role))
  /\ WF_vars(Waiting)
  /\ WF_vars(\E i \in DOMAIN arriving : Deliver(i))
  /\ WF_vars(SendSubmission)

(* an AI role comes back, with an action, a failure or a cancellation: the *)
(* provider answers or the connection breaks, for the code sets no timeout *)
ProvidersAnswer == \A role \in AIs : WF_vars(Collecting(role))

(* the user fills in every form that is open, or leaves                    *)
UserPlays == \A role \in Humans : SF_vars(UserSubmit(role))

LiveSpec == Spec /\ SystemFairness /\ ProvidersAnswer

-----------------------------------------------------------------------------
(* Properties.                                                             *)

(* Every variable has its type; the channels stay within their buffers.    *)
TypeOK ==
  /\ round \in Rounds
  /\ runner \in {"start", "spawn", "wait", "resolve", "commit", "reveal", "stopped"}
  /\ task \in [Roles -> {"off", "begin", "call", "select", "submitted", "failing",
                         "done", "failed"}]
  /\ collected \in [Roles -> Submissions \cup {None}]
  /\ sending \in [Writers -> 0..MaxRound + 1]
  /\ latest \in Rounds
  /\ updates \in Seq(Rounds) /\ Len(updates) <= UpdateCap
  /\ closed \in BOOLEAN
  /\ submissions \in Seq(Submissions) /\ Len(submissions) <= SubmissionCap
  /\ pending \in [Submissions -> Nat]
  /\ waiters \in 0..2 /\ Len(arriving) + waiters <= 2
  /\ arriving \in Seq(Rounds)
  /\ snapshot \in BOOLEAN /\ shown \in 0..MaxRound + 1
  /\ draft \in [Humans -> {"open", "locked"}]
  /\ submitting \in Submissions \cup {None}
  /\ hasQuit \in BOOLEAN
  /\ panicked \in BOOLEAN

(* What a round collects for a human role is what the user submitted for   *)
(* that role in that round, although the goroutines of all human roles     *)
(* read one channel and normalizeSubmission relabels whatever it is given. *)
HumanActionsAreTheirOwn ==
  \A role \in Humans : collected[role] # None => collected[role] = Submission(role, round)

(* A form the user sees locked in the current round is held somewhere for  *)
(* the resolver: in the channel, set aside for its role, or collected.     *)
Held(submission) ==
  \/ \E i \in DOMAIN submissions : submissions[i] = submission
  \/ pending[submission] > 0
  \/ collected[submission.role] = submission

LockedFormIsHeld ==
  \A role \in Humans :
    (shown = round /\ draft[role] = "locked") => Held(Submission(role, round))

(* Controller.Submit refuses once the match is closed, it does not crash.  *)
NoPanic == ~panicked

(* The match comes to its end if the user plays on.  The one thing that    *)
(* can hold it up for good is a state of an earlier round that was still   *)
(* on its way when the last one of this round was shown: it is what stays  *)
(* on the screen while the roles wait, and the user plays the wrong round. *)
Overtaken ==
  /\ shown < round /\ arriving = <<>> /\ updates = <<>>
  /\ runner = "wait" /\ \E role \in Humans : task[role] = "select"

MatchEnds == UserPlays => <>(closed \/ Quitted \/ []Overtaken)

(* A match the user has left is closed down.  The one thing that can keep  *)
(* it open is a full updates buffer, which nobody empties any more: at     *)
(* most two commands still wait on it.                                     *)
QuitClosesUnlessFull == Quitted ~> (closed \/ Len(updates) = UpdateCap)

(* A user who stays sees the outcome of every round, the last one too, in  *)
(* whatever order the two commands deliver: no state is dropped on the way *)
(* from the runner to the screen.  An older state may replace it later.    *)
OutcomeShown ==
  \A r \in Rounds :
    (runner = "reveal" /\ round = r) ~> (Quitted \/ panicked \/ shown = r)

(* When a role fails the whole match stops instead of waiting for a human, *)
(* even if the user does nothing more.                                     *)
FailureEndsMatch ==
  (\E role \in Roles : task[role] = "failed") ~> (closed \/ Quitted)

(* Collection implements RoundProtocol.                                    *)
Abstract == INSTANCE RoundProtocol WITH
  accepted <- IF runner = "stopped" THEN {} ELSE {role \in Roles : collected[role] # None},
  over <- runner = "stopped"

ImplementsRoundProtocol == Abstract!Spec
=============================================================================
