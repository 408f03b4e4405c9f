--------------------------- MODULE LiveMatchProofs ---------------------------
(***************************************************************************)
(* Proofs about LiveMatch, for every value of its constants: any number of *)
(* human and AI roles, rounds and places in the updates buffer, and states *)
(* that reach the user interface in any order.                             *)
(***************************************************************************)
EXTENDS LiveMatch, FiniteSetTheorems, SequenceTheorems, TLAPS

(* No state is from a round after the one that the runner carries, and the *)
(* states received, the commands that wait for one and the command that    *)
(* loads the snapshot are two together: each message starts one command.   *)
StatesTravel ==
  /\ sending \in [Writers -> 0 .. round]
  /\ latest \in 1 .. round
  /\ updates \in Seq(1 .. round) /\ Len(updates) <= UpdateCap
  /\ arriving \in Seq(1 .. round)
  /\ shown \in 0 .. round
  /\ waiters \in Nat /\ snapshot \in BOOLEAN
  /\ Len(arriving) + waiters + (IF snapshot THEN 1 ELSE 0) <= 2
  /\ closed \in BOOLEAN /\ hasQuit \in BOOLEAN

RunnerPlaces == {"start", "spawn", "wait", "resolve", "commit", "reveal", "stopped"}
TaskPlaces == {"off", "begin", "call", "select", "submitted", "failing", "done", "failed"}

(* Where the goroutines of the roles are while the runner is elsewhere,    *)
(* and that they have returned an action exactly when one is collected.    *)
TasksFollowRunner ==
  /\ round \in Rounds /\ runner \in RunnerPlaces
  /\ runner \in {"start", "spawn", "wait", "resolve", "commit"} => round <= MaxRound
  /\ task \in [Roles -> TaskPlaces]
  /\ collected \in [Roles -> Submissions \cup {None}]
  /\ \A role \in Roles :
       /\ (collected[role] # None) <=> (task[role] \in {"submitted", "done"})
       /\ runner \in {"start", "spawn", "reveal"} => task[role] = "off"
       /\ runner \in {"resolve", "commit"} => task[role] = "done"
       /\ task[role] \notin {"off", "done", "failed"} => runner = "wait"

(* What the user has entered is from the round on the screen or an earlier *)
(* one.                                                                    *)
FormsTyped ==
  /\ submissions \in Seq(Submissions) /\ Len(submissions) <= SubmissionCap
  /\ pending \in [Submissions -> Nat]
  /\ draft \in [Humans -> {"open", "locked"}]
  /\ submitting \in [role : Humans, round : Rounds] \cup {None}
  /\ submitting # None => submitting.round = shown
  /\ panicked \in BOOLEAN

Places == StatesTravel /\ TasksFollowRunner /\ FormsTyped

IInv == Places /\ HumanActionsAreTheirOwn /\ LockedFormIsHeld

-----------------------------------------------------------------------------
(* Sequences.                                                              *)

LEMMA LargerSeq == ASSUME NEW S, NEW T, S \subseteq T PROVE Seq(S) \subseteq Seq(T)
OBVIOUS

(* A sequence without its first element.                                   *)
LEMMA Shorter ==
  ASSUME NEW S, NEW s \in Seq(S), s # << >>
  PROVE  Tail(s) \in Seq(S) /\ Len(Tail(s)) = Len(s) - 1 /\ Head(s) \in S /\ Len(s) \in Nat \ {0}
OBVIOUS

(* A sequence without one of its elements.                                 *)
LEMMA OneRemoved ==
  ASSUME NEW S, NEW s \in Seq(S), NEW i \in DOMAIN s
  PROVE  RemoveAt(s, i) \in Seq(S) /\ Len(RemoveAt(s, i)) = Len(s) - 1 /\ s[i] \in S
<1> DEFINE a == SubSeq(s, 1, i - 1)
           b == SubSeq(s, i + 1, Len(s))
<1>1. i \in 1 .. Len(s) /\ Len(s) \in Nat /\ s[i] \in S
  OBVIOUS
<1>2. a \in Seq(S) /\ Len(a) = i - 1
  BY <1>1
<1>3. b \in Seq(S) /\ Len(b) = Len(s) - i
  BY <1>1
<1>4. RemoveAt(s, i) = a \o b
  BY DEF RemoveAt
<1> HIDE DEF a, b
<1>5. a \o b \in Seq(S) /\ Len(a \o b) = Len(a) + Len(b)
  BY <1>2, <1>3, ConcatProperties
<1> QED
  BY <1>1, <1>2, <1>3, <1>4, <1>5

-----------------------------------------------------------------------------
(* The constants.                                                          *)

LEMMA CapIsNat == SubmissionCap \in Nat \ {0}
<1>1. IsFiniteSet(Roles)
  BY RolesAssumption, FS_Union DEF Roles
<1> QED
  BY <1>1, FS_CardinalityType DEF SubmissionCap

(* None is not a submission, and submissions are told apart by role and    *)
(* round.                                                                  *)
LEMMA NoneIsNoSubmission ==
  /\ None \notin Submissions
  /\ \A role \in Roles : \A r \in Rounds : Submission(role, r) \in Submissions
  /\ \A role \in Roles : \A r \in Rounds :
       Submission(role, r).role = role /\ Submission(role, r).round = r
  /\ \A s \in Submissions : s.role \in Roles /\ s.round \in Rounds /\ s = Submission(s.role, s.round)
BY RolesAssumption DEF None, Submissions, Submission

-----------------------------------------------------------------------------
(* States on their way to the user interface.                              *)

LEMMA PublishTravels ==
  ASSUME Places, NEW w \in Writers, Publish(w, round), UNCHANGED <<round, updates, closed, uiVars>>
  PROVE  StatesTravel'
<1>1. latest' \in 1 .. round /\ sending' \in [Writers -> 0 .. round]
  <2>1. round \in 1 .. round /\ round \in 0 .. round
    BY SizeAssumption DEF Places, TasksFollowRunner, Rounds
  <2> QED
    BY <2>1 DEF Places, StatesTravel, Publish
<1> QED
  BY <1>1 DEF Places, StatesTravel, uiVars

(* A writer puts its state on the channel (Publish): it was taken from a   *)
(* round that has begun.                                                   *)
LEMMA SendTravels ==
  ASSUME Places, NEW w \in Writers, SendUpdate(w)
  PROVE  StatesTravel'
<1>1. /\ sending \in [Writers -> 0 .. round] /\ sending[w] > 0 /\ updates \in Seq(1 .. round)
      /\ Len(updates) < UpdateCap /\ round \in Nat /\ UpdateCap \in Nat
  BY SizeAssumption DEF Places, StatesTravel, TasksFollowRunner, Rounds, SendUpdate, Blocked
<1>2. updates' \in Seq(1 .. round) /\ Len(updates') <= UpdateCap
  BY <1>1 DEF SendUpdate
<1>3. sending' \in [Writers -> 0 .. round]
  BY <1>1 DEF SendUpdate
<1> QED
  BY <1>2, <1>3 DEF Places, StatesTravel, SendUpdate, runnerVars, uiVars

(* Steps that touch no state on its way to the screen.                     *)
LEMMA TravelsKept ==
  ASSUME Places, UNCHANGED <<round, channelVars, closed, waiters, arriving, snapshot, shown, hasQuit>>
  PROVE  StatesTravel'
BY DEF Places, StatesTravel, channelVars

(* The runner begins the next round: the states on their way are still of  *)
(* this one or earlier.                                                    *)
LEMMA CommitTravels == ASSUME Places, CommitRound PROVE StatesTravel'
<1>1. round' = round + 1 /\ UNCHANGED <<channelVars, closed, uiVars>> /\ round \in Nat
  BY DEF CommitRound, Places, TasksFollowRunner, Rounds
<1>2. 1 .. round \subseteq 1 .. round' /\ 0 .. round \subseteq 0 .. round'
  BY <1>1
<1>3. updates \in Seq(1 .. round') /\ arriving \in Seq(1 .. round')
  BY <1>2, LargerSeq DEF Places, StatesTravel
<1>4. sending \in [Writers -> 0 .. round']
  BY <1>2 DEF Places, StatesTravel
<1> QED
  BY <1>1, <1>2, <1>3, <1>4 DEF Places, StatesTravel, channelVars, uiVars

(* A command receives a state, or finds the channel closed.                *)
LEMMA WaitingTravels == ASSUME Places, Waiting PROVE StatesTravel'
<1> USE DEF Places, StatesTravel
<1>1. Len(arriving) \in Nat
  OBVIOUS
<1>2. ASSUME LoadSnapshot PROVE StatesTravel'
  <2>1. arriving' \in Seq(1 .. round) /\ Len(arriving') = Len(arriving) + 1
    BY <1>2 DEF LoadSnapshot
  <2> QED
    <3>1. /\ snapshot /\ snapshot' = FALSE
          /\ UNCHANGED <<round, sending, latest, updates, closed, waiters, shown, hasQuit>>
      BY <1>2 DEF LoadSnapshot, runnerVars, channelVars
    <3>2. Len(arriving') + waiters' + (IF snapshot' THEN 1 ELSE 0) <= 2
      BY <1>1, <2>1, <3>1
    <3> QED
      BY <2>1, <3>1, <3>2
<1>3. ASSUME ReceiveUpdate PROVE StatesTravel'
  <2>1. /\ Tail(updates) \in Seq(1 .. round) /\ Len(Tail(updates)) = Len(updates) - 1
        /\ Head(updates) \in 1 .. round /\ Len(updates) \in Nat \ {0}
    BY <1>3, Shorter DEF ReceiveUpdate
  <2>2. arriving' \in Seq(1 .. round) /\ Len(arriving') = Len(arriving) + 1
    BY <1>3, <2>1 DEF ReceiveUpdate
  <2> QED
    BY <1>1, <1>3, <2>1, <2>2, SizeAssumption DEF ReceiveUpdate, runnerVars
<1>4. ASSUME StreamEnds PROVE StatesTravel'
  BY <1>1, <1>4 DEF StreamEnds, runnerVars, channelVars
<1> QED
  BY <1>2, <1>3, <1>4 DEF Waiting

(* A state or a closed channel is delivered to the message loop.           *)
LEMMA DeliverTravels ==
  ASSUME Places, NEW i \in DOMAIN arriving, Deliver(i)
  PROVE  StatesTravel'
<1> USE DEF Places, StatesTravel
<1>1. /\ RemoveAt(arriving, i) \in Seq(1 .. round) /\ Len(RemoveAt(arriving, i)) = Len(arriving) - 1
      /\ arriving[i] \in 1 .. round /\ Len(arriving) \in Nat
  <2>1. arriving \in Seq(1 .. round) /\ Len(arriving) \in Nat
    OBVIOUS
  <2> QED
    BY <2>1, OneRemoved
<1>2. arriving' \in Seq(1 .. round) /\ Len(arriving') = Len(arriving) - 1
  BY <1>1 DEF Deliver
<1>3. waiters' \in Nat /\ waiters' <= waiters + 1 /\ shown' \in 0 .. round
  BY <1>1 DEF Deliver, ShowState, DropState
<1>4. UNCHANGED <<round, sending, latest, updates, closed, snapshot, hasQuit>>
  BY DEF Deliver, runnerVars, channelVars
<1> QED
  BY <1>1, <1>2, <1>3, <1>4

(* The states on their way to the screen are always of rounds that have    *)
(* begun.                                                                  *)
LEMMA StatesTravelStep == ASSUME Places, [Next]_vars PROVE StatesTravel'
<1> USE DEF runnerVars, intakeVars, uiVars
<1>1. ASSUME NEW role \in Roles, Collecting(role) PROVE StatesTravel'
  <2>1. role \in Writers
    BY DEF Writers
  <2>2. ASSUME BeginTask(role) \/ FinishTask(role) PROVE StatesTravel'
    BY <2>1, <2>2, PublishTravels DEF BeginTask, FinishTask
  <2>3. ASSUME AIReturns(role) \/ AIFails(role) \/ TakePending(role) PROVE StatesTravel'
    BY <2>3, TravelsKept DEF AIReturns, AIFails, TakePending
  <2>4. ASSUME HumanReceives(role) \/ HumanCancelled(role) PROVE StatesTravel'
    BY <2>4, TravelsKept DEF HumanReceives, HumanCancelled
  <2> QED
    BY <1>1, <2>2, <2>3, <2>4 DEF Collecting
<1>2. ASSUME Running PROVE StatesTravel'
  <2>1. Runner \in Writers
    BY DEF Writers
  <2>2. ASSUME AnnounceRound \/ AnnounceResolving \/ Reveal PROVE StatesTravel'
    BY <2>1, <2>2, PublishTravels DEF AnnounceRound, AnnounceResolving, Reveal
  <2>3. ASSUME Spawn \/ GroupWait \/ CommitFails PROVE StatesTravel'
    BY <2>3, TravelsKept DEF Spawn, GroupWait, CommitFails
  <2>4. ASSUME Close PROVE StatesTravel'
    BY <2>4 DEF Close, Places, StatesTravel, channelVars
  <2> QED
    BY <1>2, <2>2, <2>3, <2>4, CommitTravels DEF Running
<1>3. ASSUME NEW role \in Humans, UserSubmit(role) PROVE StatesTravel'
  BY <1>3, TravelsKept DEF UserSubmit
<1>4. ASSUME SendSubmission PROVE StatesTravel'
  BY <1>4, TravelsKept DEF SendSubmission
<1>5. ASSUME Quit PROVE StatesTravel'
  BY <1>5 DEF Quit, Places, StatesTravel, channelVars
<1>6. ASSUME UNCHANGED vars PROVE StatesTravel'
  BY <1>6, TravelsKept DEF vars, channelVars
<1> QED
  BY <1>1, <1>2, <1>3, <1>4, <1>5, <1>6, SendTravels, WaitingTravels, DeliverTravels DEF Next, MatchLeft

-----------------------------------------------------------------------------
(* The runner and the goroutines of the roles.                             *)

(* A goroutine moves on while the runner waits for it, and its action is   *)
(* collected as it returns one.                                            *)
LEMMA TaskMoves ==
  ASSUME Places, NEW role \in Roles, NEW to \in TaskPlaces,
         task[role] \notin {"off", "done", "failed"}, task' = [task EXCEPT ![role] = to],
         UNCHANGED runnerVars,
         \/ /\ to = "submitted" /\ collected' = [collected EXCEPT ![role] = Submission(role, round)]
         \/ /\ collected' = collected
            /\ (to \in {"submitted", "done"}) <=> (task[role] \in {"submitted", "done"})
  PROVE  TasksFollowRunner'
<1>1. /\ round' = round /\ runner' = runner /\ runner = "wait"
      /\ round \in Rounds /\ round <= MaxRound /\ task \in [Roles -> TaskPlaces]
      /\ collected \in [Roles -> Submissions \cup {None}]
      /\ \A r \in Roles : (collected[r] # None) <=> (task[r] \in {"submitted", "done"})
  BY DEF Places, TasksFollowRunner, runnerVars
<1>2. task' \in [Roles -> TaskPlaces]
  BY <1>1
<1>3. Submission(role, round) \in Submissions /\ Submission(role, round) # None
  BY <1>1, NoneIsNoSubmission
<1>4. collected' \in [Roles -> Submissions \cup {None}]
  BY <1>1, <1>3
<1>5. ASSUME NEW r \in Roles PROVE (collected'[r] # None) <=> (task'[r] \in {"submitted", "done"})
  BY <1>1, <1>3
<1> QED
  BY <1>1, <1>2, <1>4, <1>5 DEF TasksFollowRunner, RunnerPlaces

(* A step of one role's goroutine keeps the tasks in line with the runner. *)
LEMMA CollectingFollows ==
  ASSUME Places, NEW role \in Roles, Collecting(role)
  PROVE  TasksFollowRunner'
<1> USE DEF MoveTask, TaskPlaces
<1>1. ASSUME BeginTask(role) PROVE TasksFollowRunner'
  <2>1. task[role] = "begin" /\ task' = [task EXCEPT ![role] = "call"] /\ UNCHANGED <<runnerVars, collected>>
    BY <1>1 DEF BeginTask
  <2> QED
    BY <2>1, TaskMoves
<1>2. ASSUME AIReturns(role) PROVE TasksFollowRunner'
  <2>1. /\ task[role] = "call" /\ task' = [task EXCEPT ![role] = "submitted"] /\ UNCHANGED runnerVars
        /\ collected' = [collected EXCEPT ![role] = Submission(role, round)]
    BY <1>2 DEF AIReturns, Collected
  <2> QED
    BY <2>1, TaskMoves
<1>3. ASSUME AIFails(role) PROVE TasksFollowRunner'
  <2>1. task[role] = "call" /\ task' = [task EXCEPT ![role] = "failing"] /\ UNCHANGED <<runnerVars, collected>>
    BY <1>3 DEF AIFails
  <2> QED
    BY <2>1, TaskMoves
<1>4. ASSUME TakePending(role) PROVE TasksFollowRunner'
  <2>1. CASE pending[Key(role)] > 0
    <3>1. /\ task[role] = "call" /\ task' = [task EXCEPT ![role] = "submitted"] /\ UNCHANGED runnerVars
          /\ collected' = [collected EXCEPT ![role] = Submission(role, round)]
      BY <1>4, <2>1 DEF TakePending, Collected, Key
    <3> QED
      BY <3>1, TaskMoves
  <2>2. CASE ~(pending[Key(role)] > 0)
    <3>1. task[role] = "call" /\ task' = [task EXCEPT ![role] = "select"] /\ UNCHANGED <<runnerVars, collected>>
      BY <1>4, <2>2 DEF TakePending
    <3> QED
      BY <3>1, TaskMoves
  <2> QED
    BY <2>1, <2>2
<1>5. ASSUME HumanReceives(role) PROVE TasksFollowRunner'
  <2>1. CASE Head(submissions) = Key(role)
    <3>1. /\ task[role] = "select" /\ task' = [task EXCEPT ![role] = "submitted"] /\ UNCHANGED runnerVars
          /\ collected' = [collected EXCEPT ![role] = Submission(role, round)]
      BY <1>5, <2>1 DEF HumanReceives, Collected, Key
    <3> QED
      BY <3>1, TaskMoves
  <2>2. CASE Head(submissions) # Key(role)
    BY <1>5, <2>2 DEF HumanReceives, runnerVars, Places, TasksFollowRunner
  <2> QED
    BY <2>1, <2>2
<1>6. ASSUME HumanCancelled(role) PROVE TasksFollowRunner'
  <2>1. task[role] = "select" /\ task' = [task EXCEPT ![role] = "failing"] /\ UNCHANGED <<runnerVars, collected>>
    BY <1>6 DEF HumanCancelled
  <2> QED
    BY <2>1, TaskMoves
<1>7. ASSUME FinishTask(role) PROVE TasksFollowRunner'
  <2>1. CASE MoveTask(role, "submitted", "done")
    <3>1. task[role] = "submitted" /\ task' = [task EXCEPT ![role] = "done"] /\ UNCHANGED <<runnerVars, collected>>
      BY <1>7, <2>1 DEF FinishTask
    <3> QED
      BY <3>1, TaskMoves
  <2>2. CASE MoveTask(role, "failing", "failed")
    <3>1. task[role] = "failing" /\ task' = [task EXCEPT ![role] = "failed"] /\ UNCHANGED <<runnerVars, collected>>
      BY <1>7, <2>2 DEF FinishTask
    <3> QED
      BY <3>1, TaskMoves
  <2> QED
    BY <1>7, <2>1, <2>2 DEF FinishTask
<1> QED
  BY <1>1, <1>2, <1>3, <1>4, <1>5, <1>6, <1>7 DEF Collecting

(* A step of the runner keeps the tasks in line with it.                   *)
LEMMA RunningFollows == ASSUME Places, Running PROVE TasksFollowRunner'
<1> USE DEF Places, TasksFollowRunner, MoveRunner, RunnerPlaces, TaskPlaces, Rounds
<1>1. MaxRound \in Nat \ {0}
  BY SizeAssumption
<1>2. ASSUME AnnounceRound PROVE TasksFollowRunner'
  BY <1>1, <1>2 DEF AnnounceRound
<1>3. ASSUME Spawn PROVE TasksFollowRunner'
  BY <1>1, <1>3 DEF Spawn
<1>4. ASSUME GroupWait PROVE TasksFollowRunner'
  <2>1. \A role \in Roles : task[role] \in {"done", "failed"}
    BY <1>4 DEF GroupWait, Returned
  <2>2. UNCHANGED <<round, task, collected>>
    BY <1>4 DEF GroupWait
  <2>3. \/ runner' = "resolve" /\ runner = "wait" /\ \A role \in Roles : task[role] = "done"
        \/ runner' = "stopped"
    BY <1>4 DEF GroupWait
  <2> QED
    BY <1>1, <2>1, <2>2, <2>3
<1>5. ASSUME AnnounceResolving PROVE TasksFollowRunner'
  BY <1>1, <1>5 DEF AnnounceResolving
<1>6. ASSUME CommitRound PROVE TasksFollowRunner'
  BY <1>1, <1>6 DEF CommitRound
<1>7. ASSUME CommitFails PROVE TasksFollowRunner'
  BY <1>1, <1>7 DEF CommitFails
<1>8. ASSUME Reveal PROVE TasksFollowRunner'
  BY <1>1, <1>8 DEF Reveal
<1>9. ASSUME Close PROVE TasksFollowRunner'
  BY <1>1, <1>9 DEF Close, runnerVars
<1> QED
  BY <1>2, <1>3, <1>4, <1>5, <1>6, <1>7, <1>8, <1>9 DEF Running

(* The tasks are in line with the runner after every step.                 *)
LEMMA TasksFollowRunnerStep == ASSUME Places, [Next]_vars PROVE TasksFollowRunner'
<1>1. ASSUME UNCHANGED <<runnerVars, task, collected>> PROVE TasksFollowRunner'
  BY <1>1 DEF Places, TasksFollowRunner, runnerVars
<1>2. ASSUME NEW w \in Writers, SendUpdate(w) PROVE TasksFollowRunner'
  BY <1>1, <1>2 DEF SendUpdate
<1>3. ASSUME Waiting PROVE TasksFollowRunner'
  BY <1>1, <1>3 DEF Waiting, LoadSnapshot, ReceiveUpdate, StreamEnds
<1>4. ASSUME NEW i \in DOMAIN arriving, Deliver(i) PROVE TasksFollowRunner'
  BY <1>1, <1>4 DEF Deliver
<1>5. ASSUME NEW role \in Humans, UserSubmit(role) PROVE TasksFollowRunner'
  BY <1>1, <1>5 DEF UserSubmit
<1>6. ASSUME SendSubmission \/ Quit PROVE TasksFollowRunner'
  BY <1>1, <1>6 DEF SendSubmission, Quit
<1>7. ASSUME UNCHANGED vars PROVE TasksFollowRunner'
  BY <1>1, <1>7 DEF vars, runnerVars
<1> QED
  BY <1>2, <1>3, <1>4, <1>5, <1>6, <1>7, CollectingFollows, RunningFollows DEF Next, MatchLeft

-----------------------------------------------------------------------------
(* The forms of the user.                                                  *)

LEMMA FormsKept ==
  ASSUME Places, UNCHANGED <<intakeVars, shown, draft, submitting, panicked>>
  PROVE  FormsTyped'
BY DEF Places, FormsTyped, intakeVars

(* takePending, and a submission read and kept or set aside.               *)
LEMMA TakePendingForms ==
  ASSUME Places, NEW role \in Roles, TakePending(role)
  PROVE  FormsTyped'
<1>1. Key(role) \in Submissions
  BY NoneIsNoSubmission DEF Places, TasksFollowRunner, Key
<1>2. pending' \in [Submissions -> Nat]
  BY <1>1 DEF TakePending, Places, FormsTyped
<1> QED
  BY <1>2 DEF TakePending, Places, FormsTyped, uiVars

(* A human role receives a submission (SubmitRound): for itself, or set    *)
(* aside for its owner.                                                    *)
LEMMA HumanReceivesForms ==
  ASSUME Places, NEW role \in Roles, HumanReceives(role)
  PROVE  FormsTyped'
<1>1. /\ Tail(submissions) \in Seq(Submissions) /\ Len(Tail(submissions)) = Len(submissions) - 1
      /\ Head(submissions) \in Submissions /\ Len(submissions) \in Nat \ {0}
  BY Shorter DEF Places, FormsTyped, HumanReceives
<1>2. pending' \in [Submissions -> Nat]
  BY <1>1 DEF HumanReceives, Places, FormsTyped
<1>3. submissions' \in Seq(Submissions) /\ Len(submissions') <= SubmissionCap
  BY <1>1, CapIsNat DEF HumanReceives, Places, FormsTyped
<1> QED
  BY <1>2, <1>3 DEF HumanReceives, Places, FormsTyped, uiVars

(* Nothing is shown anew while a submission is on its way.                 *)
LEMMA DeliverForms ==
  ASSUME Places, NEW i \in DOMAIN arriving, Deliver(i)
  PROVE  FormsTyped'
<1>1. submitting = None /\ submitting' = None
  BY DEF Deliver, LoopFree
<1>2. draft' \in [Humans -> {"open", "locked"}]
  BY DEF Deliver, ShowState, DropState, Places, FormsTyped
<1> QED
  BY <1>1, <1>2 DEF Deliver, Places, FormsTyped, intakeVars

(* The user sends a form: it becomes the submission of the role and the    *)
(* round shown.                                                            *)
LEMMA UserSubmitForms ==
  ASSUME Places, NEW role \in Humans, UserSubmit(role)
  PROVE  FormsTyped'
<1>1. shown \in Rounds
  BY SizeAssumption DEF UserSubmit, Places, StatesTravel, TasksFollowRunner, Rounds
<1>2. submitting' = [role |-> role, round |-> shown] /\ shown' = shown
  BY DEF UserSubmit, Submission
<1>3. submitting' \in [role : Humans, round : Rounds] /\ submitting'.round = shown'
  BY <1>1, <1>2
<1> QED
  BY <1>3 DEF UserSubmit, Places, FormsTyped, intakeVars

(* The command puts the submission on the channel (Submit).                *)
LEMMA SendSubmissionForms == ASSUME Places, SendSubmission PROVE FormsTyped'
<1>1. submitting \in [role : Humans, round : Rounds] /\ submitting.role \in Humans
      /\ submitting \in Submissions
  BY DEF SendSubmission, Places, FormsTyped, Submissions, Roles
<1>2. submissions' \in Seq(Submissions) /\ Len(submissions') <= SubmissionCap
  <2>1. /\ submissions' = submissions \/ /\ submissions' = Append(submissions, submitting)
                                         /\ Len(submissions) < SubmissionCap
        /\ submissions \in Seq(Submissions) /\ Len(submissions) <= SubmissionCap
    BY DEF SendSubmission, Places, FormsTyped
  <2> QED
    BY <1>1, <2>1, CapIsNat
<1>3. draft' \in [Humans -> {"open", "locked"}]
  BY <1>1 DEF SendSubmission, Places, FormsTyped
<1>4. submitting' \in [role : Humans, round : Rounds] \cup {None}
      /\ (submitting' # None => submitting'.round = shown') /\ panicked' \in BOOLEAN
  BY <1>1 DEF SendSubmission, Places, FormsTyped
<1> QED
  BY <1>2, <1>3, <1>4 DEF SendSubmission, Places, FormsTyped

(* Forms, the channel and the pending map hold submissions of human roles  *)
(* after every step.                                                       *)
LEMMA FormsTypedStep == ASSUME Places, [Next]_vars PROVE FormsTyped'
<1> USE DEF uiVars
<1>1. ASSUME NEW w \in Writers, SendUpdate(w) PROVE FormsTyped'
  BY <1>1, FormsKept DEF SendUpdate
<1>2. ASSUME NEW role \in Roles, Collecting(role) PROVE FormsTyped'
  <2>1. ASSUME BeginTask(role) \/ FinishTask(role) PROVE FormsTyped'
    BY <2>1, FormsKept DEF BeginTask, FinishTask
  <2>2. ASSUME AIReturns(role) \/ AIFails(role) \/ HumanCancelled(role) PROVE FormsTyped'
    BY <2>2, FormsKept DEF AIReturns, AIFails, HumanCancelled
  <2> QED
    BY <1>2, <2>1, <2>2, TakePendingForms, HumanReceivesForms DEF Collecting
<1>3. ASSUME Running PROVE FormsTyped'
  <2>1. ASSUME AnnounceRound \/ AnnounceResolving \/ Reveal \/ Close PROVE FormsTyped'
    BY <2>1, FormsKept DEF AnnounceRound, AnnounceResolving, Reveal, Close
  <2>2. ASSUME Spawn \/ GroupWait \/ CommitRound \/ CommitFails PROVE FormsTyped'
    BY <2>2, FormsKept DEF Spawn, GroupWait, CommitRound, CommitFails
  <2> QED
    BY <1>3, <2>1, <2>2 DEF Running
<1>4. ASSUME Waiting PROVE FormsTyped'
  BY <1>4, FormsKept DEF Waiting, LoadSnapshot, ReceiveUpdate, StreamEnds
<1>5. ASSUME Quit PROVE FormsTyped'
  BY <1>5, FormsKept DEF Quit
<1>6. ASSUME UNCHANGED vars PROVE FormsTyped'
  BY <1>6, FormsKept DEF vars, intakeVars
<1> QED
  BY <1>1, <1>2, <1>3, <1>4, <1>5, <1>6, DeliverForms, UserSubmitForms, SendSubmissionForms
     DEF Next, MatchLeft

-----------------------------------------------------------------------------
(* The actions collected and the forms locked.                             *)

LEMMA OwnActionsKept ==
  ASSUME HumanActionsAreTheirOwn, UNCHANGED <<round, collected>>
  PROVE  HumanActionsAreTheirOwn'
BY DEF HumanActionsAreTheirOwn, Submission, None

(* An action collected for a human role is the one with its key.           *)
LEMMA OwnActionCollected ==
  ASSUME Places, HumanActionsAreTheirOwn, NEW role \in Roles,
         collected' = [collected EXCEPT ![role] = Submission(role, round)], UNCHANGED round
  PROVE  HumanActionsAreTheirOwn'
<1>1. collected \in [Roles -> Submissions \cup {None}] /\ Humans \subseteq Roles
  BY DEF Places, TasksFollowRunner, Roles
<1>2. \A other \in Humans : collected'[other] = IF other = role THEN Submission(role, round)
                                                ELSE collected[other]
  BY <1>1
<1>3. None' = None /\ \A other : Submission(other, round)' = Submission(other, round)
  BY DEF None, Submission
<1> QED
  BY <1>2, <1>3 DEF HumanActionsAreTheirOwn

(* What has been collected for a human role is its own, of this round,     *)
(* after every step.                                                       *)
LEMMA OwnActionsStep ==
  ASSUME Places, HumanActionsAreTheirOwn, [Next]_vars
  PROVE  HumanActionsAreTheirOwn'
<1> USE DEF runnerVars
<1>1. ASSUME NEW w \in Writers, SendUpdate(w) PROVE HumanActionsAreTheirOwn'
  BY <1>1, OwnActionsKept DEF SendUpdate
<1>2. ASSUME NEW role \in Roles, Collecting(role) PROVE HumanActionsAreTheirOwn'
  <2>1. ASSUME BeginTask(role) \/ AIFails(role) \/ HumanCancelled(role) \/ FinishTask(role)
        PROVE  HumanActionsAreTheirOwn'
    BY <2>1, OwnActionsKept DEF BeginTask, AIFails, HumanCancelled, FinishTask
  <2>2. ASSUME AIReturns(role) PROVE HumanActionsAreTheirOwn'
    BY <2>2, OwnActionCollected DEF AIReturns, Collected
  <2>3. ASSUME TakePending(role) PROVE HumanActionsAreTheirOwn'
    BY <2>3, OwnActionsKept, OwnActionCollected DEF TakePending, Collected, Key
  <2>4. ASSUME HumanReceives(role) PROVE HumanActionsAreTheirOwn'
    BY <2>4, OwnActionsKept, OwnActionCollected DEF HumanReceives, Collected, Key
  <2> QED
    BY <1>2, <2>1, <2>2, <2>3, <2>4 DEF Collecting
<1>3. ASSUME Running PROVE HumanActionsAreTheirOwn'
  <2>1. ASSUME AnnounceRound \/ AnnounceResolving \/ Reveal \/ Close PROVE HumanActionsAreTheirOwn'
    BY <2>1, OwnActionsKept DEF AnnounceRound, AnnounceResolving, Reveal, Close
  <2>2. ASSUME Spawn \/ GroupWait \/ CommitFails PROVE HumanActionsAreTheirOwn'
    BY <2>2, OwnActionsKept DEF Spawn, GroupWait, CommitFails
  <2>3. ASSUME CommitRound PROVE HumanActionsAreTheirOwn'
    BY <2>3 DEF CommitRound, HumanActionsAreTheirOwn, Roles, None
  <2> QED
    BY <1>3, <2>1, <2>2, <2>3 DEF Running
<1>4. ASSUME Waiting PROVE HumanActionsAreTheirOwn'
  BY <1>4, OwnActionsKept DEF Waiting, LoadSnapshot, ReceiveUpdate, StreamEnds
<1>5. ASSUME NEW i \in DOMAIN arriving, Deliver(i) PROVE HumanActionsAreTheirOwn'
  BY <1>5, OwnActionsKept DEF Deliver
<1>6. ASSUME NEW role \in Humans, UserSubmit(role) PROVE HumanActionsAreTheirOwn'
  BY <1>6, OwnActionsKept DEF UserSubmit
<1>7. ASSUME SendSubmission \/ Quit PROVE HumanActionsAreTheirOwn'
  BY <1>7, OwnActionsKept DEF SendSubmission, Quit
<1>8. ASSUME UNCHANGED vars PROVE HumanActionsAreTheirOwn'
  BY <1>8, OwnActionsKept DEF vars
<1> QED
  BY <1>1, <1>2, <1>3, <1>4, <1>5, <1>6, <1>7, <1>8 DEF Next, MatchLeft

(* What is held stays held, in one place or another.                       *)
LEMMA LockedKept ==
  ASSUME LockedFormIsHeld, UNCHANGED <<round, shown, draft>>,
         \A role \in Humans : Held(Submission(role, round)) => Held(Submission(role, round))'
  PROVE  LockedFormIsHeld'
<1>1. \A role : Submission(role, round)' = Submission(role, round)
  BY DEF Submission
<1> QED
  BY <1>1 DEF LockedFormIsHeld

(* Steps that touch neither the forms nor the places where submissions     *)
(* wait.                                                                   *)
LEMMA HeldKept ==
  ASSUME LockedFormIsHeld, UNCHANGED <<round, shown, draft, submissions, pending, collected>>
  PROVE  LockedFormIsHeld'
<1>1. \A role \in Humans : Held(Submission(role, round)) => Held(Submission(role, round))'
  BY DEF Held, Submission
<1> QED
  BY <1>1, LockedKept

(* A submission that is collected for its role leaves its other places.    *)
LEMMA CollectedIsHeld ==
  ASSUME Places, NEW role \in Roles, UNCHANGED round,
         collected' = [collected EXCEPT ![role] = Submission(role, round)]
  PROVE  /\ collected'[role] = Submission(role, round)
         /\ \A other \in Humans :
              collected[other] = Submission(other, round) => collected'[other] = Submission(other, round)
BY DEF Places, TasksFollowRunner, Roles

(* A role that finds its submission in the pending map takes it from there *)
(* into its slot.                                                          *)
LEMMA TakePendingHolds ==
  ASSUME Places, LockedFormIsHeld, NEW role \in Roles, TakePending(role)
  PROVE  LockedFormIsHeld'
<1> USE DEF runnerVars, uiVars
<1>1. CASE pending[Key(role)] > 0
  <2>1. /\ collected' = [collected EXCEPT ![role] = Submission(role, round)]
        /\ pending' = [pending EXCEPT ![Submission(role, round)] = @ - 1]
        /\ UNCHANGED <<round, shown, draft, submissions>>
    BY <1>1 DEF TakePending, Collected, Key
  <2>2. ASSUME NEW other \in Humans, Held(Submission(other, round))
        PROVE  Held(Submission(other, round))'
    <3>1. /\ Submission(other, round).role = other /\ Submission(other, round)' = Submission(other, round)
          /\ Submission(other, round) \in Submissions
          /\ other # role => Submission(other, round) # Submission(role, round)
      BY <2>1, NoneIsNoSubmission DEF Submission, Submissions, Roles, Places, TasksFollowRunner
    <3>2. other # role => pending'[Submission(other, round)] = pending[Submission(other, round)]
      BY <2>1, <3>1 DEF Places, FormsTyped
    <3> QED
      BY <2>1, <2>2, <3>1, <3>2, CollectedIsHeld DEF Held
  <2> QED
    BY <2>1, <2>2, LockedKept
<1>2. CASE ~(pending[Key(role)] > 0)
  BY <1>2, HeldKept DEF TakePending
<1> QED
  BY <1>1, <1>2

(* A submission received from the channel goes to its owner's slot or into *)
(* the pending map: it is not lost.                                        *)
LEMMA HumanReceivesHolds ==
  ASSUME Places, LockedFormIsHeld, NEW role \in Roles, HumanReceives(role)
  PROVE  LockedFormIsHeld'
<1> USE DEF runnerVars, uiVars
<1>1. /\ submissions \in Seq(Submissions) /\ submissions # << >> /\ submissions' = Tail(submissions)
      /\ pending \in [Submissions -> Nat] /\ UNCHANGED <<round, shown, draft>>
  BY DEF HumanReceives, Places, FormsTyped
<1>2. \A i \in DOMAIN submissions :
        submissions[i] = Head(submissions)
        \/ \E j \in DOMAIN submissions' : submissions'[j] = submissions[i]
  <2>1. ASSUME NEW i \in DOMAIN submissions, i # 1
        PROVE  i - 1 \in DOMAIN submissions' /\ submissions'[i - 1] = submissions[i]
    BY <1>1, <2>1
  <2>2. submissions[1] = Head(submissions)
    BY <1>1
  <2> QED
    BY <2>1, <2>2
<1>3. \A other \in Humans :
        /\ Submission(other, round).role = other /\ Submission(other, round)' = Submission(other, round)
        /\ Submission(other, round) \in Submissions
  BY <1>1, NoneIsNoSubmission DEF Submission, Roles, Places, TasksFollowRunner
<1>4. CASE Head(submissions) = Key(role)
  <2>1. collected' = [collected EXCEPT ![role] = Submission(role, round)] /\ pending' = pending
    BY <1>4 DEF HumanReceives, Collected, Key
  <2>2. ASSUME NEW other \in Humans, Held(Submission(other, round))
        PROVE  Held(Submission(other, round))'
    <3>1. other # role => Submission(other, round) # Head(submissions)
      BY <1>4 DEF Key, Submission
    <3>2. /\ collected'[role] = Submission(role, round)
          /\ collected[other] = Submission(other, round) => collected'[other] = Submission(other, round)
      BY <1>1, <2>1, CollectedIsHeld
    <3>3. CASE other = role
      BY <1>3, <3>2, <3>3 DEF Held
    <3>4. CASE other # role
      BY <1>2, <1>3, <2>1, <2>2, <3>1, <3>2, <3>4 DEF Held
    <3> QED
      BY <3>3, <3>4
  <2> QED
    BY <1>1, <2>2, LockedKept
<1>5. CASE Head(submissions) # Key(role)
  <2>1. pending' = [pending EXCEPT ![Head(submissions)] = @ + 1] /\ collected' = collected
        /\ Head(submissions) \in Submissions
    BY <1>1, <1>5, Shorter DEF HumanReceives
  <2>2. ASSUME NEW other \in Humans, Held(Submission(other, round))
        PROVE  Held(Submission(other, round))'
    <3>1. /\ pending'[Head(submissions)] > 0
          /\ pending[Submission(other, round)] > 0 => pending'[Submission(other, round)] > 0
      BY <1>1, <1>3, <2>1
    <3> QED
      BY <1>2, <1>3, <2>1, <2>2, <3>1 DEF Held
  <2> QED
    BY <1>1, <2>2, LockedKept
<1> QED
  BY <1>4, <1>5

(* A form is locked as its submission is queued.                           *)
LEMMA SendSubmissionHolds ==
  ASSUME Places, LockedFormIsHeld, SendSubmission
  PROVE  LockedFormIsHeld'
<1> USE DEF runnerVars
<1>1. /\ submitting \in [role : Humans, round : Rounds] /\ submitting.round = shown
      /\ submissions \in Seq(Submissions) /\ submitting \in Submissions
      /\ UNCHANGED <<round, shown, pending, collected>> /\ draft \in [Humans -> {"open", "locked"}]
  BY DEF SendSubmission, Places, FormsTyped, Submissions, Roles
<1>2. CASE UNCHANGED <<submissions, draft>>
  BY <1>1, <1>2, HeldKept
<1>3. CASE submissions' = Append(submissions, submitting)
           /\ draft' = [draft EXCEPT ![submitting.role] = "locked"]
  <2>1. /\ \A i \in DOMAIN submissions : i \in DOMAIN submissions' /\ submissions'[i] = submissions[i]
        /\ \E i \in DOMAIN submissions' : submissions'[i] = submitting
    <3>1. /\ DOMAIN submissions' = 1 .. Len(submissions) + 1 /\ DOMAIN submissions = 1 .. Len(submissions)
          /\ submissions'[Len(submissions) + 1] = submitting /\ Len(submissions) \in Nat
          /\ \A i \in 1 .. Len(submissions) : submissions'[i] = submissions[i]
      BY <1>1, <1>3
    <3> QED
      BY <3>1
  <2>2. ASSUME NEW role \in Humans, shown' = round', draft'[role] = "locked"
        PROVE  Held(Submission(role, round))'
    <3>1. CASE role = submitting.role
      <4>1. submitting = Submission(role, round)
        BY <1>1, <2>2, <3>1 DEF Submission
      <4> QED
        BY <1>1, <2>1, <4>1 DEF Held, Submission
    <3>2. CASE role # submitting.role
      <4>1. draft[role] = "locked" /\ shown = round
        BY <1>1, <1>3, <2>2, <3>2
      <4>2. Held(Submission(role, round))
        BY <4>1 DEF LockedFormIsHeld
      <4> QED
        BY <1>1, <2>1, <4>2 DEF Held, Submission
    <3> QED
      BY <3>1, <3>2
  <2> QED
    BY <2>2 DEF LockedFormIsHeld
<1> QED
  BY <1>2, <1>3 DEF SendSubmission

(* A state of another round opens every form.                              *)
LEMMA DeliverHolds ==
  ASSUME Places, LockedFormIsHeld, NEW i \in DOMAIN arriving, Deliver(i)
  PROVE  LockedFormIsHeld'
<1> USE DEF runnerVars, intakeVars
<1>1. UNCHANGED <<round, submissions, pending, collected>>
  BY DEF Deliver
<1>2. CASE UNCHANGED <<shown, draft>>
  BY <1>1, <1>2, HeldKept
<1>3. CASE draft' = [role \in Humans |-> "open"]
  BY <1>3 DEF LockedFormIsHeld
<1> QED
  BY <1>2, <1>3 DEF Deliver, ShowState, DropState

(* A locked form is held somewhere after every step.                       *)
LEMMA LockedFormStep ==
  ASSUME Places, LockedFormIsHeld, [Next]_vars
  PROVE  LockedFormIsHeld'
<1> USE DEF runnerVars, intakeVars, uiVars
<1>1. ASSUME NEW w \in Writers, SendUpdate(w) PROVE LockedFormIsHeld'
  BY <1>1, HeldKept DEF SendUpdate
<1>2. ASSUME NEW role \in Roles, Collecting(role) PROVE LockedFormIsHeld'
  <2>1. ASSUME BeginTask(role) \/ AIFails(role) \/ HumanCancelled(role) \/ FinishTask(role)
        PROVE  LockedFormIsHeld'
    BY <2>1, HeldKept DEF BeginTask, AIFails, HumanCancelled, FinishTask
  <2>2. ASSUME AIReturns(role) PROVE LockedFormIsHeld'
    <3>1. /\ collected' = [collected EXCEPT ![role] = Submission(role, round)]
          /\ UNCHANGED <<round, shown, draft, submissions, pending>>
      BY <2>2 DEF AIReturns, Collected
    <3>2. ASSUME NEW other \in Humans, Held(Submission(other, round))
          PROVE  Held(Submission(other, round))'
      <4>1. Submission(other, round).role = other /\ Submission(other, round)' = Submission(other, round)
        BY <3>1 DEF Submission
      <4> QED
        BY <3>1, <3>2, <4>1, CollectedIsHeld DEF Held
    <3> QED
      BY <3>1, <3>2, LockedKept
  <2> QED
    BY <1>2, <2>1, <2>2, TakePendingHolds, HumanReceivesHolds DEF Collecting
<1>3. ASSUME Running PROVE LockedFormIsHeld'
  <2>1. ASSUME AnnounceRound \/ AnnounceResolving \/ Reveal \/ Close PROVE LockedFormIsHeld'
    BY <2>1, HeldKept DEF AnnounceRound, AnnounceResolving, Reveal, Close
  <2>2. ASSUME Spawn \/ GroupWait \/ CommitFails PROVE LockedFormIsHeld'
    BY <2>2, HeldKept DEF Spawn, GroupWait, CommitFails
  <2>3. ASSUME CommitRound PROVE LockedFormIsHeld'
    <3>1. shown' < round'
      BY <2>3, SizeAssumption DEF CommitRound, Places, StatesTravel, TasksFollowRunner, Rounds
    <3>2. shown' # round'
      BY <2>3, <3>1, SizeAssumption DEF CommitRound, Places, StatesTravel, TasksFollowRunner, Rounds
    <3> QED
      BY <3>2 DEF LockedFormIsHeld
  <2> QED
    BY <1>3, <2>1, <2>2, <2>3 DEF Running
<1>4. ASSUME Waiting PROVE LockedFormIsHeld'
  BY <1>4, HeldKept DEF Waiting, LoadSnapshot, ReceiveUpdate, StreamEnds
<1>5. ASSUME NEW role \in Humans, UserSubmit(role) PROVE LockedFormIsHeld'
  BY <1>5, HeldKept DEF UserSubmit
<1>6. ASSUME Quit PROVE LockedFormIsHeld'
  BY <1>6, HeldKept DEF Quit
<1>7. ASSUME UNCHANGED vars PROVE LockedFormIsHeld'
  BY <1>7, HeldKept DEF vars
<1> QED
  BY <1>1, <1>2, <1>3, <1>4, <1>5, <1>6, <1>7, SendSubmissionHolds, DeliverHolds DEF Next, MatchLeft

-----------------------------------------------------------------------------
(* The inductive invariant and what it implies.                            *)

LEMMA InitIInv == Init => IInv
<1> SUFFICES ASSUME Init PROVE IInv
  OBVIOUS
<1> USE SizeAssumption DEF Init
<1>1. StatesTravel
  <2>1. /\ sending \in [Writers -> 0 .. round] /\ latest \in 1 .. round /\ shown \in 0 .. round
        /\ updates \in Seq(1 .. round) /\ Len(updates) = 0 /\ 0 <= UpdateCap
        /\ arriving \in Seq(1 .. round) /\ Len(arriving) = 0 /\ waiters = 1
    OBVIOUS
  <2>2. closed \in BOOLEAN /\ hasQuit \in BOOLEAN /\ snapshot \in BOOLEAN
    OBVIOUS
  <2> QED
    BY <2>1, <2>2 DEF StatesTravel
<1>2. TasksFollowRunner
  BY DEF TasksFollowRunner, RunnerPlaces, TaskPlaces, Rounds
<1>3. FormsTyped
  <2>1. submissions \in Seq(Submissions) /\ Len(submissions) = 0 /\ 0 <= SubmissionCap
    BY CapIsNat
  <2>2. pending \in [Submissions -> Nat] /\ draft \in [Humans -> {"open", "locked"}]
    OBVIOUS
  <2>3. submitting = None /\ panicked \in BOOLEAN
    OBVIOUS
  <2> QED
    BY <2>1, <2>2, <2>3 DEF FormsTyped
<1>4. HumanActionsAreTheirOwn /\ LockedFormIsHeld
  BY DEF HumanActionsAreTheirOwn, LockedFormIsHeld, Roles
<1> QED
  BY <1>1, <1>2, <1>3, <1>4 DEF IInv, Places

(* IInv is an invariant.                                                   *)
THEOREM Inductive == Spec => []IInv
<1>1. IInv /\ [Next]_vars => IInv'
  BY StatesTravelStep, TasksFollowRunnerStep, FormsTypedStep, OwnActionsStep, LockedFormStep
     DEF IInv, Places
<1> QED
  BY InitIInv, <1>1, PTL DEF Spec

(* Every variable keeps its type, the channels stay within their buffers,  *)
(* and there are never more than two commands for the states of a match.   *)
THEOREM TypeCorrect == Spec => []TypeOK
<1>1. IInv => TypeOK
  <2> SUFFICES ASSUME Places PROVE TypeOK
    BY DEF IInv
  <2>1. /\ round \in Rounds /\ MaxRound \in Nat /\ round \in Nat /\ round <= MaxRound + 1
        /\ 1 .. round \subseteq Rounds /\ 0 .. round \subseteq 0 .. MaxRound + 1
    BY SizeAssumption DEF Places, TasksFollowRunner, Rounds
  <2>2. /\ sending \in [Writers -> 0 .. MaxRound + 1] /\ latest \in Rounds /\ shown \in 0 .. MaxRound + 1
        /\ updates \in Seq(Rounds) /\ arriving \in Seq(Rounds) /\ Len(updates) <= UpdateCap
    BY <2>1, LargerSeq DEF Places, StatesTravel
  <2>3. Len(arriving) \in Nat
    BY <2>2
  <2>4. waiters \in 0 .. 2 /\ Len(arriving) + waiters <= 2
    <3>1. waiters \in Nat /\ Len(arriving) + waiters + (IF snapshot THEN 1 ELSE 0) <= 2
      BY DEF Places, StatesTravel
    <3>2. (IF snapshot THEN 1 ELSE 0) \in 0 .. 1
      OBVIOUS
    <3> QED
      BY <2>3, <3>1, <3>2
  <2>5. submitting \in Submissions \cup {None}
    BY DEF Places, FormsTyped, Submissions, Roles
  <2> QED
    BY <2>1, <2>2, <2>4, <2>5
       DEF Places, StatesTravel, TasksFollowRunner, FormsTyped, TypeOK, RunnerPlaces, TaskPlaces
<1> QED
  BY Inductive, <1>1, PTL

(* Whatever the goroutines of the human roles read from the channel they   *)
(* share, the action collected for a role is the one the user submitted    *)
(* for it in this round.                                                   *)
THEOREM ActionsAlwaysOwn == Spec => []HumanActionsAreTheirOwn
<1>1. IInv => HumanActionsAreTheirOwn
  BY DEF IInv
<1> QED
  BY Inductive, <1>1, PTL

(* A form that is locked in the round on the screen is never lost before   *)
(* the round is resolved, for any number of roles and however late states  *)
(* reach the screen.                                                       *)
THEOREM LockedAlwaysHeld == Spec => []LockedFormIsHeld
<1>1. IInv => LockedFormIsHeld
  BY DEF IInv
<1> QED
  BY Inductive, <1>1, PTL

-----------------------------------------------------------------------------
(* Collection implements RoundProtocol.                                    *)

LEMMA ProtocolKept ==
  ASSUME UNCHANGED <<round, collected>>, (runner' = "stopped") <=> (runner = "stopped")
  PROVE  UNCHANGED Abstract!vars
BY DEF Abstract!vars, None

(* The runner stopping is the end of the protocol.                         *)
LEMMA ProtocolEnds ==
  ASSUME UNCHANGED round, runner # "stopped", runner' = "stopped"
  PROVE  Abstract!End
BY DEF Abstract!End

(* A slot that is filled with the submission of its role and round is an   *)
(* acceptance of the protocol.                                             *)
LEMMA ProtocolAccepts ==
  ASSUME Places, NEW role \in Roles, task[role] \in {"call", "select"}, UNCHANGED runnerVars,
         collected' = [collected EXCEPT ![role] = Submission(role, round)]
  PROVE  Abstract!Accept(role)
<1>1. /\ collected \in [Roles -> Submissions \cup {None}] /\ collected[role] = None
      /\ runner = "wait" /\ round <= MaxRound /\ round \in Rounds
      /\ runner' = runner /\ round' = round
  BY DEF Places, TasksFollowRunner, runnerVars
<1>2. Submission(role, round) # None /\ None' = None
  BY <1>1, NoneIsNoSubmission DEF None
<1>3. {other \in Roles : collected'[other] # None}
      = {other \in Roles : collected[other] # None} \cup {role}
  BY <1>1, <1>2
<1> QED
  BY <1>1, <1>2, <1>3 DEF Abstract!Accept

(* Committing a round is the commit of the protocol.                       *)
LEMMA ProtocolCommits == ASSUME Places, CommitRound PROVE Abstract!CommitRound
<1>1. /\ runner = "commit" /\ runner' = "reveal" /\ round' = round + 1
      /\ collected' = [role \in Roles |-> None]
  BY DEF CommitRound, MoveRunner
<1>2. {role \in Roles : collected[role] # None} = Roles
  BY <1>1 DEF Places, TasksFollowRunner
<1>3. {role \in Roles : collected'[role] # None'} = {}
  BY <1>1 DEF None
<1> QED
  BY <1>1, <1>2, <1>3 DEF Abstract!CommitRound

(* A step of one role's goroutine is an acceptance of the protocol, or a   *)
(* stutter.                                                                *)
LEMMA CollectingRefines ==
  ASSUME Places, NEW role \in Roles, Collecting(role)
  PROVE  [Abstract!Next]_(Abstract!vars)
<1> USE DEF runnerVars
<1>1. ASSUME BeginTask(role) \/ AIFails(role) \/ HumanCancelled(role) \/ FinishTask(role)
      PROVE  UNCHANGED Abstract!vars
  BY <1>1, ProtocolKept DEF BeginTask, AIFails, HumanCancelled, FinishTask
<1>2. ASSUME AIReturns(role) PROVE Abstract!Accept(role)
  BY <1>2, ProtocolAccepts DEF AIReturns, Collected, MoveTask
<1>3. ASSUME TakePending(role) PROVE Abstract!Accept(role) \/ UNCHANGED Abstract!vars
  BY <1>3, ProtocolAccepts, ProtocolKept DEF TakePending, Collected, MoveTask, Key
<1>4. ASSUME HumanReceives(role) PROVE Abstract!Accept(role) \/ UNCHANGED Abstract!vars
  BY <1>4, ProtocolAccepts, ProtocolKept DEF HumanReceives, Collected, MoveTask, Key
<1> QED
  BY <1>1, <1>2, <1>3, <1>4 DEF Collecting, Abstract!Next

(* A step of the runner is a commit or the end of the protocol, or a       *)
(* stutter.                                                                *)
LEMMA RunningRefines == ASSUME Places, Running PROVE [Abstract!Next]_(Abstract!vars)
<1>1. ASSUME AnnounceRound \/ Spawn \/ AnnounceResolving \/ Close PROVE UNCHANGED Abstract!vars
  BY <1>1, ProtocolKept DEF AnnounceRound, Spawn, AnnounceResolving, Close, MoveRunner, runnerVars
<1>2. ASSUME GroupWait \/ CommitFails \/ Reveal PROVE Abstract!End \/ UNCHANGED Abstract!vars
  BY <1>2, ProtocolEnds, ProtocolKept DEF GroupWait, CommitFails, Reveal, MoveRunner
<1> QED
  BY <1>1, <1>2, ProtocolCommits DEF Running, Abstract!Next

(* Every step of the program is a step of the protocol, or a stutter.      *)
LEMMA StepRefines == ASSUME Places, [Next]_vars PROVE [Abstract!Next]_(Abstract!vars)
<1> USE DEF runnerVars
<1>1. ASSUME NEW w \in Writers, SendUpdate(w) PROVE UNCHANGED Abstract!vars
  BY <1>1, ProtocolKept DEF SendUpdate
<1>2. ASSUME Waiting PROVE UNCHANGED Abstract!vars
  BY <1>2, ProtocolKept DEF Waiting, LoadSnapshot, ReceiveUpdate, StreamEnds
<1>3. ASSUME NEW i \in DOMAIN arriving, Deliver(i) PROVE UNCHANGED Abstract!vars
  BY <1>3, ProtocolKept DEF Deliver
<1>4. ASSUME NEW role \in Humans, UserSubmit(role) PROVE UNCHANGED Abstract!vars
  BY <1>4, ProtocolKept DEF UserSubmit
<1>5. ASSUME SendSubmission \/ Quit PROVE UNCHANGED Abstract!vars
  BY <1>5, ProtocolKept DEF SendSubmission, Quit
<1>6. ASSUME UNCHANGED vars PROVE UNCHANGED Abstract!vars
  BY <1>6, ProtocolKept DEF vars
<1> QED
  BY <1>1, <1>2, <1>3, <1>4, <1>5, <1>6, CollectingRefines, RunningRefines DEF Next, MatchLeft

(* Whoever answers first, whichever goroutine reads the channel and        *)
(* whatever fails, a round is committed with one action of every role, and *)
(* a match that has ended stays so: collection implements RoundProtocol.   *)
THEOREM CollectionImplementsProtocol == Spec => ImplementsRoundProtocol
<1>1. Init => Abstract!Init
  BY DEF Init, Abstract!Init
<1>2. IInv /\ [Next]_vars => [Abstract!Next]_(Abstract!vars)
  BY StepRefines DEF IInv
<1> QED
  BY Inductive, <1>1, <1>2, PTL DEF Spec, ImplementsRoundProtocol, Abstract!Spec

=============================================================================
