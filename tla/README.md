# HerbieGo: a verification project

TLA+ models of [HerbieGo](../src/README.md), a turn-based factory simulation in
which four roles (procurement, production, sales, finance), each played by a
person or by a language model, act at once in every round. TLC checks the models
on small instances; TLAPS proves theorems about them for every value of the
constants. Definitions are translated from the Go source; `PROJECT.json` maps
each of them to its lines and pairs each property with a mutant, a plausible bug
of the code that makes TLC report that property.

In the paths below `resolver.go` is `src/internal/engine/resolver.go`,
`match_runner.go`, `round_collection.go` and `ai_orchestrator.go` are in
`src/internal/app`, `live_gameplay_controller.go` and `app_flow.go` in
`src/cmd/herbiego`, `model.go`, `action_entry.go`, `form_editor.go` and `debug_tree.go` in
`src/internal/adapters/tui`, and `store.go` in `src/internal/adapters/persistence/sqlite`.

## 1. The system

### Components, their state and operations

| Component | State | Operations | What makes it correct |
|---|---|---|---|
| Round resolver (`resolver.go`) | `MatchState`: plant, customers, suppliers, targets, history | `ResolveRound`: procurement, receipt, production, sales, world update, finalisation | nothing is created or lost: money, parts, units, orders; limits hold for the round as a whole, not line by line; reports agree with what happened |
| Scenario (`scenario/`) | static definition | `InitialState`, demand of a round, lookups | demand is booked once per customer and product |
| Live gameplay controller | latest state, updates channel (8), submissions channel (roles + 1), pending map, closed flag | `Publish`, `Submit`, `SubmitRound`, `Close`, `Snapshot` | every submission reaches its role, nobody waits forever, no send on a closed channel |
| Round collection | result slots, flow progress, an error group | `Collect` | one action of each role for this round, or none at all |
| Match runner | state carried, previous accepted actions | `Play` | rounds are collected, resolved, committed and shown in this order; failures end the match |
| AI orchestrator and LLM player | per decision: attempt, lookups, feedback | `Decide`, `RecoverFromNonResponse` | bounded attempts, feedback that fits, deterministic fallback |
| SQLite store | matches, rounds, snapshots, slots, events, commentary, AI calls | `CreateMatch`, `CommitRound`, `SaveSlot`, `LoadSaveSlot`, reads | append-only history, all copies agree |
| Memory store | one record per match | the same interface | the same promises, under one mutex |
| Application shell (`app_flow.go`, `persistence.go`) | screen, session, gameplay screen | start, resume, load, save, leave, exit | the session follows what is on the screen; nothing uncommitted is kept |
| Gameplay screen (`model.go`, `action_entry.go`) | state shown, role, workspace, pane, drafts, spinner | keys, states, ticks | a key reaches what the user sees; a form is sent for the round being collected |
| Action form (`form_editor.go`, `actionschema`) | fields, rows, cursor, the value being edited | move, edit, add and remove rows, send | the cursor is on a field; what is sent fits the schema and the round |
| Inspector and debug log (`debug_tree.go`, `debug_log.go`) | selection, expansion; a bounded list | select, expand; append | the selected node is one that is drawn |
| Projection, prompting | none | pure functions | information hiding; a report agrees with what the resolver then does |
| Configuration, random source, provider client | file, generator, HTTP | read, draw, call | - |

### How they interact

The shell opens a gameplay screen and starts `MatchRunner.Play` in a goroutine.
`Play` calls `Collect`, which starts one goroutine per role. A human role's
goroutine waits in `SubmitRound` for the submissions channel, that all human
roles share; an AI role's goroutine runs the orchestrator, which calls the
provider. All of them publish progress on the updates channel, from which
commands of the UI's message loop receive. When every role has answered, `Play`
resolves the round (pure, sequential), commits it to the store and publishes the
new state. Leaving the screen cancels the context of `Play`, but does not wait for
it: the goroutine goes on in the background while the user starts or resumes
another match on the same store. What it still has to say arrives, through a command
of the UI, at whatever screen there is by then.

### The hard parts

Shared channels with hand-over between readers; check-then-send without a lock;
buffers whose reader has left; commands that deliver in any order; cancellation
that looks like a provider failure; plays that outlive their screen and race on
one match in the store; commits that fail; crashes; retries mixed with lookups. In
the resolver, which runs alone: limits checked line by line and charged for the
round, copies of the backlog in two places, commitments due in later rounds, running
tallies, rounding and clamping. In the user interface, one loop too: indexes and ids that are kept while what they
point at changes, messages that were sent for a state that is gone, keys whose meaning depends on four other variables. `PROJECT.json` lists each at its line as a hazard.

## 2. Modules

```
RoundProtocol <---- LiveMatch             what collection promises / how it is done
MemoryStore <------ MatchSession          abstract store / shell and plays
                      + MatchStore          that use its tables
RoleActions <------ AIDecision            gates an action passes / one AI role's decisions
ActionForm, Inspector <-- GameplayScreen  parts of the screen / its message loop
CashLedger                                money
SupplyChain <------ PlantFloor            purchase / shop floor
OrderBook                                 sales
Subsequences                              filtered slices, for OrderBook and GameplayScreen
SumTheorems                               lemmas about sums, for the proofs
MC*                                       values for model checking

CashLedgerProofs, PlantFloorProofs, OrderBookProofs, LiveMatchProofs, MatchSessionProofs,
AIDecisionProofs, GameplayScreenProofs    theorems about the module of that name
```

The resolver is cut along its data. Each of its four modules keeps the order of
the phases and loops of `ResolveRound` and takes what another one computes as an
input, chosen from a constant set with `\E`: the parts received, what money
allows, what the floor yields. Random draws (slips, inspection outcomes, returns)
are choices too.

**CashLedger** (`resolveProcurement`, `resolveProduction`, `resolveSales`,
`finalizeRound`, `applyCashDelta`, `schedulePayable`, `scheduleReceivable`,
`applyLaborCosts`, ..., and `sumCommitmentsDue` of `role_report.go`). State: cash, debt, ceiling, targets, receivables,
payables, the phase's `spendUsed`/`budgetUsed`, and the money fields of
`resolutionStats`. One action per order line, allocation, shipment and due
commitment, and one that ends each phase. `MaturingIn` is the finance report's view of
the commitments that are to fall due in the round.

**SupplyChain** (`resolveProcurement`'s lots, `receiveSupply`, `recordSupplier*`,
`shouldDelayLot`). State: lots in transit, parts shelved, supplier records. The
code's two passes, judging the lots and shelving them, are two phases. It states no specification of its own:
`PlantFloor` extends it, and the parts its lots put on the shelf are those that releases take.

**PlantFloor** (`resolveProduction`, `completeFinishedUnits`, `stressedCapacity`,
labour helpers). State: parts, work in progress, capacity and labour used, overtime
granted and left, output by inspection outcome. One action per release line and per allocation. Its `Spec`
goes through the orders and receipts of `SupplyChain` and the production of a round.

**OrderBook** (`releaseInspectionHolds`, `processCustomerReturns`,
`resolveSales`, `applyDemand`, the ageing in `finalizeRound`,
`syncCustomerBacklog`). State: stock, holds, pending returns, the backlog of the plant
and its copy at each customer, sentiment, and the unit cost of goods wherever they are. Shipping takes one entry
at a time, any that no other comes before in the order of the sort: `slices.SortFunc` is not stable, so equal entries may be
served in any order. Holds are released and returns booked one at a time. Goods are averaged, joined on hold and returned at a cost as in
`addFinishedInventory`, `perUnitCost` (which truncates) and `addInspectionHoldInventory`.

**LiveMatch** (`match_runner.go`, `round_collection.go`,
`live_gameplay_controller.go`, `model.go`, the players). One state machine per
goroutine: the runner, one per role, the UI's commands, its message loop. Each
lock section and each channel operation is a step, so that the gaps between
them are visible: `Publish` and the send that follows it, `Submit`'s check of
`closed` and its send, `SubmitRound`'s look at the pending map and its wait. A
published state is represented by its round.

**RoundProtocol** is what collection promises without goroutines: one action per
role and round, a commit when none is missing, the end at any time. `LiveMatch`
implements it under the mapping `accepted <-` the roles whose slot is filled,
`over <-` the runner has stopped.

**MatchStore** (`store.go`). The tables that hold a match three times (state,
rounds, snapshots), and the save slots. A state is the sequence of plays that
resolved its rounds, so two outcomes of one round can be told apart. Every
operation is one transaction, as in the code.

**MemoryStore** (`memory/store.go`). One record per match; each operation runs under the mutex and is one step. It
is the second implementation of the port and plain enough to be the abstract one: `MatchSession` shows, under
the mapping `Recorded`, that the tables of `MatchStore` behave as it does.

**MatchSession** (`app_flow.go`, `persistence.go`, `start_menu.go`, `Play`). The shell's
actions, any number of plays at once, their events channels with the
commands that wait on them, refused and failed commits, crash, restart and
`-resume-match-id`, with or without a store. `Enabled` says which items of the menu can be chosen.

**RoleActions** (`actionschema/validate.go`, `round_collection.go`, the checks at the start of
`ResolveRound`). What the action schema, the completion of a submission and the resolver each accept. Of
an action it keeps what these gates tell apart: its payloads, references to unknown things, a negative
number, the effective round of finance targets.

**AIDecision** (`ai_orchestrator.go`, `llm/player.go`,
`previousAcceptedActions`). One action per kind of reply, whose content is any action of `RoleActions`. The contents
of an action are named by the round that decided them, so that reuse across rounds and plays can be followed.

**ActionForm** (`form_editor.go`, `schema.go`). The form of a role as fields, rows and columns, the choices of a
cell (the suppliers of a row's part), the cursor's three indexes, `SeedValues` (what a form is opened with) and
`Submittable` (what may be sent). Pure operators, one per function of the editor.

**Inspector** (`debug_tree.go`, `debug_log.go`). The tree of rounds and AI calls as the list of its visible lines,
and the log with its bound. The code flattens the tree by recursion; here `Visit` takes one node at a time and keeps a list of the
nodes still to visit, which draws the same lines and can be proved about. `ensureDebugSelection` runs only while the
debug workspace is on the screen, but then before every key pressed in it, also before those that leave it (`SettleSelection`).

**GameplayScreen** (`model.go`, `action_entry.go`, `scenario_lookup.go`). The message loop: one action per key
in each context that takes it, with the order in which `Update` asks the lookup, the form, the inspector and
the screen; states of the match, appended log records and ticks of the spinner arrive at any time.

## 3. What the runs check

Every run finishes within two minutes on two cores, most in seconds.

| Run | Instance | Properties |
|---|---|---|
| `CashLedger` | 2 rounds, 2 lines a phase, payables and payroll delayed by 1 (the registered scenario), shipments paid at once or later, 2 alternative targets (one with no credit, one with no cap) | `TypeOK`, `NoCashWhileInDebt`, `CashReconciles`, `ProfitIsNetWorthChange`, `BudgetsCapped`, `CommitmentsSettledOnTime` |
| `PlantFloor` | 2 suppliers (one slips by a round, one never) and an order a round; 2 products that share a part and a station, one whose route skips the first station; 3 lines, 2 rounds, congestion on both stations | `TypeOK`, `RecordsAgreeWithLots`, `MaterialConserved`, `CapacityRespected`, `JamIsPermanent` |
| `OrderBook` | 2 customers, 2 products, expiry after 2 rounds, 3 rounds, up to 2 allocations a round that finish goods at different costs, holds, returns, partial shipments | `TypeOK`, `ViewsAgree`, `UnitsConserved`, `DemandConserved`, `OldestFirst`, `ExpiryWindow`, `ValuedWithinCost` |
| `LiveMatch` | 1 human, 1 AI role, 2 rounds, updates in any order, buffer 8 as in the code | `TypeOK`, `MatchEnds`, `QuitClosesUnlessFull`, `FailureEndsMatch`, `OutcomeShown`, `ImplementsRoundProtocol` |
| `LiveMatchTwoHumans` | 2 humans, 2 rounds, updates in any order, buffer 2 | `HumanActionsAreTheirOwn`, `LockedFormIsHeld` |
| `MatchSession` | a stored and a fresh match, 1 slot, 3 screens, 2 rounds each | `TypeOK`, `NothingUncommittedShown`, `SessionFollowsItsScreen`, `ImplementsMemoryStore` |
| `AIDecision` | 3 attempts, 2 lookups (the defaults), procurement, production or finance, 3 rounds, 2 plays | `TypeOK`, `CallsExplainSubmission`, `SubmissionsAccepted`, `FallbackRepeatsLastRound` |
| `GameplayScreen` | 2 people (one form with dependent choices) and an AI role, 3 rounds of which a state retains the last 1, forms of up to 2 rows, a log of 2 records | `TypeOK`, `CursorOnForm`, `EditingIsOnScreen`, `SentActionsFitTheRound`, `OneTickChain`, `SelectionIsDrawn` |

Four runs expect a violation; each shows a disagreement between the code
and what its documents say of it:

- `CashLedgerProcurementCeiling` (`ProcurementFundable`). Each order line is
  checked against the whole projected capacity, so two lines that fit the debt ceiling
  one by one exceed it together. ADR 0002 asks for a check that counts the
  spend already accepted in the phase.
- `LiveMatchLostWakeup` (`MatchEnds`). With two human roles, one goroutine can take the
  other's submission off the channel after the other has looked at the pending map and
  before it waits. The submission is set aside and nobody wakes its owner: the
  round never ends. The form is locked, so the user cannot send it again.
- `LiveMatchSubmitRace` (`NoPanic`). `Submit` tests `closed` under the lock and sends
  after releasing it; `Close` in between makes it send on a closed channel.
- `MatchSessionNewGame` (`NewGamesStart`). With `-sqlite-db`, starting a new game from
  the menu ends the program: the screen reads the snapshots of a match that only
  the play it is about to start would create.

### Bounds, and why they suffice

Lines per phase: two or three, since the faults of a limit checked line by line need two lines,
and one more lets a line before them use something up. Rounds: a commitment, return or lot made in
a round has to fall due and the round after it must start clean: two or three
rounds, given delays of one. In `OrderBook` the expiry window is shorter
than the horizon, so that orders do expire, and two allocations a round let goods of different cost meet, in stock and on
hold. `LiveMatch` needs a second round
for stale states and submissions to exist. Its buffer is that of the code; with two humans a buffer of 2 makes
it overflow within the horizon. `MatchSession` needs two plays of one match and a
third to receive the stray messages of a cancelled one. `AIDecision` needs three rounds for a fallback of a fallback,
and a second play for the previous action that is rebuilt from the history. In `GameplayScreen` two rows are the least at which
removing the last and removing another differ, two log records the least at which a full log drops one that is selected while
another stays, and two stale ticks the least at which a chain could double twice. A history of one round and three rounds are the least at
which a round that is selected leaves the history while another stays. (`HistoryLimit` is a parameter of the program, by default 10, and
no bound; the theorems hold for any.)

`MaxLines`, `MaxOrders`, `MaxRound`, `MaxPlays`, `MaxBookings`, `MaxYields`, `MaxReturn`, `MaxRows`, `MaxStale` and
`RoundsToPlay` are the only bounds of the specifications; the last is a flag of the program. The screen's parts are almost independent, and their product
is large, so its run has the constraint `Bound` (`MCGameplayScreen`): the lookup, the inspector, the spinner and one form at a time are
explored with the others at rest, while every context in which keys are routed remains; later rounds are entered with few edits made. The step `Horizon` (and `MatchLeft` in
`LiveMatch`) lets a model stand still where its horizon, or the program, ends. Deadlock is checked in every run.

### Fairness

Only `LiveMatch` has liveness properties, under `LiveSpec`:

- `SystemFairness`: goroutines and commands that can run do run (Go's scheduler, Bubble Tea's
  command goroutines); senders and receivers blocked on a channel are
  served first in, first out (the runtime's queue of waiters), hence strong fairness of `SendUpdate`.
- `ProvidersAnswer`: an AI task comes back at some time, with an answer or an error. This is
  an assumption about the network: the provider call has no deadline and
  `http.DefaultClient` no timeout, although ADR 0002 and ADR 0003 ask for one. Without it
  `MatchEnds` fails.

Nothing is assumed of the user. `UserPlays` (the user submits every open form, or
leaves) is the hypothesis of `MatchEnds` alone; `FailureEndsMatch`,
`QuitClosesUnlessFull` and `OutcomeShown` hold even if the user does nothing more.

No order is assumed between the two commands that wait for updates: each runs in a goroutine of its own, and every run
of `LiveMatch` lets either deliver first (`Deliver`). An older state may then replace a newer one on the screen, which
limits what can be promised:

- `MatchEnds` has the exception `[]Overtaken`: the last state of a round was shown and then replaced by one of an earlier round, nothing
  more is under way, and the human roles wait for a form that the user no longer sees. It is a fault of the code
  (section 5), and without the exception TLC finds it.
- `OutcomeShown` says that the state of every round whose outcome is revealed reaches the screen, not that it stays there.
- `HumanActionsAreTheirOwn` and `LockedFormIsHeld` hold in any order.

## 4. What is proved

Every invariant and every action property of the passing runs is proved by TLAPS for all values of the constants that satisfy the
modules' assumptions (any number of roles, rounds, lines, lots, orders, plays, calls and rows, and any delays,
capacities and costs), and so are the two refinements. TLC shows the same formulas on the instances of section 3.

| Module | Theorems (`Spec => []...` of the property, unless stated) |
|---|---|
| `CashLedgerProofs` | `Types` (no balance is ever negative), `NeverCashWhileInDebt`, `CashAlwaysReconciles`, `BudgetsAlwaysCapped`, `CommitmentsAlwaysSettledOnTime`, `TargetsNeverRetroactive` (`TargetsNotRetroactive`, which no run checks), `ProfitAlwaysNetWorthChange` |
| `PlantFloorProofs` | `TypeCorrect`, `RecordsAlwaysAgree`, `CapacityAlwaysRespected`, `MaterialAlwaysConserved`, `JamsForever` (`Spec => JamIsPermanent`) |
| `OrderBookProofs` | `TypeCorrect`, `ViewsAlwaysAgree`, `UnitsAlwaysConserved`, `DemandAlwaysConserved`, `ExpiryAlwaysKept`, `AlwaysValuedWithinCost`, `OldestAlwaysFirst` (`Spec => OldestFirst`, about steps) |
| `LiveMatchProofs` | `TypeCorrect`, `ActionsAlwaysOwn`, `LockedAlwaysHeld`, `CollectionImplementsProtocol` (`Spec => ImplementsRoundProtocol`) |
| `MatchSessionProofs` | `TypeCorrect`, `NeverShownUncommitted`, `SessionAlwaysFollows`, `TablesImplementMemoryStore` (`Spec => ImplementsMemoryStore`) |
| `AIDecisionProofs` | `TypeCorrect`, `CallsAlwaysExplain`, `AlwaysAccepted`, `FallbackAlwaysRepeats` |
| `GameplayScreenProofs` | `TypeCorrect`, `CursorAlwaysOnForm`, `EditingAlwaysOnScreen`, `SentAlwaysFits`, `AlwaysOneTickChain`, `SelectionAlwaysDrawn` |
| `SumTheorems` | `SumType`, `SumSplit`, `SumChange`, `SumZero`, `SumReindex`, `SumUnion`: sums over finite sets |

Each module but `SumTheorems` has one inductive invariant, `IInv` (with `Books` beside it in `CashLedgerProofs`), one lemma for
each action or for actions alike, and theorems that follow from it. What the properties lack to be inductive, and why:

- **CashLedger.** `BudgetsStartUnused`: nothing is charged to a budget outside the two spending phases, otherwise a
  phase could begin with its budget half used. `EffectiveNext`: targets are at most one round ahead, and not ahead at all before the
  finance phase. For the profit, `Books`: a new commitment is not already in its pool, where two alike would count as one
  (`FreshlyCommitted`); each expense is booked once, at the end of its phase (`BookedOnce`); and during the round net worth has changed by
  what was earned less what is booked so far (`BooksBalance`).
- **PlantFloor.** `LotsTracked`: lots stay distinguishable after slipping, or the set would lose one and the supplier's
  record would no longer add up. `OpensIdle`: a round finds the stations idle, or capacity used before would count against it.
- **OrderBook.** `AgesKept`: an order's age follows from its origin, also while it waits in the lists of a sale in progress.
  `ViewsFollow`: the customers' copies lag behind only until the last return that is due has been booked, which is what
  makes `ViewsAgree` true at the points where it is stated. `NoCostWithoutUnits`: empty stock carries no cost to
  what comes after. `HoldsMerged`: what can be joined on hold has been. `NothingLeft`: an order keeps a remainder only when its
  product is sold out, from which `OldestFirst` follows.
- **LiveMatch.** `StatesTravel`: the states received, the commands that wait for one and the one that loads the snapshot are two
  together, since each message starts one command, and none is of a later round than the runner's. `TasksFollowRunner`: where
  the roles' goroutines are while the runner is elsewhere, and that they have returned an action exactly when one is collected, which is
  what the refinement of `RoundProtocol` rests on.
- **MatchSession.** `World`: the rounds of a match are those its state has gone through (`TablesAgree`), and a play is always at
  a state that its match has gone through (`PlaysCommitted`). `SessionCommitted`: so is the session a new play may start from.
  `WithinRounds` bounds the rounds a match can have by the plays started. `WaitersBounded`: every command beyond the first that waits
  for a play owes it to another play that has reported its end, which bounds them.
- **AIDecision.** `PreviousIsLast`: what the runner carries is what the history holds, so it does not matter when it was rebuilt
  from there. `DecidedBefore`: nothing known before a round was decided in it or later. `HandedIn`: how the submission at hand relates to the rounds before.
  `CallsOpen`: while the role is asked no call has settled the matter, and lookups stay in their budget.
- **GameplayScreen.** `FormsFit`: the values of every draft and of every accepted action fit the schema of their role, since a form
  is opened with the latter. `SpinnerFits`: the spinner turns exactly while a provider is waited for. `SelectionFits`: the selection is
  a path with no folded node above it, always, and while the inspector is on the screen its round is one of the history. Elsewhere it need not be: a round can
  leave the history unseen, and what settles the selection again is the return to the inspector, a new state or a change of role there. Below it, `VisibleOnTree` shows of the
  whole walk over the tree that every line it draws has unfolded nodes above it. `SubmittableSendable` shows that the checks before a
  draft is sent imply what `SentActionsFitTheRound` asks, for each of the four roles (the run's people do not include production).

The assumptions are the named `ASSUME`s of the modules, and TLC evaluates them in every run. They say what the scenario and the code guarantee:
amounts are natural numbers, no opening position has both cash and debt, quantities of lines are positive, a route visits a station once,
products and stations are finitely many, opening stock without units has no cost, lookups are fewer
than attempts (`NewAIOrchestrator` sees to that; `CallsExplainSubmission` needs it), an AI role's name is not a person's. Several constants only bound the model
(`MaxLines`, `MaxRound`, ...); the theorems hold for any bound.

Sums and the walk over the tree are recursive functions, and the induction theorems of the library cannot be instantiated with the
provers at hand. `SumTheorems` therefore proves by smallest counterexample what it needs (`Smallest`, `SubsetInduction`); `WalkExists`
and `VisibleOnTree` do the same for the walk.

**Only model-checked:** the liveness properties of `LiveMatch` (`MatchEnds`, `QuitClosesUnlessFull`, `FailureEndsMatch`,
`OutcomeShown`), since fairness and `ENABLED` are out of the prover's reach, and that no model deadlocks. The four runs that expect a
violation are counterexamples, not theorems. Not proved, and implicit in the definitions: that `Visible` draws every node that is to be
drawn (the theorems say that it draws no other), and that `Nodes` bounds the length of the walk; a smaller bound would only cut the list short.

## 5. Observed without a run

Met while reading and modelling; the models follow the code.

- Production is checked against a cash balance that earlier allocations of the round have already
  committed (`resolver.go:776`, charged at 850): two affordable allocations exceed
  the ceiling together, as in procurement. Docs FB-2: "Debt-constrained spending cannot exceed the active debt ceiling".
- `cappedBudget` returns 0 for a target of 0, which its callers take for "no cap" (`resolver.go:1715`).
- Effective capacity is measured again at every allocation, after others have moved work in
  (`resolver.go:740`): a round can report more used than effective.
- Congestion can take all of a station's capacity although the comment at
  `resolver.go:1966` leaves stoppage to "later mechanics"; `JamIsPermanent` shows it then never clears.
- Allocations run in the order submitted, so a station listed before the one that
  feeds it advances less; `docs/mvp-game-design.md:223` says production does not sequence jobs.
- Released work enters at the first workstation of the plant, wherever its route begins.
- A supplier's score recovers on every receipt, also that of the late lot (`resolver.go:2065`),
  with an event that speaks of an "on-time receipt". No code raises a customer's sentiment, which
  `docs/mvp-game-design.md:310` says recovers.
- Two commands wait for updates at a time and may deliver in either order (`model.go:205`): an older state
  can overwrite a newer one, and the form then submits for a past round. If that was the last state of a round, the match waits
  for good for actions the user has no form for (`Overtaken`). After a quit nobody
  empties the updates channel; once it is full the runner cannot close the match
  (the exception in `QuitClosesUnlessFull`).
- A call cancelled by a quit is classified as a provider failure and recovered with the previous action or a
  no-op, so a match of AI roles alone plays on after the user has left.
- No command waits for the event after a status line, so the failure of a match is shown and its done
  message is normally never read. In one case it is:
  a stray message of an earlier play adds a waiting command, and the program then ends with the error.
- A save slot records a round but loads the current state of its match (`store.go:496`). After saving to a new slot
  the menu's selection stays on its index, which is then that of an older slot.
- A resumed play may start from a state behind the store and fail at its first commit. A config file with
  a `match_id` makes every new game a play of that match.
- Plays of one session share a random source that is not safe for concurrent use.
- Lookups use up attempts, so after two lookups one refused answer leads to the fallback
  without a retry; ADR 0003 asks for "initial attempt plus `2` retries". A reply without choices fails the whole match.
- A reused action is not validated again; `SubmissionsAccepted` shows that the resolver does not refuse it all the same, because
  `finalizeRound` overwrites the effective round of finance targets. It keeps its identifier, by which the resolver names
  purchase orders (`resolver.go:404`): the orders of several rounds have the same names, and the reused commentary sorts first.
- Units that join an inspection hold take the unit cost of the first (`resolver.go:1884`), where finished goods are averaged: the
  value of a hold can be more or less than what its units cost. `ValuedWithinCost` shows that it stays between the cheapest and the dearest.
- `BeginEdit` on an empty table adds a row and edits the column the cursor happens to be in, which need not be the first.
- A draft in review can still be edited, and its stage stays "review"; `SentActionsFitTheRound` shows that what is sent is
  built from the values of that moment and checked again.
- The debug log of a process is shared by its matches and the inspector does not filter by match: calls of
  an earlier match are drawn under the rounds of this one, and a replayed round repeats the ids of its calls.
- `ai_reveal_delay_seconds` is configured and shown but nothing waits for it.

## 6. Not modelled

Prompting is a pure function of the state, and so is the projection of reports; only the maturities of the finance report are
modelled. The splash screen is a picture; of the start menu only which items are enabled is modelled, its
choices are inputs. Configuration, random source and developer tooling have no behaviour worth a state machine; every draw is a
nondeterministic choice. The HTTP exchange with the
provider and SQLite itself are external; the models use the errors and the atomicity the code relies on. In the
resolver, events, commentary, the unit costs of parts and work in progress, and the metrics other than profit are left out;
in the stores, events, commentary, AI call records and the window of recent rounds, which `GameplayScreen` does model for what the inspector shows. There, states arrive
in the order of their rounds; `LiveMatch` models that they need not. The progress within
a round that `Collect` publishes is abstracted to the round. Of the user interface, layout, wording, scrolling, the mouse and
the content of the views are left out.

## 7. Plan

1. Done: the resolver's four modules, two of them composed; collection and its abstract protocol; session and stores with the
   abstract store; the gates of an action and AI decisions; the screen, its form and its inspector; proofs of every safety property of the
   runs and of both refinements.
2. Next proofs: invariants of the abstract specifications themselves (`RoundProtocol`, `MemoryStore`), which the refinements carry over to
   `LiveMatch` and `MatchSession`; that the walk of the inspector ends within `Nodes` steps and draws every
   unfolded node; which of the liveness properties of `LiveMatch` rest on safety facts that can be proved, such as a bound on the states
   that a command can still deliver after a quit.
3. Next models: the value of parts and work in progress along the route (with the costs an allocation adds); progress within a
   round and its emission outside the lock (`round_collection.go:205`); the window of recent rounds in both stores; states out of order in `GameplayScreen`; `PlantFloor` and
   `OrderBook` as one, so that what is finished is an output and not an input.

## 8. Running it

In this directory: `tlc -config CashLedger.cfg MCCashLedger` (the module of each run is in
`PROJECT.json`), `tlapm CashLedgerProofs.tla` and likewise for the other
modules of section 4. A definition whose comment begins with "Mutant" is a wrong variant of
the definition after it, used only to confirm that a property can fail.
