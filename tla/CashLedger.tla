----------------------------- MODULE CashLedger -----------------------------
(***************************************************************************)
(* The money side of the round resolver (internal/engine/resolver.go):     *)
(* cash, debt, the commitments due in later rounds, the finance targets    *)
(* and the spending limits that procurement and production are trimmed to. *)
(*                                                                         *)
(* ResolveRound runs its phases one after the other; every order line,     *)
(* capacity allocation, shipment and due commitment is one step here, in   *)
(* the order of the code.  What the shop floor makes possible (how far an  *)
(* allocation can advance, what a shipment earns, what inventory is worth) *)
(* is an input, drawn from the constants; the physical flow itself is the  *)
(* subject of module PlantFloor.                                           *)
(*                                                                         *)
(* A definition marked "Mutant" is a deliberately wrong variant of the one *)
(* that follows it; no specification uses it.  Replacing the definition by *)
(* it must make TLC report the property it is paired with (PROJECT.json).  *)
(***************************************************************************)
EXTENDS Integers, FiniteSets, Functions

CONSTANTS
  OpeningCash, OpeningDebt,  \* PlantState.Cash and Debt at the start of the match
  OpeningTargets,            \* ActiveTargets of the starting state
  TargetChoices,             \* targets the finance controller may submit
  OrderLines,                \* [quantity, minimum, unitCost]: order and supplier terms
  WorkLines,                 \* [limit, labor]: advance allowed by capacity, WIP and
                             \* labour, and the base labour left for it
  ProductionCost,            \* cost per capacity unit
  OvertimeCost,              \* OvertimeCostPerCapacityUnit
  BaseLaborCost,             \* base labour cost of all workstations for a round
  Shipments,                 \* [revenue, delay]: a shipment and its payment delay
  HoldingCosts,              \* carrying cost of the inventory at round end
  PayableDelay, PayrollDelay,
  MaxLines,                  \* bound: lines of one kind in one round
  MaxRound                   \* bound: rounds of the match

Targets == [procurement : Nat, production : Nat, debtCeiling : Nat]

ASSUME MoneyAssumption ==
  /\ OpeningCash \in Nat /\ OpeningDebt \in Nat
  /\ OpeningCash = 0 \/ OpeningDebt = 0
  /\ OpeningTargets \in Targets /\ TargetChoices \subseteq Targets
  /\ ProductionCost \in Nat \ {0} /\ OvertimeCost \in Nat /\ BaseLaborCost \in Nat
  /\ HoldingCosts \subseteq Nat

ASSUME LineAssumption ==
  /\ OrderLines \subseteq [quantity : Nat \ {0}, minimum : Nat, unitCost : Nat \ {0}]
  /\ WorkLines \subseteq [limit : Nat, labor : Nat]
  /\ Shipments \subseteq [revenue : Nat \ {0}, delay : Nat]

ASSUME RoundAssumption ==
  /\ PayableDelay \in Nat /\ PayrollDelay \in Nat
  /\ MaxLines \in Nat /\ MaxRound \in Nat

Phases == {"procurement", "production", "sales", "finance", "collect", "pay",
           "labor", "operating", "closed"}

Kinds == {"receivable", "payable", "payroll"}

VARIABLES
  round, phase,
  lines,              \* lines taken so far in this phase of the round
  cash, debt,         \* PlantState.Cash, PlantState.Debt
  ceiling,            \* PlantState.DebtCeiling
  targets,            \* ActiveTargets
  effective,          \* ActiveTargets.EffectiveRound
  receivables,        \* PlantState.Receivables
  payables,           \* PlantState.Payables: supplier payables and payroll
  budgetUsed,         \* spendUsed of procurement, budgetUsed of production
  stats               \* the money fields of resolutionStats, and the position
                      \* (cash - debt) and commitments the round opened with

plantVars == <<cash, debt>>
targetVars == <<ceiling, targets, effective>>
commitmentVars == <<receivables, payables>>
vars == <<round, phase, lines, cash, debt, ceiling, targets, effective,
          receivables, payables, budgetUsed, stats>>

Commitments == [kind : Kinds, n : Nat, created : Nat, due : Nat, amount : Nat]

Stats == [procurementSpend : Nat, productionSpend : Nat, overtime : Nat,
          payroll : Nat, carrying : Nat, revenue : Nat, receipts : Nat,
          disbursements : Nat, position : Int,
          expected : SUBSET Commitments, owed : SUBSET Commitments]

-----------------------------------------------------------------------------
(* Money arithmetic.                                                       *)

Lesser(a, b) == IF a <= b THEN a ELSE b
Floor0(a) == IF a >= 0 THEN a ELSE 0

Total(commitments) == SumFunction([c \in commitments |-> c.amount])

(* Mutant: a receipt goes to cash and leaves the debt standing.             *)
ReceiveKeepsDebt(amount) == cash' = cash + amount /\ debt' = debt

(* Mutant: spending overdraws cash instead of drawing on debt.             *)
SpendOverdraws(amount) == cash' = cash - amount /\ debt' = debt

(* applyCashDelta: a receipt pays debt down first, a spend draws cash first *)
Receive(amount) ==
  LET paydown == Lesser(amount, debt)
  IN  /\ debt' = debt - paydown
      /\ cash' = cash + (amount - paydown)

Spend(amount) ==
  \/ /\ cash >= amount
     /\ cash' = cash - amount
     /\ debt' = debt
  \/ /\ cash < amount
     /\ cash' = 0
     /\ debt' = debt + (amount - cash)

(* the hard cap lets a budget run over by a tenth; 0 means there is no cap *)
CappedBudget(target) == IF target <= 0 THEN 0 ELSE target + target \div 10

WithinBudget(spend, target) ==
  CappedBudget(target) > 0 => spend <= CappedBudget(target)

CarryingCost(amount) == IF amount <= 0 THEN 0 ELSE (amount + 9) \div 10

SpendCapacity(c, d) == IF ceiling <= 0 THEN c ELSE c + Floor0(ceiling - d)

AvailableSpendCapacity == SpendCapacity(cash, debt)

(* every payable is projected first, then every receivable                 *)
AvailableProjectedSpendCapacity ==
  LET owed == Total(payables)
      expected == Total(receivables)
      debtAfterPayables == debt + Floor0(owed - cash)
      paydown == Lesser(expected, debtAfterPayables)
  IN  SpendCapacity(Floor0(cash - owed) + (expected - paydown),
                    debtAfterPayables - paydown)

(* what the plant has and is owed, less what it owes                       *)
NetWorth(position, expected, owed) == position + Total(expected) - Total(owed)

(* sumCommitmentsDue: what the finance report shows as maturing in a round *)
MaturingIn(pool, r) == {c \in pool : c.due = r}

Commit(kind, pool, amount, delay) ==
  pool \cup {[kind |-> kind, n |-> Cardinality(pool) + 1, created |-> round,
              due |-> round + delay, amount |-> amount]}

-----------------------------------------------------------------------------
FreshStats(position, expected, owed) ==
  [procurementSpend |-> 0, productionSpend |-> 0, overtime |-> 0, payroll |-> 0,
   carrying |-> 0, revenue |-> 0, receipts |-> 0, disbursements |-> 0,
   position |-> position, expected |-> expected, owed |-> owed]

Init ==
  /\ round = 1 /\ phase = "procurement" /\ lines = 0
  /\ cash = OpeningCash /\ debt = OpeningDebt
  /\ ceiling = OpeningTargets.debtCeiling
  /\ targets = OpeningTargets /\ effective = 1
  /\ receivables = {} /\ payables = {}
  /\ budgetUsed = 0
  /\ stats = FreshStats(OpeningCash - OpeningDebt, {}, {})

TakeLine ==
  /\ lines < MaxLines
  /\ lines' = lines + 1
  /\ UNCHANGED <<round, phase>>

Enter(next) ==
  /\ phase' = next
  /\ lines' = 0
  /\ UNCHANGED round

-----------------------------------------------------------------------------
(* resolveProcurement: one order line, then the payable for all of them.   *)

Wanted(line) == IF line.quantity < line.minimum THEN line.minimum ELSE line.quantity

LegalQuantities(line) ==
  {q \in 0..Wanted(line) :
     q > 0 => /\ WithinBudget(budgetUsed + q * line.unitCost, targets.procurement)
              /\ q * line.unitCost <= AvailableProjectedSpendCapacity}

Accepted(line, legal) == IF legal < line.minimum THEN 0 ELSE legal

PlaceOrder(line) ==
  /\ phase = "procurement"
  /\ TakeLine
  /\ \E legal \in LegalQuantities(line) :
       /\ \A q \in LegalQuantities(line) : q <= legal
       /\ LET lineSpend == Accepted(line, legal) * line.unitCost
          IN  /\ budgetUsed' = budgetUsed + lineSpend
              /\ stats' = [stats EXCEPT !.procurementSpend = @ + lineSpend]
  /\ UNCHANGED <<plantVars, targetVars, commitmentVars>>

(* schedulePayable                                                         *)
SchedulePayable ==
  \/ /\ budgetUsed = 0
     /\ UNCHANGED <<plantVars, commitmentVars, stats>>
  \/ /\ budgetUsed > 0 /\ PayableDelay = 0
     /\ Spend(budgetUsed)
     /\ stats' = [stats EXCEPT !.disbursements = @ + budgetUsed]
     /\ UNCHANGED commitmentVars
  \/ /\ budgetUsed > 0 /\ PayableDelay > 0
     /\ payables' = Commit("payable", payables, budgetUsed, PayableDelay)
     /\ UNCHANGED <<plantVars, receivables, stats>>

EndProcurement ==
  /\ phase = "procurement"
  /\ SchedulePayable
  /\ budgetUsed' = 0
  /\ Enter("production")
  /\ UNCHANGED targetVars

-----------------------------------------------------------------------------
(* resolveProduction: one capacity allocation, then cash for all of them.  *)

OvertimeUnits(work, q) == Floor0(q - work.labor)

AdvanceCost(work, q) == q * ProductionCost + OvertimeUnits(work, q) * OvertimeCost

(* Mutant: overtime is left out of the budget check.                       *)
LegalAdvancesUnbudgetedOvertime(work) ==
  {q \in 0..work.limit :
     q > 0 => /\ WithinBudget(budgetUsed + q * ProductionCost, targets.production)
              /\ AdvanceCost(work, q) <= AvailableSpendCapacity}

LegalAdvances(work) ==
  {q \in 0..work.limit :
     q > 0 => /\ WithinBudget(budgetUsed + AdvanceCost(work, q), targets.production)
              /\ AdvanceCost(work, q) <= AvailableSpendCapacity}

AdvanceWork(work) ==
  /\ phase = "production"
  /\ TakeLine
  /\ \E advance \in LegalAdvances(work) :
       /\ \A q \in LegalAdvances(work) : q <= advance
       /\ budgetUsed' = budgetUsed + AdvanceCost(work, advance)
       /\ stats' = [stats EXCEPT
            !.productionSpend = @ + advance * ProductionCost,
            !.overtime = @ + OvertimeUnits(work, advance) * OvertimeCost]
  /\ UNCHANGED <<plantVars, targetVars, commitmentVars>>

(* Mutant: the overtime in the budget figure is taken from cash as well.   *)
EndProductionChargesOvertime ==
  /\ phase = "production"
  /\ Spend(budgetUsed)
  /\ stats' = [stats EXCEPT !.disbursements = @ + budgetUsed]
  /\ budgetUsed' = 0
  /\ Enter("sales")
  /\ UNCHANGED <<targetVars, commitmentVars>>

(* Mutant: cash is charged with the budget figure, the report is not.      *)
EndProductionMisreports ==
  /\ phase = "production"
  /\ Spend(budgetUsed)
  /\ stats' = [stats EXCEPT !.disbursements = @ + stats.productionSpend]
  /\ budgetUsed' = 0
  /\ Enter("sales")
  /\ UNCHANGED <<targetVars, commitmentVars>>

EndProduction ==
  /\ phase = "production"
  /\ Spend(stats.productionSpend)
  /\ stats' = [stats EXCEPT !.disbursements = @ + stats.productionSpend]
  /\ budgetUsed' = 0
  /\ Enter("sales")
  /\ UNCHANGED <<targetVars, commitmentVars>>

-----------------------------------------------------------------------------
(* resolveSales: one shipment; scheduleReceivable.                         *)

Ship(shipment) ==
  /\ phase = "sales"
  /\ TakeLine
  /\ \/ /\ shipment.delay = 0
        /\ Receive(shipment.revenue)
        /\ stats' = [stats EXCEPT !.revenue = @ + shipment.revenue,
                                  !.receipts = @ + shipment.revenue]
        /\ UNCHANGED receivables
     \/ /\ shipment.delay > 0
        /\ receivables' = Commit("receivable", receivables, shipment.revenue,
                                 shipment.delay)
        /\ stats' = [stats EXCEPT !.revenue = @ + shipment.revenue]
        /\ UNCHANGED plantVars
  /\ UNCHANGED <<targetVars, payables, budgetUsed>>

EndSales ==
  /\ phase = "sales"
  /\ Enter("finance")
  /\ UNCHANGED <<plantVars, targetVars, commitmentVars, budgetUsed, stats>>

-----------------------------------------------------------------------------
(* finalizeRound: targets, commitments due, labour, carrying costs.        *)

SetTargets(choice) ==
  /\ phase = "finance"
  /\ targets' = choice
  /\ effective' = round + 1
  /\ ceiling' = choice.debtCeiling
  /\ Enter("collect")
  /\ UNCHANGED <<plantVars, commitmentVars, budgetUsed, stats>>

KeepTargets ==
  /\ phase = "finance"
  /\ Enter("collect")
  /\ UNCHANGED <<plantVars, targetVars, commitmentVars, budgetUsed, stats>>

(* Mutant: a commitment is settled one round late.                         *)
DueEarlier(pool) == {c \in pool : c.due < round}

DueNow(pool) == {c \in pool : c.due <= round}

CollectReceivable(c) ==
  /\ phase = "collect" /\ c \in DueNow(receivables)
  /\ receivables' = receivables \ {c}
  /\ Receive(c.amount)
  /\ stats' = [stats EXCEPT !.receipts = @ + c.amount]
  /\ UNCHANGED <<round, phase, lines, targetVars, payables, budgetUsed>>

ReceivablesCollected ==
  /\ phase = "collect" /\ DueNow(receivables) = {}
  /\ Enter("pay")
  /\ UNCHANGED <<plantVars, targetVars, commitmentVars, budgetUsed, stats>>

PayPayable(c) ==
  /\ phase = "pay" /\ c \in DueNow(payables)
  /\ payables' = payables \ {c}
  /\ Spend(c.amount)
  /\ stats' = [stats EXCEPT !.disbursements = @ + c.amount]
  /\ UNCHANGED <<round, phase, lines, targetVars, receivables, budgetUsed>>

PayablesPaid ==
  /\ phase = "pay" /\ DueNow(payables) = {}
  /\ Enter("labor")
  /\ UNCHANGED <<plantVars, targetVars, commitmentVars, budgetUsed, stats>>

(* schedulePayroll                                                         *)
ApplyLaborCosts ==
  LET total == BaseLaborCost + stats.overtime
  IN  /\ phase = "labor"
      /\ \/ /\ total > 0 /\ PayrollDelay > 0
            /\ payables' = Commit("payroll", payables, total, PayrollDelay)
            /\ stats' = [stats EXCEPT !.payroll = total]
            /\ UNCHANGED plantVars
         \/ /\ total = 0 \/ PayrollDelay = 0
            /\ Spend(total)
            /\ stats' = [stats EXCEPT !.payroll = total, !.disbursements = @ + total]
            /\ UNCHANGED payables
      /\ Enter("operating")
      /\ UNCHANGED <<targetVars, receivables, budgetUsed>>

(* the last mutation of the round, and the opening of the next one         *)
ApplyRoundOperatingCosts(holding) ==
  LET total == holding + CarryingCost(debt)
  IN  /\ phase = "operating"
      /\ Spend(total)
      /\ stats' = [stats EXCEPT !.carrying = total, !.disbursements = @ + total]
      /\ phase' = "closed"
      /\ UNCHANGED <<round, lines, targetVars, commitmentVars, budgetUsed>>

NextRound ==
  /\ phase = "closed" /\ round < MaxRound
  /\ round' = round + 1
  /\ phase' = "procurement"
  /\ stats' = FreshStats(cash - debt, receivables, payables)
  /\ UNCHANGED <<lines, plantVars, targetVars, commitmentVars, budgetUsed>>

(* the horizon of the model: the last round has been resolved              *)
Horizon ==
  /\ phase = "closed" /\ round = MaxRound
  /\ UNCHANGED vars

Next ==
  \/ \E line \in OrderLines : PlaceOrder(line)
  \/ EndProcurement
  \/ \E work \in WorkLines : AdvanceWork(work)
  \/ EndProduction
  \/ \E shipment \in Shipments : Ship(shipment)
  \/ EndSales
  \/ \E choice \in TargetChoices : SetTargets(choice)
  \/ KeepTargets
  \/ \E c \in receivables : CollectReceivable(c)
  \/ ReceivablesCollected
  \/ \E c \in payables : PayPayable(c)
  \/ PayablesPaid
  \/ ApplyLaborCosts
  \/ \E holding \in HoldingCosts : ApplyRoundOperatingCosts(holding)
  \/ NextRound
  \/ Horizon

Spec == Init /\ [][Next]_vars

-----------------------------------------------------------------------------
(* Properties.                                                             *)

(* Every variable has its type.  That cash, debt and every commitment are  *)
(* natural numbers is FB-1: no sequence of spends and receipts drives a    *)
(* balance below zero.                                                     *)
TypeOK ==
  /\ round \in Nat /\ phase \in Phases /\ lines \in Nat
  /\ cash \in Nat /\ debt \in Nat /\ ceiling \in Nat
  /\ targets \in Targets /\ effective \in Nat
  /\ receivables \in SUBSET Commitments /\ IsFiniteSet(receivables)
  /\ payables \in SUBSET Commitments /\ IsFiniteSet(payables)
  /\ budgetUsed \in Nat /\ stats \in Stats

(* Debt is only ever carried with an empty till: receipts pay debt down    *)
(* first and spending draws cash first, whatever the order of shipments,   *)
(* collections, payments and carrying costs (applyCashDelta).              *)
NoCashWhileInDebt == cash = 0 \/ debt = 0

(* The receipts and disbursements a round reports explain its change of    *)
(* cash and debt exactly, at every step of the round: no mutation of the   *)
(* plant's cash goes unreported and none is reported twice.                *)
CashReconciles ==
  cash - debt = stats.position + stats.receipts - stats.disbursements

(* The profit computeMetrics reports is the change of the plant's net      *)
(* worth (cash, debt and outstanding commitments) over the round, although *)
(* revenue and expenses are booked in one round and settled in another.    *)
OperatingExpense ==
  stats.procurementSpend + stats.productionSpend + stats.payroll + stats.carrying

ProfitIsNetWorthChange ==
  phase = "closed" =>
    NetWorth(cash - debt, receivables, payables)
      - NetWorth(stats.position, stats.expected, stats.owed)
      = stats.revenue - OperatingExpense

(* Accepted lines together stay within 110% of the active budget, however  *)
(* many there are and whatever overtime they take.                         *)
BudgetsCapped ==
  /\ phase = "procurement" => WithinBudget(budgetUsed, targets.procurement)
  /\ phase = "production" => WithinBudget(budgetUsed, targets.production)

(* A commitment is settled in the round it falls due and in no other: once *)
(* the round's collections and payments are done nothing due is left, in   *)
(* between nothing is overdue, and what a round settles of the commitments *)
(* it opened with is what the finance report showed as maturing in it      *)
(* (sumCommitmentsDue of internal/projection/role_report.go).              *)
AfterCollect == {"pay", "labor", "operating", "closed"}
AfterPay == {"labor", "operating", "closed"}

CommitmentsSettledOnTime ==
  /\ \A c \in receivables :
       IF phase \in AfterCollect THEN c.due > round ELSE c.due >= round
  /\ \A c \in payables :
       IF phase \in AfterPay THEN c.due > round ELSE c.due >= round
  /\ stats.expected \ receivables \subseteq MaturingIn(stats.expected, round)
  /\ stats.owed \ payables \subseteq MaturingIn(stats.owed, round)

(* Targets submitted in a round bind the next one: while a round spends,   *)
(* the limits in force are those of an earlier submission, and the ceiling *)
(* is the one submitted with them.                                         *)
TargetsNotRetroactive ==
  /\ phase \in {"procurement", "production", "sales"} => effective <= round
  /\ ceiling = targets.debtCeiling

(* What procurement has accepted in the round is payable within the debt   *)
(* ceiling once the outstanding commitments are settled.                   *)
ProcurementFundable ==
  phase = "procurement" => budgetUsed <= AvailableProjectedSpendCapacity

=============================================================================
