-------------------------- MODULE CashLedgerProofs --------------------------
(***************************************************************************)
(* Proofs about CashLedger, for every value of its constants: the types,   *)
(* no cash while in debt, reported cash flows reconcile with the balances, *)
(* budgets stay within their hard cap, commitments are settled when due,   *)
(* targets bind the next round only, and the reported profit is the change *)
(* of the plant's net worth.                                               *)
(***************************************************************************)
EXTENDS CashLedger, SumTheorems

(* Outside the two spending phases nothing is accounted against a budget;  *)
(* without this a budget could be entered half used.                       *)
BudgetsStartUnused ==
  phase \notin {"procurement", "production"} => budgetUsed = 0

(* Targets submitted in the finance phase are at most one round ahead.     *)
EffectiveNext ==
  /\ effective <= round + 1
  /\ phase \in {"procurement", "production", "sales", "finance"} => effective <= round

IInv ==
  /\ TypeOK
  /\ NoCashWhileInDebt
  /\ CashReconciles
  /\ BudgetsCapped /\ BudgetsStartUnused
  /\ CommitmentsSettledOnTime
  /\ TargetsNotRetroactive /\ EffectiveNext

(* A receipt keeps the balances natural, never leaves cash beside debt and *)
(* moves cash - debt by exactly its amount (applyCashDelta).               *)
LEMMA ReceiveEffect ==
  ASSUME NEW amount \in Nat, cash \in Nat, debt \in Nat, NoCashWhileInDebt,
         Receive(amount)
  PROVE  /\ cash' \in Nat /\ debt' \in Nat
         /\ NoCashWhileInDebt'
         /\ cash' - debt' = cash - debt + amount
  BY DEF Receive, Lesser, NoCashWhileInDebt

(* Spending does the same in the other direction (applyCashDelta).         *)
LEMMA SpendEffect ==
  ASSUME NEW amount \in Nat, cash \in Nat, debt \in Nat, NoCashWhileInDebt,
         Spend(amount)
  PROVE  /\ cash' \in Nat /\ debt' \in Nat
         /\ NoCashWhileInDebt'
         /\ cash' - debt' = cash - debt - amount
  BY DEF Spend, NoCashWhileInDebt

(* A new commitment joins the pool with its due round (schedulePayable,    *)
(* scheduleReceivable, schedulePayroll).                                   *)
LEMMA CommitEffect ==
  ASSUME NEW pool \in SUBSET Commitments, IsFiniteSet(pool), round \in Nat,
         NEW kind \in Kinds, NEW amount \in Nat, NEW delay \in Nat
  PROVE  /\ Commit(kind, pool, amount, delay) \in SUBSET Commitments
         /\ IsFiniteSet(Commit(kind, pool, amount, delay))
         /\ pool \subseteq Commit(kind, pool, amount, delay)
         /\ \A c \in Commit(kind, pool, amount, delay) :
              c \in pool \/ c.due = round + delay
<1> DEFINE new == [kind |-> kind, n |-> Cardinality(pool) + 1, created |-> round,
                   due |-> round + delay, amount |-> amount]
<1>1. Cardinality(pool) \in Nat
  BY FS_CardinalityType
<1>2. new \in Commitments
  BY <1>1 DEF Commitments
<1>3. Commit(kind, pool, amount, delay) = pool \cup {new}
  BY DEF Commit
<1>4. IsFiniteSet(pool \cup {new})
  BY FS_AddElement
<1>5. new.due = round + delay
  OBVIOUS
<1> HIDE DEF new
<1> QED
  BY <1>2, <1>3, <1>4, <1>5

(* Raising two of the reported sums keeps the report well formed and       *)
(* leaves the position it started from (EXCEPT on stats, spelled out once  *)
(* for the steps that report twice).                                       *)
LEMMA ReportTwice ==
  ASSUME stats \in Stats, NEW a \in Nat, NEW b \in Nat
  PROVE  /\ [stats EXCEPT !.productionSpend = @ + a, !.overtime = @ + b] \in Stats
         /\ [stats EXCEPT !.revenue = @ + a, !.receipts = @ + b] \in Stats
         /\ [stats EXCEPT !.payroll = a, !.disbursements = @ + b] \in Stats
         /\ [stats EXCEPT !.carrying = a, !.disbursements = @ + b] \in Stats
<1>1. [stats EXCEPT !.productionSpend = @ + a] \in Stats
      /\ [stats EXCEPT !.productionSpend = @ + a].overtime = stats.overtime
  BY DEF Stats
<1>2. [stats EXCEPT !.revenue = @ + a] \in Stats
      /\ [stats EXCEPT !.revenue = @ + a].receipts = stats.receipts
  BY DEF Stats
<1>3. [stats EXCEPT !.payroll = a] \in Stats
      /\ [stats EXCEPT !.payroll = a].disbursements = stats.disbursements
  BY DEF Stats
<1>4. [stats EXCEPT !.carrying = a] \in Stats
      /\ [stats EXCEPT !.carrying = a].disbursements = stats.disbursements
  BY DEF Stats
<1>5. \A s \in Stats : /\ [s EXCEPT !.overtime = stats.overtime + b] \in Stats
                       /\ [s EXCEPT !.receipts = stats.receipts + b] \in Stats
                       /\ [s EXCEPT !.disbursements = stats.disbursements + b] \in Stats
  <2>1. /\ stats.overtime + b \in Nat /\ stats.receipts + b \in Nat
        /\ stats.disbursements + b \in Nat
    BY DEF Stats
  <2>2. \A s \in Stats, n \in Nat : [s EXCEPT !.overtime = n] \in Stats
    BY DEF Stats
  <2>3. \A s \in Stats, n \in Nat : [s EXCEPT !.receipts = n] \in Stats
    BY DEF Stats
  <2>4. \A s \in Stats, n \in Nat : [s EXCEPT !.disbursements = n] \in Stats
    BY DEF Stats
  <2> QED
    BY <2>1, <2>2, <2>3, <2>4
<1> QED
  BY <1>1, <1>2, <1>3, <1>4, <1>5

(* The opening state of every match satisfies the invariant.               *)
LEMMA InitIInv == Init => IInv
<1> SUFFICES ASSUME Init PROVE IInv
  OBVIOUS
<1> USE MoneyAssumption
<1>1. TypeOK
  BY FS_EmptySet DEF Init, TypeOK, Phases, Targets, Stats, FreshStats
<1>2. NoCashWhileInDebt /\ CashReconciles
  BY DEF Init, NoCashWhileInDebt, CashReconciles, FreshStats
<1>3. BudgetsCapped /\ BudgetsStartUnused
  BY DEF Init, BudgetsCapped, BudgetsStartUnused, WithinBudget, CappedBudget, Targets
<1>4. CommitmentsSettledOnTime
  BY DEF Init, FreshStats, CommitmentsSettledOnTime
<1>5. TargetsNotRetroactive /\ EffectiveNext
  BY DEF Init, TargetsNotRetroactive, EffectiveNext
<1> QED
  BY <1>1, <1>2, <1>3, <1>4, <1>5 DEF IInv

(* An unused budget is within its cap.                                     *)
LEMMA UnusedBudget ==
  ASSUME NEW target \in Nat
  PROVE  WithinBudget(0, target)
  BY DEF WithinBudget, CappedBudget

(* The steps that touch neither balances nor commitments but move to the   *)
(* next phase: EndSales, KeepTargets, SetTargets, and the ends of the      *)
(* collection and payment loops.                                           *)
LEMMA PhaseStep ==
  ASSUME IInv,
         \/ EndSales \/ KeepTargets \/ \E choice \in TargetChoices : SetTargets(choice)
         \/ ReceivablesCollected \/ PayablesPaid
  PROVE  IInv'
<1> USE MoneyAssumption DEF IInv, plantVars, targetVars, commitmentVars, Enter
<1>1. TypeOK'
  BY DEF TypeOK, EndSales, KeepTargets, SetTargets, ReceivablesCollected,
         PayablesPaid, Phases, Targets
<1>2. NoCashWhileInDebt' /\ CashReconciles'
  BY DEF EndSales, KeepTargets, SetTargets, ReceivablesCollected, PayablesPaid,
         NoCashWhileInDebt, CashReconciles
<1>3. BudgetsCapped' /\ BudgetsStartUnused'
  BY DEF EndSales, KeepTargets, SetTargets, ReceivablesCollected, PayablesPaid,
         BudgetsCapped, BudgetsStartUnused
<1>4. CommitmentsSettledOnTime'
  BY DEF EndSales, KeepTargets, SetTargets, ReceivablesCollected, PayablesPaid,
         CommitmentsSettledOnTime, AfterCollect, AfterPay, DueNow, TypeOK, Commitments
<1>5. TargetsNotRetroactive' /\ EffectiveNext'
  BY DEF EndSales, KeepTargets, SetTargets, ReceivablesCollected, PayablesPaid,
         TargetsNotRetroactive, EffectiveNext, TypeOK
<1> QED
  BY <1>1, <1>2, <1>3, <1>4, <1>5

(* One accepted order line (resolveProcurement).                           *)
LEMMA PlaceOrderStep ==
  ASSUME IInv, NEW line \in OrderLines, PlaceOrder(line)
  PROVE  IInv'
<1> USE LineAssumption DEF IInv, plantVars, targetVars, commitmentVars, TakeLine
<1>0. line.quantity \in Nat /\ line.minimum \in Nat /\ line.unitCost \in Nat
  OBVIOUS
<1>1. PICK legal \in LegalQuantities(line) :
        LET lineSpend == Accepted(line, legal) * line.unitCost
        IN  /\ budgetUsed' = budgetUsed + lineSpend
            /\ stats' = [stats EXCEPT !.procurementSpend = @ + lineSpend]
  BY DEF PlaceOrder
<1> DEFINE lineSpend == Accepted(line, legal) * line.unitCost
<1>2. legal \in Nat
  BY <1>0, <1>1 DEF LegalQuantities, Wanted
<1>3. Accepted(line, legal) \in {0, legal}
  BY DEF Accepted
<1>4. lineSpend \in Nat /\ lineSpend \in {0, legal * line.unitCost}
  BY <1>0, <1>2, <1>3
<1>5. budgetUsed' = budgetUsed + lineSpend
      /\ stats' = [stats EXCEPT !.procurementSpend = @ + lineSpend]
  BY <1>1
<1> HIDE DEF lineSpend
<1>6. TypeOK'
  BY <1>4, <1>5 DEF TypeOK, PlaceOrder, Stats
<1>7. NoCashWhileInDebt' /\ CashReconciles'
  BY <1>5 DEF TypeOK, PlaceOrder, Stats, NoCashWhileInDebt, CashReconciles
<1>8. BudgetsCapped'
  <2>1. lineSpend = 0 \/ WithinBudget(budgetUsed + lineSpend, targets.procurement)
    BY <1>1, <1>2, <1>4 DEF LegalQuantities
  <2> QED
    BY <2>1, <1>4, <1>5 DEF PlaceOrder, BudgetsCapped, TypeOK
<1>9. BudgetsStartUnused' /\ CommitmentsSettledOnTime'
  BY DEF PlaceOrder, BudgetsStartUnused, CommitmentsSettledOnTime
<1>10. TargetsNotRetroactive' /\ EffectiveNext'
  BY DEF PlaceOrder, TargetsNotRetroactive, EffectiveNext
<1> QED
  BY <1>6, <1>7, <1>8, <1>9, <1>10

(* The payable for the round's orders, or their immediate payment.         *)
LEMMA EndProcurementStep ==
  ASSUME IInv, EndProcurement
  PROVE  IInv'
<1> USE RoundAssumption DEF IInv, plantVars, targetVars, commitmentVars, Enter,
        EndProcurement
<1>1. CASE budgetUsed = 0
  <2>1. UNCHANGED <<cash, debt, receivables, payables, stats>>
    BY <1>1 DEF SchedulePayable
  <2> QED
    BY <1>1, <2>1, UnusedBudget
    DEF TypeOK, Phases, Targets, NoCashWhileInDebt, CashReconciles, BudgetsCapped,
        BudgetsStartUnused, CommitmentsSettledOnTime, AfterCollect, AfterPay,
        TargetsNotRetroactive, EffectiveNext
<1>2. CASE budgetUsed > 0 /\ PayableDelay = 0
  <2>1. /\ Spend(budgetUsed)
        /\ stats' = [stats EXCEPT !.disbursements = @ + budgetUsed]
        /\ UNCHANGED <<receivables, payables>>
    BY <1>2 DEF SchedulePayable
  <2>2. /\ cash' \in Nat /\ debt' \in Nat /\ NoCashWhileInDebt'
        /\ cash' - debt' = cash - debt - budgetUsed
    BY <2>1, SpendEffect DEF TypeOK
  <2>3. TypeOK' /\ CashReconciles'
    BY <2>1, <2>2 DEF TypeOK, Phases, Stats, CashReconciles
  <2>4. BudgetsCapped' /\ BudgetsStartUnused'
    BY UnusedBudget DEF TypeOK, Targets, BudgetsCapped, BudgetsStartUnused
  <2>5. CommitmentsSettledOnTime' /\ TargetsNotRetroactive' /\ EffectiveNext'
    BY <2>1 DEF CommitmentsSettledOnTime, AfterCollect, AfterPay,
                TargetsNotRetroactive, EffectiveNext
  <2> QED
    BY <2>2, <2>3, <2>4, <2>5
<1>3. CASE budgetUsed > 0 /\ PayableDelay > 0
  <2>1. /\ payables' = Commit("payable", payables, budgetUsed, PayableDelay)
        /\ UNCHANGED <<cash, debt, receivables, stats>>
    BY <1>3 DEF SchedulePayable
  <2>2. /\ payables' \in SUBSET Commitments /\ IsFiniteSet(payables')
        /\ payables \subseteq payables'
        /\ \A c \in payables' : c \in payables \/ c.due = round + PayableDelay
    BY <2>1, CommitEffect DEF TypeOK, Kinds
  <2>3. TypeOK' /\ NoCashWhileInDebt' /\ CashReconciles'
    BY <2>1, <2>2 DEF TypeOK, Phases, NoCashWhileInDebt, CashReconciles
  <2>4. BudgetsCapped' /\ BudgetsStartUnused'
    BY UnusedBudget DEF TypeOK, Targets, BudgetsCapped, BudgetsStartUnused
  <2>5. CommitmentsSettledOnTime' /\ TargetsNotRetroactive' /\ EffectiveNext'
    BY <1>3, <2>1, <2>2 DEF TypeOK, CommitmentsSettledOnTime, AfterCollect, AfterPay,
                            TargetsNotRetroactive, EffectiveNext
  <2> QED
    BY <2>3, <2>4, <2>5
<1> QED
  BY <1>1, <1>2, <1>3 DEF TypeOK

(* One capacity allocation (resolveProduction).                            *)
LEMMA AdvanceWorkStep ==
  ASSUME IInv, NEW work \in WorkLines, AdvanceWork(work)
  PROVE  IInv'
<1>0. work.limit \in Nat /\ work.labor \in Nat
      /\ ProductionCost \in Nat /\ OvertimeCost \in Nat
  BY LineAssumption, MoneyAssumption
<1>1. PICK advance \in LegalAdvances(work) :
        /\ budgetUsed' = budgetUsed + AdvanceCost(work, advance)
        /\ stats' = [stats EXCEPT
             !.productionSpend = @ + advance * ProductionCost,
             !.overtime = @ + OvertimeUnits(work, advance) * OvertimeCost]
  BY DEF AdvanceWork
<1>2. /\ phase = "production" /\ lines' = lines + 1
      /\ UNCHANGED <<round, phase, cash, debt, ceiling, targets, effective,
                     receivables, payables>>
  BY DEF AdvanceWork, TakeLine, plantVars, targetVars, commitmentVars
<1> DEFINE spent == advance * ProductionCost
           extra == OvertimeUnits(work, advance) * OvertimeCost
           charged == AdvanceCost(work, advance)
<1>3. advance \in Nat
  BY <1>0 DEF LegalAdvances
<1>4. spent \in Nat /\ extra \in Nat /\ charged = spent + extra
  BY <1>0, <1>3 DEF OvertimeUnits, Floor0, AdvanceCost
<1>5. charged = 0 \/ WithinBudget(budgetUsed + charged, targets.production)
  <2>1. CASE advance = 0
    BY <2>1, <1>0 DEF AdvanceCost, OvertimeUnits, Floor0
  <2>2. CASE advance > 0
    BY <2>2 DEF LegalAdvances
  <2> QED
    BY <1>3, <2>1, <2>2
<1>6. /\ budgetUsed' = budgetUsed + charged
      /\ stats' = [stats EXCEPT !.productionSpend = @ + spent, !.overtime = @ + extra]
  BY <1>1
<1> HIDE DEF spent, extra, charged
<1> USE <1>2, <1>6 DEF IInv
<1>7. TypeOK'
  <2>1. stats' \in Stats
    BY <1>4, ReportTwice DEF TypeOK
  <2> QED
    BY <2>1, <1>4 DEF TypeOK
<1>8. NoCashWhileInDebt' /\ CashReconciles'
  BY DEF TypeOK, Stats, NoCashWhileInDebt, CashReconciles
<1>9. BudgetsCapped' /\ BudgetsStartUnused'
  BY <1>4, <1>5 DEF BudgetsCapped, BudgetsStartUnused, TypeOK
<1>10. CommitmentsSettledOnTime' /\ TargetsNotRetroactive' /\ EffectiveNext'
  BY DEF CommitmentsSettledOnTime, TargetsNotRetroactive, EffectiveNext
<1> QED
  BY <1>7, <1>8, <1>9, <1>10

(* Cash for the round's production (resolveProduction).                    *)
LEMMA EndProductionStep ==
  ASSUME IInv, EndProduction
  PROVE  IInv'
<1> USE DEF IInv, targetVars, commitmentVars, Enter, EndProduction
<1>1. stats.productionSpend \in Nat
  BY DEF TypeOK, Stats
<1>2. /\ cash' \in Nat /\ debt' \in Nat /\ NoCashWhileInDebt'
      /\ cash' - debt' = cash - debt - stats.productionSpend
  BY <1>1, SpendEffect DEF TypeOK
<1>3. TypeOK' /\ CashReconciles'
  BY <1>1, <1>2 DEF TypeOK, Phases, Stats, CashReconciles
<1>4. BudgetsCapped' /\ BudgetsStartUnused'
  BY DEF BudgetsCapped, BudgetsStartUnused
<1>5. CommitmentsSettledOnTime' /\ TargetsNotRetroactive' /\ EffectiveNext'
  BY DEF CommitmentsSettledOnTime, AfterCollect, AfterPay, TargetsNotRetroactive,
         EffectiveNext
<1> QED
  BY <1>2, <1>3, <1>4, <1>5

(* One shipment: revenue at once or as a receivable (scheduleReceivable).  *)
LEMMA ShipStep ==
  ASSUME IInv, NEW shipment \in Shipments, Ship(shipment)
  PROVE  IInv'
<1> USE LineAssumption DEF IInv, plantVars, targetVars, TakeLine
<1>0. shipment.revenue \in Nat /\ shipment.delay \in Nat
  OBVIOUS
<1>1. BudgetsCapped' /\ BudgetsStartUnused' /\ TargetsNotRetroactive' /\ EffectiveNext'
  BY DEF Ship, BudgetsCapped, BudgetsStartUnused, TargetsNotRetroactive, EffectiveNext
<1>2. CASE shipment.delay = 0
  <2>1. /\ Receive(shipment.revenue)
        /\ stats' = [stats EXCEPT !.revenue = @ + shipment.revenue,
                                  !.receipts = @ + shipment.revenue]
        /\ UNCHANGED <<receivables, payables>>
    BY <1>2 DEF Ship
  <2>2. /\ cash' \in Nat /\ debt' \in Nat /\ NoCashWhileInDebt'
        /\ cash' - debt' = cash - debt + shipment.revenue
    BY <1>0, <2>1, ReceiveEffect DEF TypeOK
  <2>3. TypeOK' /\ CashReconciles'
    <3>1. stats' \in Stats
      BY <1>0, <2>1, ReportTwice DEF TypeOK
    <3>2. TypeOK'
      BY <2>1, <2>2, <3>1 DEF Ship, TypeOK
    <3>3. CashReconciles'
      BY <1>0, <2>1, <2>2 DEF TypeOK, Stats, CashReconciles
    <3> QED
      BY <3>2, <3>3
  <2>4. CommitmentsSettledOnTime'
    BY <2>1 DEF Ship, CommitmentsSettledOnTime
  <2> QED
    BY <1>1, <2>2, <2>3, <2>4
<1>3. CASE shipment.delay > 0
  <2>1. /\ receivables' = Commit("receivable", receivables, shipment.revenue,
                                 shipment.delay)
        /\ stats' = [stats EXCEPT !.revenue = @ + shipment.revenue]
        /\ UNCHANGED <<cash, debt, payables>>
    BY <1>3 DEF Ship
  <2>2. /\ receivables' \in SUBSET Commitments /\ IsFiniteSet(receivables')
        /\ receivables \subseteq receivables'
        /\ \A c \in receivables' : c \in receivables \/ c.due = round + shipment.delay
    BY <1>0, <2>1, CommitEffect DEF TypeOK, Kinds
  <2>3. TypeOK' /\ NoCashWhileInDebt' /\ CashReconciles'
    BY <1>0, <2>1, <2>2 DEF Ship, TypeOK, Stats, NoCashWhileInDebt, CashReconciles
  <2>4. CommitmentsSettledOnTime'
    BY <1>0, <1>3, <2>1, <2>2 DEF Ship, TypeOK, CommitmentsSettledOnTime, AfterCollect,
                                  MaturingIn
  <2> QED
    BY <1>1, <2>3, <2>4
<1> QED
  BY <1>0, <1>2, <1>3

(* One receivable that falls due (collectReceivablesDue).                  *)
LEMMA CollectStep ==
  ASSUME IInv, NEW c \in receivables, CollectReceivable(c)
  PROVE  IInv'
<1> USE DEF IInv, targetVars, CollectReceivable
<1>1. c.amount \in Nat
  BY DEF TypeOK, Commitments
<1>2. /\ cash' \in Nat /\ debt' \in Nat /\ NoCashWhileInDebt'
      /\ cash' - debt' = cash - debt + c.amount
  BY <1>1, ReceiveEffect DEF TypeOK
<1>3. IsFiniteSet(receivables')
  BY FS_RemoveElement DEF TypeOK
<1>4. TypeOK' /\ CashReconciles'
  BY <1>1, <1>2, <1>3 DEF TypeOK, Stats, CashReconciles
<1>5. BudgetsCapped' /\ BudgetsStartUnused' /\ TargetsNotRetroactive' /\ EffectiveNext'
  BY DEF BudgetsCapped, BudgetsStartUnused, TargetsNotRetroactive, EffectiveNext
<1>6. c.due = round
  BY DEF TypeOK, Commitments, CommitmentsSettledOnTime, AfterCollect, DueNow
<1>7. CommitmentsSettledOnTime'
  BY <1>6 DEF TypeOK, Stats, CommitmentsSettledOnTime, MaturingIn
<1> QED
  BY <1>2, <1>4, <1>5, <1>7

(* One payable or payroll commitment that falls due (payPayablesDue).      *)
LEMMA PayStep ==
  ASSUME IInv, NEW c \in payables, PayPayable(c)
  PROVE  IInv'
<1> USE DEF IInv, targetVars, PayPayable
<1>1. c.amount \in Nat
  BY DEF TypeOK, Commitments
<1>2. /\ cash' \in Nat /\ debt' \in Nat /\ NoCashWhileInDebt'
      /\ cash' - debt' = cash - debt - c.amount
  BY <1>1, SpendEffect DEF TypeOK
<1>3. IsFiniteSet(payables')
  BY FS_RemoveElement DEF TypeOK
<1>4. TypeOK' /\ CashReconciles'
  BY <1>1, <1>2, <1>3 DEF TypeOK, Stats, CashReconciles
<1>5. BudgetsCapped' /\ BudgetsStartUnused' /\ TargetsNotRetroactive' /\ EffectiveNext'
  BY DEF BudgetsCapped, BudgetsStartUnused, TargetsNotRetroactive, EffectiveNext
<1>6. c.due = round
  BY DEF TypeOK, Commitments, CommitmentsSettledOnTime, AfterPay, DueNow
<1>7. CommitmentsSettledOnTime'
  BY <1>6 DEF TypeOK, Stats, CommitmentsSettledOnTime, MaturingIn
<1> QED
  BY <1>2, <1>4, <1>5, <1>7

(* Payroll, base labour and overtime (applyLaborCosts, schedulePayroll).   *)
LEMMA LaborStep ==
  ASSUME IInv, ApplyLaborCosts
  PROVE  IInv'
<1> DEFINE total == BaseLaborCost + stats.overtime
<1>1. total \in Nat /\ PayrollDelay \in Nat
  BY MoneyAssumption, RoundAssumption DEF IInv, TypeOK, Stats
<1>2. /\ phase = "labor" /\ phase' = "operating" /\ lines' = 0
      /\ UNCHANGED <<round, ceiling, targets, effective, receivables, budgetUsed>>
  BY DEF ApplyLaborCosts, Enter, targetVars
<1>3. \/ /\ total > 0 /\ PayrollDelay > 0
         /\ payables' = Commit("payroll", payables, total, PayrollDelay)
         /\ stats' = [stats EXCEPT !.payroll = total]
         /\ UNCHANGED <<cash, debt>>
      \/ /\ Spend(total)
         /\ stats' = [stats EXCEPT !.payroll = total, !.disbursements = @ + total]
         /\ UNCHANGED payables
  BY DEF ApplyLaborCosts, plantVars
<1> HIDE DEF total
<1> USE <1>2 DEF IInv
<1>4. BudgetsCapped' /\ BudgetsStartUnused' /\ TargetsNotRetroactive' /\ EffectiveNext'
  BY DEF BudgetsCapped, BudgetsStartUnused, TargetsNotRetroactive, EffectiveNext
<1>5. CASE /\ total > 0 /\ PayrollDelay > 0
           /\ payables' = Commit("payroll", payables, total, PayrollDelay)
           /\ stats' = [stats EXCEPT !.payroll = total]
           /\ UNCHANGED <<cash, debt>>
  <2>1. /\ payables' \in SUBSET Commitments /\ IsFiniteSet(payables')
        /\ payables \subseteq payables'
        /\ \A c \in payables' : c \in payables \/ c.due = round + PayrollDelay
    BY <1>1, <1>5, CommitEffect DEF TypeOK, Kinds
  <2>2. TypeOK' /\ NoCashWhileInDebt' /\ CashReconciles'
    BY <1>1, <1>5, <2>1 DEF TypeOK, Phases, Stats, NoCashWhileInDebt, CashReconciles
  <2>3. CommitmentsSettledOnTime'
    BY <1>1, <1>5, <2>1 DEF TypeOK, CommitmentsSettledOnTime, AfterCollect, AfterPay,
                            MaturingIn
  <2> QED
    BY <1>4, <2>2, <2>3
<1>6. CASE /\ Spend(total)
           /\ stats' = [stats EXCEPT !.payroll = total, !.disbursements = @ + total]
           /\ UNCHANGED payables
  <2>1. /\ cash' \in Nat /\ debt' \in Nat /\ NoCashWhileInDebt'
        /\ cash' - debt' = cash - debt - total
    BY <1>1, <1>6, SpendEffect DEF TypeOK
  <2>2. TypeOK' /\ CashReconciles'
    <3>1. stats' \in Stats
      BY <1>1, <1>6, ReportTwice DEF TypeOK
    <3>2. TypeOK'
      BY <1>6, <2>1, <3>1 DEF TypeOK, Phases
    <3>3. CashReconciles'
      BY <1>1, <1>6, <2>1 DEF TypeOK, Stats, CashReconciles
    <3> QED
      BY <3>2, <3>3
  <2>3. CommitmentsSettledOnTime'
    BY <1>6 DEF CommitmentsSettledOnTime, AfterCollect, AfterPay
  <2> QED
    BY <1>4, <2>1, <2>2, <2>3
<1> QED
  BY <1>3, <1>5, <1>6

(* Carrying costs of inventory and debt (applyRoundOperatingCosts).        *)
LEMMA OperatingStep ==
  ASSUME IInv, NEW holding \in HoldingCosts, ApplyRoundOperatingCosts(holding)
  PROVE  IInv'
<1> DEFINE total == holding + CarryingCost(debt)
<1>1. total \in Nat
  BY MoneyAssumption DEF IInv, TypeOK, CarryingCost
<1>2. /\ phase = "operating" /\ phase' = "closed"
      /\ UNCHANGED <<round, lines, ceiling, targets, effective, receivables, payables,
                     budgetUsed>>
      /\ Spend(total)
      /\ stats' = [stats EXCEPT !.carrying = total, !.disbursements = @ + total]
  BY DEF ApplyRoundOperatingCosts, targetVars, commitmentVars
<1> HIDE DEF total
<1> USE <1>2 DEF IInv
<1>3. /\ cash' \in Nat /\ debt' \in Nat /\ NoCashWhileInDebt'
      /\ cash' - debt' = cash - debt - total
  BY <1>1, SpendEffect DEF TypeOK
<1>4. TypeOK' /\ CashReconciles'
  <2>1. stats' \in Stats
    BY <1>1, ReportTwice DEF TypeOK
  <2>2. TypeOK'
    BY <1>3, <2>1 DEF TypeOK, Phases
  <2>3. CashReconciles'
    BY <1>1, <1>3 DEF TypeOK, Stats, CashReconciles
  <2> QED
    BY <2>2, <2>3
<1>5. BudgetsCapped' /\ BudgetsStartUnused' /\ TargetsNotRetroactive' /\ EffectiveNext'
  BY DEF BudgetsCapped, BudgetsStartUnused, TargetsNotRetroactive, EffectiveNext
<1>6. CommitmentsSettledOnTime'
  BY DEF CommitmentsSettledOnTime, AfterCollect, AfterPay
<1> QED
  BY <1>3, <1>4, <1>5, <1>6

(* The next round opens: what fell due is settled, so nothing is overdue,  *)
(* and the report starts from the balances reached (ResolveRound).         *)
LEMMA NextRoundStep ==
  ASSUME IInv, NextRound
  PROVE  IInv'
<1> USE DEF IInv, NextRound, plantVars, targetVars, commitmentVars
<1>1. TypeOK' /\ CashReconciles'
  BY DEF TypeOK, Phases, Stats, FreshStats, CashReconciles
<1>2. NoCashWhileInDebt'
  BY DEF NoCashWhileInDebt
<1>3. BudgetsCapped' /\ BudgetsStartUnused'
  BY UnusedBudget DEF BudgetsCapped, BudgetsStartUnused, TypeOK, Targets
<1>4. CommitmentsSettledOnTime'
  BY DEF TypeOK, Commitments, CommitmentsSettledOnTime, AfterCollect, AfterPay, FreshStats
<1>5. TargetsNotRetroactive' /\ EffectiveNext'
  BY DEF TypeOK, TargetsNotRetroactive, EffectiveNext
<1> QED
  BY <1>1, <1>2, <1>3, <1>4, <1>5

(* Every step of the round preserves the invariant.                        *)
LEMMA StepIInv == IInv /\ [Next]_vars => IInv'
<1> SUFFICES ASSUME IInv, [Next]_vars PROVE IInv'
  OBVIOUS
<1>1. ASSUME NEW line \in OrderLines, PlaceOrder(line) PROVE IInv'
  BY <1>1, PlaceOrderStep
<1>2. ASSUME NEW work \in WorkLines, AdvanceWork(work) PROVE IInv'
  BY <1>2, AdvanceWorkStep
<1>3. ASSUME NEW shipment \in Shipments, Ship(shipment) PROVE IInv'
  BY <1>3, ShipStep
<1>4. ASSUME NEW c \in receivables, CollectReceivable(c) PROVE IInv'
  BY <1>4, CollectStep
<1>5. ASSUME NEW c \in payables, PayPayable(c) PROVE IInv'
  BY <1>5, PayStep
<1>6. ASSUME NEW holding \in HoldingCosts, ApplyRoundOperatingCosts(holding) PROVE IInv'
  BY <1>6, OperatingStep
<1>7. CASE \/ EndSales \/ KeepTargets \/ \E choice \in TargetChoices : SetTargets(choice)
           \/ ReceivablesCollected \/ PayablesPaid
  BY <1>7, PhaseStep
<1>8. CASE EndProcurement \/ EndProduction \/ ApplyLaborCosts \/ NextRound
  BY <1>8, EndProcurementStep, EndProductionStep, LaborStep, NextRoundStep
<1>9. CASE Horizon \/ UNCHANGED vars
  <2>1. UNCHANGED vars
    BY <1>9 DEF Horizon
  <2>2. TypeOK' /\ NoCashWhileInDebt' /\ CashReconciles'
    BY <2>1 DEF IInv, vars, TypeOK, NoCashWhileInDebt, CashReconciles
  <2>3. BudgetsCapped' /\ BudgetsStartUnused' /\ CommitmentsSettledOnTime'
    BY <2>1 DEF IInv, vars, BudgetsCapped, BudgetsStartUnused, CommitmentsSettledOnTime
  <2>4. TargetsNotRetroactive' /\ EffectiveNext'
    BY <2>1 DEF IInv, vars, TargetsNotRetroactive, EffectiveNext
  <2> QED
    BY <2>2, <2>3, <2>4 DEF IInv
<1> QED
  BY <1>1, <1>2, <1>3, <1>4, <1>5, <1>6, <1>7, <1>8, <1>9 DEF Next

(* The invariant holds in every state of every match.                      *)
LEMMA AlwaysIInv == Spec => []IInv
  BY InitIInv, StepIInv, PTL DEF Spec

(* Cash, debt and every commitment stay natural numbers: no sequence of    *)
(* spends and receipts of the resolver drives a balance below zero.        *)
THEOREM Types == Spec => []TypeOK
<1>1. IInv => TypeOK
  BY DEF IInv
<1> QED
  BY <1>1, AlwaysIInv, PTL

(* Cash and debt are never held together, in whatever order applyCashDelta *)
(* is called by sales, commitments, labour and carrying costs.             *)
THEOREM NeverCashWhileInDebt == Spec => []NoCashWhileInDebt
<1>1. IInv => NoCashWhileInDebt
  BY DEF IInv
<1> QED
  BY <1>1, AlwaysIInv, PTL

(* The receipts and disbursements reported for a round account for every   *)
(* change of cash and debt, at each step of the round.                     *)
THEOREM CashAlwaysReconciles == Spec => []CashReconciles
<1>1. IInv => CashReconciles
  BY DEF IInv
<1> QED
  BY <1>1, AlwaysIInv, PTL

(* Orders and production together stay within 110% of their budgets.       *)
THEOREM BudgetsAlwaysCapped == Spec => []BudgetsCapped
<1>1. IInv => BudgetsCapped
  BY DEF IInv
<1> QED
  BY <1>1, AlwaysIInv, PTL

(* Every receivable and payable is settled in the round it falls due.      *)
THEOREM CommitmentsAlwaysSettledOnTime == Spec => []CommitmentsSettledOnTime
<1>1. IInv => CommitmentsSettledOnTime
  BY DEF IInv
<1> QED
  BY <1>1, AlwaysIInv, PTL

(* Finance targets never change the limits of the round they are given in. *)
THEOREM TargetsNeverRetroactive == Spec => []TargetsNotRetroactive
<1>1. IInv => TargetsNotRetroactive
  BY DEF IInv
<1> QED
  BY <1>1, AlwaysIInv, PTL

-----------------------------------------------------------------------------
(* The reported profit.  It is stated for the end of a round only, and is  *)
(* proved from an equation that holds at every step of it.                 *)

(* A commitment that is made is not already in its pool: those of the pool *)
(* are of an earlier round, of an earlier phase or, of the shipments of    *)
(* the round, numbered lower.  Otherwise two would count as one.           *)
FreshlyCommitted ==
  /\ \A c \in receivables :
       \/ c.created < round
       \/ /\ c.created = round /\ phase \notin {"procurement", "production"}
          /\ phase = "sales" => c.n <= Cardinality(receivables)
  /\ \A c \in payables :
       \/ c.created < round
       \/ /\ c.created = round
          /\ c.kind = "payable" => phase # "procurement"
          /\ c.kind = "payroll" => phase \in {"operating", "closed"}

(* Each expense is booked once: orders and production at the end of their  *)
(* phase, payroll and carrying costs when they are applied.                *)
BookedOnce ==
  /\ phase = "procurement" => budgetUsed = stats.procurementSpend
  /\ phase \notin {"operating", "closed"} => stats.payroll = 0
  /\ phase # "closed" => stats.carrying = 0
  /\ IsFiniteSet(stats.expected) /\ IsFiniteSet(stats.owed)

Booked ==
  (IF phase = "procurement" THEN 0 ELSE stats.procurementSpend)
    + (IF phase \in {"procurement", "production"} THEN 0 ELSE stats.productionSpend)
    + stats.payroll + stats.carrying

Worth == NetWorth(cash - debt, receivables, payables)
OpeningWorth == NetWorth(stats.position, stats.expected, stats.owed)

(* The net worth has changed by what was earned less what is booked.       *)
BooksBalance == Worth - OpeningWorth = stats.revenue - Booked

Books == FreshlyCommitted /\ BookedOnce /\ BooksBalance

(* The total of a finite pool is a natural number.                         *)
LEMMA TotalType ==
  ASSUME NEW pool \in SUBSET Commitments, IsFiniteSet(pool)
  PROVE  Total(pool) \in Nat
<1> DEFINE w == [c \in pool |-> c.amount]
<1>1. w \in [pool -> Nat]
  BY DEF Commitments
<1>2. Total(pool) = SumFunction(w)
  BY DEF Total
<1> HIDE DEF w
<1> QED
  BY <1>1, <1>2, SumType

(* Taking a commitment out of a pool lowers the total by its amount.       *)
LEMMA TotalWithout ==
  ASSUME NEW pool \in SUBSET Commitments, IsFiniteSet(pool), NEW c \in pool
  PROVE  Total(pool) = c.amount + Total(pool \ {c})
<1> DEFINE w == [x \in pool |-> x.amount]
           v == [x \in pool \ {c} |-> x.amount]
<1>1. /\ w \in [pool -> Int] /\ v \in [pool \ {c} -> Int] /\ w[c] = c.amount
      /\ \A y \in pool \ {c} : v[y] = w[y]
  BY DEF Commitments
<1>2. Total(pool) = SumFunction(w) /\ Total(pool \ {c}) = SumFunction(v)
  BY DEF Total
<1> HIDE DEF w, v
<1>3. SumFunction(w) = w[c] + SumFunction(v)
  BY <1>1, SumSplit
<1> QED
  BY <1>1, <1>2, <1>3

(* Making a commitment that is not in the pool raises it by the amount.    *)
LEMMA TotalCommitted ==
  ASSUME NEW pool \in SUBSET Commitments, IsFiniteSet(pool), round \in Nat,
         NEW kind \in Kinds, NEW amount \in Nat, NEW delay \in Nat,
         \A c \in pool : \/ c.created # round \/ c.kind # kind
                         \/ c.n # Cardinality(pool) + 1
  PROVE  Total(Commit(kind, pool, amount, delay)) = Total(pool) + amount
<1> DEFINE new == [kind |-> kind, n |-> Cardinality(pool) + 1, created |-> round,
                   due |-> round + delay, amount |-> amount]
           more == Commit(kind, pool, amount, delay)
<1>1. more = pool \cup {new} /\ new \notin pool /\ new.amount = amount
  BY DEF Commit
<1>2. more \in SUBSET Commitments /\ IsFiniteSet(more)
  BY CommitEffect
<1> HIDE DEF new, more
<1>3. more \ {new} = pool /\ new \in more
  BY <1>1
<1>4. Total(more) = amount + Total(pool)
  BY <1>1, <1>2, <1>3, TotalWithout
<1>5. Total(pool) \in Nat
  BY TotalType
<1> QED
  BY <1>4, <1>5 DEF more

(* The terms of the books are integers.                                    *)
LEMMA BookTerms ==
  ASSUME IInv, BookedOnce
  PROVE  /\ Total(receivables) \in Nat /\ Total(payables) \in Nat
         /\ Total(stats.expected) \in Nat /\ Total(stats.owed) \in Nat
         /\ cash \in Nat /\ debt \in Nat /\ stats.position \in Int
         /\ stats.procurementSpend \in Nat /\ stats.productionSpend \in Nat
         /\ stats.payroll \in Nat /\ stats.carrying \in Nat /\ stats.revenue \in Nat
         /\ stats.overtime \in Nat /\ budgetUsed \in Nat
         /\ Worth = cash - debt + Total(receivables) - Total(payables)
         /\ OpeningWorth = stats.position + Total(stats.expected) - Total(stats.owed)
         /\ Worth \in Int /\ OpeningWorth \in Int /\ Booked \in Nat
<1>1. stats \in Stats /\ cash \in Nat /\ debt \in Nat /\ budgetUsed \in Nat
  BY DEF IInv, TypeOK
<1>2. /\ stats.position \in Int /\ stats.procurementSpend \in Nat
      /\ stats.productionSpend \in Nat /\ stats.payroll \in Nat /\ stats.carrying \in Nat
      /\ stats.revenue \in Nat /\ stats.overtime \in Nat
      /\ stats.expected \in SUBSET Commitments /\ stats.owed \in SUBSET Commitments
  BY <1>1 DEF Stats
<1>3. /\ Total(receivables) \in Nat /\ Total(payables) \in Nat
      /\ Total(stats.expected) \in Nat /\ Total(stats.owed) \in Nat
  BY <1>2, TotalType DEF IInv, TypeOK, BookedOnce
<1>4. /\ Worth = cash - debt + Total(receivables) - Total(payables)
      /\ OpeningWorth = stats.position + Total(stats.expected) - Total(stats.owed)
  BY DEF Worth, OpeningWorth, NetWorth
<1>5. Worth \in Int /\ OpeningWorth \in Int
  BY <1>1, <1>2, <1>3, <1>4
<1>6. Booked \in Nat
  BY <1>2 DEF Booked
<1> QED
  BY <1>1, <1>2, <1>3, <1>4, <1>5, <1>6

(* What a report opened with is not changed in the course of the round.    *)
Opened(new) ==
  new.position = stats.position /\ new.expected = stats.expected /\ new.owed = stats.owed

(* so the worth the round opened with stays what it was.                   *)
LEMMA OpeningKept == ASSUME Opened(stats') PROVE OpeningWorth' = OpeningWorth
BY DEF Opened, OpeningWorth, NetWorth, Total

(* A step that changes the worth of the plant by d and the profit booked   *)
(* by as much keeps the books balanced.                                    *)
LEMMA Balanced ==
  ASSUME IInv, IInv', BookedOnce, BookedOnce', BooksBalance, Opened(stats'), NEW d \in Int,
         Worth' = Worth + d,
         stats'.revenue - Booked' = stats.revenue - Booked + d
  PROVE  BooksBalance'
<1>1. OpeningWorth' = OpeningWorth
  BY OpeningKept
<1>2. Worth \in Int /\ OpeningWorth \in Int /\ Booked \in Nat /\ stats.revenue \in Nat
  BY BookTerms
<1>3. Worth - OpeningWorth = stats.revenue - Booked
  BY DEF BooksBalance
<1>4. Worth' - OpeningWorth' = stats'.revenue - Booked'
  BY <1>1, <1>2, <1>3
<1> QED
  BY <1>4 DEF BooksBalance

(* When the pools and the round stay as they are and the phase does not    *)
(* turn back, the commitments of the round stay told apart.                *)
LEMMA FreshKept ==
  ASSUME FreshlyCommitted, UNCHANGED <<round, receivables, payables>>,
         phase' = phase \/ (phase' \notin {"procurement", "production", "sales"}
                            /\ (phase \in {"operating", "closed"} => phase' = "closed"))
  PROVE  FreshlyCommitted'
BY DEF FreshlyCommitted

(* A pool from which a commitment is taken stays told apart.               *)
LEMMA FreshWithout ==
  ASSUME FreshlyCommitted, UNCHANGED <<round, phase>>, phase # "sales",
         receivables' \subseteq receivables, payables' \subseteq payables
  PROVE  FreshlyCommitted'
BY DEF FreshlyCommitted

(* The steps that only account for a line of a budget.                     *)
LEMMA AccountingBooks ==
  ASSUME IInv, IInv', Books,
         \/ \E line \in OrderLines : PlaceOrder(line)
         \/ \E work \in WorkLines : AdvanceWork(work)
  PROVE  Books'
<1> USE DEF plantVars, targetVars, commitmentVars, TakeLine
<1>1. UNCHANGED <<round, phase, cash, debt, receivables, payables>>
  BY DEF PlaceOrder, AdvanceWork
<1>2. FreshlyCommitted'
  BY <1>1, FreshKept DEF Books
<1>3. stats \in Stats /\ stats' \in Stats /\ budgetUsed \in Nat
  BY DEF IInv, TypeOK
<1>4. /\ Opened(stats') /\ stats'.revenue = stats.revenue /\ stats'.payroll = stats.payroll
      /\ stats'.carrying = stats.carrying /\ BookedOnce' /\ Booked' = Booked
  <2>1. ASSUME NEW line \in OrderLines, PlaceOrder(line)
        PROVE  /\ Opened(stats') /\ stats'.revenue = stats.revenue
               /\ stats'.payroll = stats.payroll /\ stats'.carrying = stats.carrying
               /\ stats'.productionSpend = stats.productionSpend
               /\ phase = "procurement"
               /\ budgetUsed' - stats'.procurementSpend = budgetUsed - stats.procurementSpend
    <3>1. PICK legal \in LegalQuantities(line) :
            LET lineSpend == Accepted(line, legal) * line.unitCost
            IN  /\ budgetUsed' = budgetUsed + lineSpend
                /\ stats' = [stats EXCEPT !.procurementSpend = @ + lineSpend]
      BY <2>1 DEF PlaceOrder
    <3> DEFINE lineSpend == Accepted(line, legal) * line.unitCost
    <3>2. lineSpend \in Nat
      <4>1. line.quantity \in Nat /\ line.minimum \in Nat /\ line.unitCost \in Nat
        BY LineAssumption
      <4>2. legal \in Nat /\ Accepted(line, legal) \in {0, legal}
        BY <3>1, <4>1 DEF LegalQuantities, Wanted, Accepted
      <4> QED
        BY <4>1, <4>2
    <3>3. /\ budgetUsed' = budgetUsed + lineSpend
          /\ stats' = [stats EXCEPT !.procurementSpend = @ + lineSpend]
      BY <3>1
    <3> HIDE DEF lineSpend
    <3> QED
      BY <1>3, <2>1, <3>2, <3>3 DEF PlaceOrder, Opened, Stats
  <2>2. ASSUME NEW work \in WorkLines, AdvanceWork(work)
        PROVE  /\ Opened(stats') /\ stats'.revenue = stats.revenue
               /\ stats'.payroll = stats.payroll /\ stats'.carrying = stats.carrying
               /\ stats'.procurementSpend = stats.procurementSpend
               /\ phase = "production"
    <3>1. PICK advance \in LegalAdvances(work) :
            stats' = [stats EXCEPT
             !.productionSpend = @ + advance * ProductionCost,
             !.overtime = @ + OvertimeUnits(work, advance) * OvertimeCost]
      BY <2>2 DEF AdvanceWork
    <3> QED
      BY <1>3, <2>2, <3>1 DEF AdvanceWork, Opened, Stats
  <2>3. CASE \E line \in OrderLines : PlaceOrder(line)
    <3>1. /\ Opened(stats') /\ stats'.revenue = stats.revenue
          /\ stats'.payroll = stats.payroll /\ stats'.carrying = stats.carrying
          /\ stats'.productionSpend = stats.productionSpend
          /\ phase = "procurement"
          /\ budgetUsed' - stats'.procurementSpend = budgetUsed - stats.procurementSpend
      BY <2>1, <2>3
    <3>2. BookedOnce'
      <4>1. /\ budgetUsed' \in Nat /\ stats'.procurementSpend \in Nat
            /\ stats.procurementSpend \in Nat
        BY <1>3 DEF IInv, TypeOK, Stats
      <4>2. budgetUsed' = stats'.procurementSpend
        BY <1>3, <3>1, <4>1 DEF Books, BookedOnce
      <4> QED
        BY <1>1, <3>1, <4>2 DEF Books, BookedOnce, Opened
    <3> QED
      BY <1>1, <3>1, <3>2 DEF Booked
  <2>4. CASE \E work \in WorkLines : AdvanceWork(work)
    <3>1. /\ Opened(stats') /\ stats'.revenue = stats.revenue
          /\ stats'.payroll = stats.payroll /\ stats'.carrying = stats.carrying
          /\ stats'.procurementSpend = stats.procurementSpend
          /\ phase = "production"
      BY <2>2, <2>4
    <3> QED
      BY <1>1, <3>1 DEF Booked, Books, BookedOnce, Opened
  <2> QED
    BY <2>3, <2>4
<1>5. Worth' = Worth + 0
  <2>1. Worth' = Worth
    BY <1>1 DEF Worth, NetWorth, Total
  <2> QED
    BY <2>1, BookTerms DEF Books
<1>6. stats'.revenue - Booked' = stats.revenue - Booked + 0
  BY <1>4, BookTerms DEF Books
<1>7. BooksBalance'
  BY <1>4, <1>5, <1>6, Balanced DEF Books
<1> QED
  BY <1>2, <1>4, <1>7 DEF Books

(* The end of procurement books the orders, paid or owed.                  *)
LEMMA ProcurementBooks ==
  ASSUME IInv, IInv', Books, EndProcurement
  PROVE  Books'
<1> USE DEF plantVars, targetVars, commitmentVars, Enter
<1>1. /\ phase = "procurement" /\ phase' = "production" /\ UNCHANGED <<round, receivables>>
      /\ SchedulePayable
  BY DEF EndProcurement, SchedulePayable
<1>2. /\ stats \in Stats /\ round \in Nat /\ payables \in SUBSET Commitments
      /\ IsFiniteSet(payables) /\ NoCashWhileInDebt
  BY DEF IInv, TypeOK
<1>3. /\ cash \in Nat /\ debt \in Nat /\ budgetUsed \in Nat /\ Total(payables) \in Nat
      /\ Total(receivables) \in Nat /\ budgetUsed = stats.procurementSpend
      /\ Worth = cash - debt + Total(receivables) - Total(payables)
      /\ stats.payroll \in Nat /\ stats.carrying \in Nat /\ stats.revenue \in Nat
  BY <1>1, BookTerms DEF Books, BookedOnce
<1>4. Worth' = cash' - debt' + Total(receivables) - Total(payables')
  BY <1>1 DEF Worth, NetWorth, Total
<1>5. /\ Opened(stats') /\ stats'.revenue = stats.revenue /\ stats'.payroll = stats.payroll
      /\ stats'.carrying = stats.carrying
      /\ stats'.procurementSpend = stats.procurementSpend
  BY <1>1, <1>2 DEF SchedulePayable, Opened, Stats
<1>6. FreshlyCommitted' /\ Worth' = Worth + (0 - budgetUsed)
  <2>1. CASE budgetUsed = 0 \/ PayableDelay = 0
    <3>1. payables' = payables
      BY <1>1, <2>1 DEF SchedulePayable
    <3>2. cash' - debt' = cash - debt - budgetUsed
      BY <1>1, <1>2, <1>3, <2>1, SpendEffect DEF SchedulePayable
    <3>3. FreshlyCommitted'
      BY <1>1, <3>1 DEF Books, FreshlyCommitted
    <3>4. cash' \in Nat /\ debt' \in Nat
      BY DEF IInv, TypeOK
    <3>5. Worth' = Worth + (0 - budgetUsed)
      BY ONLY <1>3, <1>4, <3>1, <3>2, <3>4
    <3> QED
      BY <3>3, <3>5
  <2>2. CASE ~(budgetUsed = 0 \/ PayableDelay = 0)
    <3>1. /\ payables' = Commit("payable", payables, budgetUsed, PayableDelay)
          /\ UNCHANGED <<cash, debt>>
      BY <1>1, <2>2 DEF SchedulePayable
    <3>2. \A c \in payables : c.created # round \/ c.kind # "payable"
      BY <1>1, <1>2 DEF Books, FreshlyCommitted
    <3>3. "payable" \in Kinds /\ PayableDelay \in Nat
      BY RoundAssumption DEF Kinds
    <3>4. Total(payables') = Total(payables) + budgetUsed
      BY <1>2, <1>3, <3>1, <3>2, <3>3, TotalCommitted
    <3>5. FreshlyCommitted'
      <4>1. \A c \in payables' : c \in payables \/ (c.created = round /\ c.kind = "payable")
        BY <3>1 DEF Commit
      <4> QED
        BY <1>1, <4>1 DEF Books, FreshlyCommitted
    <3>6. Worth' = Worth + (0 - budgetUsed)
      BY ONLY <1>3, <1>4, <3>1, <3>4
    <3> QED
      BY <3>5, <3>6
  <2> QED
    BY <2>1, <2>2
<1>7. BookedOnce'
  BY <1>1, <1>5 DEF Books, BookedOnce, Opened
<1>8. stats'.revenue - Booked' = stats.revenue - Booked + (0 - budgetUsed)
  <2>1. Booked = stats.payroll + stats.carrying
    BY <1>1, <1>3 DEF Booked
  <2>2. Booked' = stats.procurementSpend + stats.payroll + stats.carrying
    BY <1>1, <1>3, <1>5 DEF Booked
  <2> QED
    BY ONLY <1>3, <1>5, <2>1, <2>2
<1>9. BooksBalance'
  <2>1. 0 - budgetUsed \in Int
    BY <1>3
  <2> QED
    BY <1>5, <1>6, <1>7, <1>8, <2>1, Balanced DEF Books
<1> QED
  BY <1>6, <1>7, <1>9 DEF Books

(* Money that comes or goes changes the worth of the plant by as much.     *)
LEMMA MoneyMoves ==
  ASSUME IInv, IInv', Books, UNCHANGED <<receivables, payables>>, NEW d \in Int,
         cash' - debt' = cash - debt + d
  PROVE  Worth' = Worth + d
<1>1. /\ cash \in Int /\ debt \in Int /\ Total(receivables) \in Int /\ Total(payables) \in Int
      /\ Worth = cash - debt + Total(receivables) - Total(payables)
  BY BookTerms DEF Books
<1>2. Worth' = cash' - debt' + Total(receivables) - Total(payables)
  BY DEF Worth, NetWorth, Total
<1>3. cash' \in Int /\ debt' \in Int
  BY DEF IInv, TypeOK
<1> DEFINE m == cash - debt
           k == cash' - debt'
           t == Total(receivables)
           o == Total(payables)
<1>4. m \in Int /\ t \in Int /\ o \in Int
  BY <1>1
<1>5. Worth = m + t - o
  BY <1>1
<1>6. Worth' = k + t - o
  BY <1>2
<1>7. k = m + d
  OBVIOUS
<1> HIDE DEF m, k, t, o
<1> QED
  BY ONLY <1>4, <1>5, <1>6, <1>7, d \in Int

(* The end of production books the production and pays for it.             *)
LEMMA ProductionBooks ==
  ASSUME IInv, IInv', Books, EndProduction
  PROVE  Books'
<1> DEFINE spent == stats.productionSpend
<1>1. /\ phase = "production" /\ phase' = "sales" /\ UNCHANGED <<round, receivables, payables>>
      /\ Spend(spent) /\ stats' = [stats EXCEPT !.disbursements = @ + spent]
  BY DEF EndProduction, Enter, commitmentVars
<1>2. /\ stats \in Stats /\ NoCashWhileInDebt /\ cash' \in Nat /\ debt' \in Nat
  BY DEF IInv, TypeOK
<1>3. /\ cash \in Nat /\ debt \in Nat /\ Total(payables) \in Nat
      /\ Total(receivables) \in Nat /\ spent \in Nat
      /\ Worth = cash - debt + Total(receivables) - Total(payables)
      /\ stats.payroll \in Nat /\ stats.carrying \in Nat /\ stats.revenue \in Nat
      /\ stats.procurementSpend \in Nat
  BY BookTerms DEF Books
<1>4. /\ Opened(stats') /\ stats'.revenue = stats.revenue /\ stats'.payroll = stats.payroll
      /\ stats'.carrying = stats.carrying
      /\ stats'.procurementSpend = stats.procurementSpend
      /\ stats'.productionSpend = spent
  BY <1>1, <1>2 DEF Opened, Stats
<1>5. Booked = stats.procurementSpend + stats.payroll + stats.carrying
  BY <1>1, <1>3 DEF Booked
<1>6. Booked' = stats.procurementSpend + spent + stats.payroll + stats.carrying
  BY <1>1, <1>3, <1>4 DEF Booked
<1> HIDE DEF spent
<1>7. 0 - spent \in Int /\ cash' - debt' = cash - debt + (0 - spent)
  <2>1. cash' - debt' = cash - debt - spent
    BY <1>1, <1>2, <1>3, SpendEffect
  <2> QED
    BY <1>3, <2>1
<1>9. Worth' = Worth + (0 - spent)
  BY <1>1, <1>7, MoneyMoves
<1>10. stats'.revenue - Booked' = stats.revenue - Booked + (0 - spent)
  BY ONLY <1>3, <1>4, <1>5, <1>6
<1>11. BookedOnce'
  BY <1>1, <1>4 DEF Books, BookedOnce, Opened
<1>12. BooksBalance'
  BY <1>4, <1>7, <1>9, <1>10, <1>11, Balanced DEF Books
<1>13. FreshlyCommitted'
  BY <1>1 DEF Books, FreshlyCommitted
<1> QED
  BY <1>11, <1>12, <1>13 DEF Books

(* A shipment is booked as revenue, received or receivable.                *)
LEMMA ShipBooks ==
  ASSUME IInv, IInv', Books, NEW shipment \in Shipments, Ship(shipment)
  PROVE  Books'
<1> DEFINE earned == shipment.revenue
<1>0. earned \in Nat /\ shipment.delay \in Nat
  BY LineAssumption
<1>1. /\ phase = "sales" /\ UNCHANGED <<round, phase, payables>>
  BY DEF Ship, TakeLine
<1>2. /\ stats \in Stats /\ NoCashWhileInDebt /\ cash' \in Nat /\ debt' \in Nat
      /\ receivables \in SUBSET Commitments /\ IsFiniteSet(receivables) /\ round \in Nat
  BY DEF IInv, TypeOK
<1>3. /\ cash \in Nat /\ debt \in Nat /\ Total(payables) \in Nat
      /\ Total(receivables) \in Nat
      /\ Worth = cash - debt + Total(receivables) - Total(payables)
      /\ stats.revenue \in Nat /\ Booked \in Nat
  BY BookTerms DEF Books
<1>4. /\ Opened(stats') /\ stats'.revenue = stats.revenue + earned
      /\ stats'.payroll = stats.payroll /\ stats'.carrying = stats.carrying
      /\ stats'.procurementSpend = stats.procurementSpend
      /\ stats'.productionSpend = stats.productionSpend
  <2>1. CASE shipment.delay = 0
    BY <1>2, <2>1 DEF Ship, Opened, Stats
  <2>2. CASE shipment.delay > 0
    BY <1>2, <2>2 DEF Ship, Opened, Stats
  <2> QED
    BY <1>0, <2>1, <2>2
<1>5. Booked' = Booked
  BY <1>1, <1>4 DEF Booked
<1>6. Worth' = cash' - debt' + Total(receivables') - Total(payables)
  BY <1>1 DEF Worth, NetWorth, Total
<1> HIDE DEF earned
<1>7. FreshlyCommitted' /\ Worth' = Worth + earned
  <2>1. CASE shipment.delay = 0
    <3>1. receivables' = receivables /\ Receive(earned)
      BY <2>1 DEF Ship, earned
    <3>2. cash' - debt' = cash - debt + earned
      BY <1>0, <1>2, <1>3, <3>1, ReceiveEffect
    <3>3. Worth' = Worth + earned
      <4>1. earned \in Int
        BY <1>0
      <4> QED
        BY <1>1, <3>1, <3>2, <4>1, MoneyMoves
    <3> QED
      BY <1>1, <3>1, <3>3, FreshKept DEF Books
  <2>2. CASE shipment.delay > 0
    <3>1. /\ receivables' = Commit("receivable", receivables, earned, shipment.delay)
          /\ UNCHANGED <<cash, debt>>
      BY <2>2 DEF Ship, plantVars, earned
    <3>2. Cardinality(receivables) \in Nat
      BY <1>2, FS_CardinalityType
    <3>3. \A c \in receivables : c.n \in Nat /\ c.created \in Nat
      BY <1>2 DEF Commitments
    <3>4. \A c \in receivables : c.created # round \/ c.n # Cardinality(receivables) + 1
      BY <1>1, <1>2, <3>2, <3>3 DEF Books, FreshlyCommitted
    <3>5. "receivable" \in Kinds
      BY DEF Kinds
    <3>6. Total(receivables') = Total(receivables) + earned
      BY <1>0, <1>2, <3>1, <3>4, <3>5, TotalCommitted
    <3>7. Worth' = Worth + earned
      BY ONLY <1>0, <1>2, <1>3, <1>6, <3>1, <3>6
    <3>8. FreshlyCommitted'
      <4> DEFINE new == [kind |-> "receivable", n |-> Cardinality(receivables) + 1,
                         created |-> round, due |-> round + shipment.delay, amount |-> earned]
      <4>1. receivables' = receivables \cup {new}
        BY <3>1 DEF Commit
      <4>2. new.created = round /\ new.n = Cardinality(receivables) + 1
        OBVIOUS
      <4>3. new \notin receivables
        BY <3>4
      <4> HIDE DEF new
      <4>4. Cardinality(receivables') = Cardinality(receivables) + 1
        BY <1>2, <4>1, <4>3, FS_AddElement
      <4>5. \A c \in receivables : c.n <= Cardinality(receivables) =>
                                   c.n <= Cardinality(receivables')
        BY <3>2, <3>3, <4>4
      <4>6. new.n <= Cardinality(receivables')
        BY <3>2, <4>2, <4>4
      <4> QED
        BY <1>1, <4>1, <4>2, <4>5, <4>6 DEF Books, FreshlyCommitted
    <3> QED
      BY <3>7, <3>8
  <2> QED
    BY <1>0, <2>1, <2>2
<1>8. BookedOnce'
  BY <1>1, <1>4 DEF Books, BookedOnce, Opened
<1>9. stats'.revenue - Booked' = stats.revenue - Booked + earned
  BY ONLY <1>0, <1>3, <1>4, <1>5
<1>10. BooksBalance'
  <2>1. earned \in Int
    BY <1>0
  <2> QED
    BY <1>4, <1>7, <1>8, <1>9, <2>1, Balanced DEF Books
<1> QED
  BY <1>7, <1>8, <1>10 DEF Books

(* Settling a commitment turns it into cash or debt: the worth is as       *)
(* before, and nothing is booked.                                          *)
LEMMA SettlementBooks ==
  ASSUME IInv, IInv', Books,
         \/ \E c \in receivables : CollectReceivable(c)
         \/ \E c \in payables : PayPayable(c)
  PROVE  Books'
<1>1. /\ UNCHANGED <<round, phase>> /\ phase \in {"collect", "pay"}
      /\ receivables' \subseteq receivables /\ payables' \subseteq payables
  BY DEF CollectReceivable, PayPayable
<1>2. /\ stats \in Stats /\ NoCashWhileInDebt /\ cash' \in Nat /\ debt' \in Nat
      /\ receivables \in SUBSET Commitments /\ IsFiniteSet(receivables)
      /\ payables \in SUBSET Commitments /\ IsFiniteSet(payables)
  BY DEF IInv, TypeOK
<1>3. /\ cash \in Nat /\ debt \in Nat /\ Total(payables) \in Nat
      /\ Total(receivables) \in Nat
      /\ Worth = cash - debt + Total(receivables) - Total(payables)
      /\ Worth \in Int /\ stats.revenue \in Nat /\ Booked \in Nat
  BY BookTerms DEF Books
<1>4. Worth' = cash' - debt' + Total(receivables') - Total(payables')
  BY DEF Worth, NetWorth, Total
<1>5. /\ Opened(stats') /\ stats'.revenue = stats.revenue
      /\ stats'.payroll = stats.payroll /\ stats'.carrying = stats.carrying
      /\ stats'.procurementSpend = stats.procurementSpend
      /\ stats'.productionSpend = stats.productionSpend
  BY <1>2 DEF CollectReceivable, PayPayable, Opened, Stats
<1>6. Worth' = Worth + 0
  <2>1. ASSUME NEW c \in receivables, CollectReceivable(c) PROVE Worth' = Worth + 0
    <3>1. c.amount \in Nat
      BY <1>2 DEF Commitments
    <3>2. /\ receivables' = receivables \ {c} /\ payables' = payables /\ Receive(c.amount)
      BY <2>1 DEF CollectReceivable
    <3>3. cash' - debt' = cash - debt + c.amount
      BY <1>2, <1>3, <3>1, <3>2, ReceiveEffect
    <3>4. Total(receivables) = c.amount + Total(receivables')
      BY <1>2, <3>2, TotalWithout
    <3>5. Total(receivables') \in Nat
      BY TotalType DEF IInv, TypeOK
    <3> QED
      BY ONLY <1>2, <1>3, <1>4, <3>1, <3>2, <3>3, <3>4, <3>5
  <2>2. ASSUME NEW c \in payables, PayPayable(c) PROVE Worth' = Worth + 0
    <3>1. c.amount \in Nat
      BY <1>2 DEF Commitments
    <3>2. /\ payables' = payables \ {c} /\ receivables' = receivables /\ Spend(c.amount)
      BY <2>2 DEF PayPayable
    <3>3. cash' - debt' = cash - debt - c.amount
      BY <1>2, <1>3, <3>1, <3>2, SpendEffect
    <3>4. Total(payables) = c.amount + Total(payables')
      BY <1>2, <3>2, TotalWithout
    <3>5. Total(payables') \in Nat
      BY TotalType DEF IInv, TypeOK
    <3> QED
      BY ONLY <1>2, <1>3, <1>4, <3>1, <3>2, <3>3, <3>4, <3>5
  <2> QED
    BY <2>1, <2>2
<1>7. FreshlyCommitted'
  BY <1>1, FreshWithout DEF Books
<1>8. BookedOnce'
  BY <1>1, <1>5 DEF Books, BookedOnce, Opened
<1>9. stats'.revenue - Booked' = stats.revenue - Booked + 0
  <2>1. Booked' = Booked
    BY <1>1, <1>5 DEF Booked
  <2> QED
    BY ONLY <1>3, <1>5, <2>1
<1>10. BooksBalance'
  BY <1>5, <1>6, <1>8, <1>9, Balanced DEF Books
<1> QED
  BY <1>7, <1>8, <1>10 DEF Books

(* The steps that only end a phase book nothing and move no money.         *)
LEMMA PhaseBooks ==
  ASSUME IInv, IInv', Books,
         \/ EndSales \/ KeepTargets \/ \E choice \in TargetChoices : SetTargets(choice)
         \/ ReceivablesCollected \/ PayablesPaid
  PROVE  Books'
<1>1. /\ UNCHANGED <<round, cash, debt, receivables, payables, budgetUsed, stats>>
      /\ phase \in {"sales", "finance", "collect", "pay"}
      /\ phase' \in {"finance", "collect", "pay", "labor"}
  BY DEF EndSales, KeepTargets, SetTargets, ReceivablesCollected, PayablesPaid, Enter,
         plantVars, targetVars, commitmentVars
<1>2. FreshlyCommitted'
  BY <1>1, FreshKept DEF Books
<1>3. BookedOnce' /\ Opened(stats')
  BY <1>1 DEF Books, BookedOnce, Opened
<1>4. Booked' = Booked
  BY <1>1 DEF Booked
<1>5. Worth' = Worth
  BY <1>1 DEF Worth, NetWorth, Total
<1>6. OpeningWorth' = OpeningWorth
  BY <1>3, OpeningKept
<1>7. BooksBalance'
  BY <1>1, <1>4, <1>5, <1>6 DEF Books, BooksBalance
<1> QED
  BY <1>2, <1>3, <1>7 DEF Books

(* Taking an amount away is adding its negative.                           *)
LEMMA Spent ==
  ASSUME NEW k \in Int, NEW m \in Int, NEW n \in Int, k = m - n
  PROVE  k = m + (0 - n)
  OBVIOUS

(* Payroll is booked once, when it is paid or when it is owed.             *)
LEMMA LaborBooks ==
  ASSUME IInv, IInv', Books, ApplyLaborCosts
  PROVE  Books'
<1> DEFINE total == BaseLaborCost + stats.overtime
<1>1. /\ phase = "labor" /\ phase' = "operating" /\ UNCHANGED <<round, receivables>>
      /\ \/ /\ PayrollDelay > 0
            /\ payables' = Commit("payroll", payables, total, PayrollDelay)
            /\ stats' = [stats EXCEPT !.payroll = total]
            /\ UNCHANGED <<cash, debt>>
         \/ /\ Spend(total)
            /\ stats' = [stats EXCEPT !.payroll = total, !.disbursements = @ + total]
            /\ UNCHANGED payables
  BY DEF ApplyLaborCosts, Enter, plantVars
<1>2. /\ stats \in Stats /\ NoCashWhileInDebt /\ cash' \in Nat /\ debt' \in Nat
      /\ payables \in SUBSET Commitments /\ IsFiniteSet(payables) /\ round \in Nat
  BY DEF IInv, TypeOK
<1>3. /\ cash \in Nat /\ debt \in Nat /\ Total(payables) \in Nat
      /\ Total(receivables) \in Nat /\ total \in Nat
      /\ Worth = cash - debt + Total(receivables) - Total(payables)
      /\ stats.payroll = 0 /\ stats.carrying \in Nat /\ stats.revenue \in Nat
      /\ stats.procurementSpend \in Nat /\ stats.productionSpend \in Nat
  BY <1>1, BookTerms, MoneyAssumption DEF Books, BookedOnce
<1> HIDE DEF total
<1>4. /\ Opened(stats') /\ stats'.revenue = stats.revenue /\ stats'.payroll = total
      /\ stats'.carrying = stats.carrying
      /\ stats'.procurementSpend = stats.procurementSpend
      /\ stats'.productionSpend = stats.productionSpend
  BY <1>1, <1>2 DEF Opened, Stats
<1>5. Booked = stats.procurementSpend + stats.productionSpend + stats.payroll + stats.carrying
  BY <1>1 DEF Booked
<1>6. Booked' = stats.procurementSpend + stats.productionSpend + total + stats.carrying
  BY <1>1, <1>4 DEF Booked
<1>7. Worth' = cash' - debt' + Total(receivables) - Total(payables')
  BY <1>1 DEF Worth, NetWorth, Total
<1>8. 0 - total \in Int
  BY <1>3
<1>9. FreshlyCommitted' /\ Worth' = Worth + (0 - total)
  <2>1. CASE /\ PayrollDelay > 0
             /\ payables' = Commit("payroll", payables, total, PayrollDelay)
             /\ UNCHANGED <<cash, debt>>
    <3>1. \A c \in payables : c.created # round \/ c.kind # "payroll"
      BY <1>1, <1>2 DEF Books, FreshlyCommitted
    <3>2. "payroll" \in Kinds /\ PayrollDelay \in Nat
      BY RoundAssumption DEF Kinds
    <3>3. Total(payables') = Total(payables) + total
      BY <1>2, <1>3, <2>1, <3>1, <3>2, TotalCommitted
    <3>4. \A c \in payables' : c \in payables \/ (c.created = round /\ c.kind = "payroll")
      BY <2>1 DEF Commit
    <3>5. FreshlyCommitted'
      BY <1>1, <3>4 DEF Books, FreshlyCommitted
    <3>6. Worth' = Worth + (0 - total)
      BY ONLY <1>3, <1>7, <2>1, <3>3
    <3> QED
      BY <3>5, <3>6
  <2>2. CASE Spend(total) /\ UNCHANGED payables
    <3>1. cash' - debt' = cash - debt - total
      BY <1>2, <1>3, <2>2, SpendEffect
    <3>2. /\ cash \in Int /\ debt \in Int /\ cash' \in Int /\ debt' \in Int /\ total \in Int
          /\ cash - debt \in Int /\ cash' - debt' \in Int
      BY <1>2, <1>3
    <3>3. cash' - debt' = cash - debt + (0 - total)
      BY <3>1, <3>2, Spent
    <3>4. Worth' = Worth + (0 - total)
      BY <1>1, <1>8, <2>2, <3>3, MoneyMoves
    <3>5. FreshlyCommitted'
      BY <1>1, <2>2, FreshKept DEF Books
    <3> QED
      BY <3>4, <3>5
  <2> QED
    BY <1>1, <2>1, <2>2
<1>10. BookedOnce'
  BY <1>1, <1>3, <1>4 DEF Books, BookedOnce, Opened
<1>11. stats'.revenue - Booked' = stats.revenue - Booked + (0 - total)
  BY ONLY <1>3, <1>4, <1>5, <1>6
<1>12. BooksBalance'
  BY <1>4, <1>8, <1>9, <1>10, <1>11, Balanced DEF Books
<1> QED
  BY <1>9, <1>10, <1>12 DEF Books

(* Carrying costs are booked once, and paid at once.                       *)
LEMMA OperatingBooks ==
  ASSUME IInv, IInv', Books, NEW holding \in HoldingCosts, ApplyRoundOperatingCosts(holding)
  PROVE  Books'
<1> DEFINE total == holding + CarryingCost(debt)
<1>1. /\ phase = "operating" /\ phase' = "closed"
      /\ UNCHANGED <<round, receivables, payables>>
      /\ Spend(total)
      /\ stats' = [stats EXCEPT !.carrying = total, !.disbursements = @ + total]
  BY DEF ApplyRoundOperatingCosts, commitmentVars
<1>2. /\ stats \in Stats /\ NoCashWhileInDebt /\ cash' \in Nat /\ debt' \in Nat
      /\ total \in Nat
  BY MoneyAssumption DEF IInv, TypeOK, CarryingCost
<1>3. /\ cash \in Nat /\ debt \in Nat
      /\ stats.carrying = 0 /\ stats.payroll \in Nat /\ stats.revenue \in Nat
      /\ stats.procurementSpend \in Nat /\ stats.productionSpend \in Nat
  BY <1>1, BookTerms DEF Books, BookedOnce
<1> HIDE DEF total
<1>4. /\ Opened(stats') /\ stats'.revenue = stats.revenue /\ stats'.carrying = total
      /\ stats'.payroll = stats.payroll
      /\ stats'.procurementSpend = stats.procurementSpend
      /\ stats'.productionSpend = stats.productionSpend
  BY <1>1, <1>2 DEF Opened, Stats
<1>5. Booked = stats.procurementSpend + stats.productionSpend + stats.payroll + stats.carrying
  BY <1>1 DEF Booked
<1>6. Booked' = stats.procurementSpend + stats.productionSpend + stats.payroll + total
  BY <1>1, <1>4 DEF Booked
<1>7. 0 - total \in Int
  BY <1>2
<1>8. Worth' = Worth + (0 - total)
  <2>1. cash' - debt' = cash - debt - total
    BY <1>1, <1>2, <1>3, SpendEffect
  <2>2. /\ cash \in Int /\ debt \in Int /\ cash' \in Int /\ debt' \in Int /\ total \in Int
        /\ cash - debt \in Int /\ cash' - debt' \in Int
    BY <1>2, <1>3
  <2>3. cash' - debt' = cash - debt + (0 - total)
    BY <2>1, <2>2, Spent
  <2> QED
    BY <1>1, <1>7, <2>3, MoneyMoves
<1>9. BookedOnce'
  BY <1>1, <1>4 DEF Books, BookedOnce, Opened
<1>10. stats'.revenue - Booked' = stats.revenue - Booked + (0 - total)
  BY ONLY <1>2, <1>3, <1>4, <1>5, <1>6
<1>11. BooksBalance'
  BY <1>4, <1>7, <1>8, <1>9, <1>10, Balanced DEF Books
<1>12. FreshlyCommitted'
  BY <1>1, FreshKept DEF Books
<1> QED
  BY <1>9, <1>11, <1>12 DEF Books

(* The next round opens with the worth reached, and with nothing booked.   *)
LEMMA NextRoundBooks ==
  ASSUME IInv, IInv', Books, NextRound
  PROVE  Books'
<1>1. /\ phase' = "procurement" /\ round' = round + 1
      /\ UNCHANGED <<cash, debt, receivables, payables, budgetUsed>>
      /\ stats' = FreshStats(cash - debt, receivables, payables)
      /\ phase = "closed"
  BY DEF NextRound, plantVars, commitmentVars
<1>2. /\ round \in Nat /\ budgetUsed = 0
      /\ IsFiniteSet(receivables) /\ IsFiniteSet(payables)
      /\ receivables \in SUBSET Commitments /\ payables \in SUBSET Commitments
  BY <1>1 DEF IInv, TypeOK, BudgetsStartUnused
<1>3. FreshlyCommitted'
  <2>1. /\ \A c \in receivables : c.created \in Nat /\ c.created <= round
        /\ \A c \in payables : c.created \in Nat /\ c.created <= round
    BY <1>2 DEF Books, FreshlyCommitted, Commitments
  <2>2. /\ \A c \in receivables : c.created < round + 1
        /\ \A c \in payables : c.created < round + 1
    BY <1>2, <2>1
  <2> QED
    BY <1>1, <2>2 DEF FreshlyCommitted
<1>4. /\ stats'.procurementSpend = 0 /\ stats'.payroll = 0 /\ stats'.carrying = 0
      /\ stats'.revenue = 0 /\ stats'.position = cash - debt
      /\ stats'.expected = receivables /\ stats'.owed = payables
  BY <1>1 DEF FreshStats
<1>5. BookedOnce'
  BY <1>1, <1>2, <1>4 DEF BookedOnce
<1>6. Booked' = 0
  BY <1>1, <1>4 DEF Booked
<1>7. Worth' = Worth /\ OpeningWorth' = Worth
  BY <1>1, <1>4 DEF Worth, OpeningWorth, NetWorth, Total
<1>8. BooksBalance'
  <2>1. Worth \in Int
    BY BookTerms DEF Books
  <2> QED
    BY <1>4, <1>6, <1>7, <2>1 DEF BooksBalance
<1> QED
  BY <1>3, <1>5, <1>8 DEF Books

(* A match starts without commitments, its books balanced.                 *)
LEMMA InitBooks == Init => Books
<1> SUFFICES ASSUME Init PROVE Books
  OBVIOUS
<1>1. /\ receivables = {} /\ payables = {} /\ phase = "procurement" /\ budgetUsed = 0
      /\ cash = OpeningCash /\ debt = OpeningDebt
      /\ stats.procurementSpend = 0 /\ stats.payroll = 0 /\ stats.carrying = 0
      /\ stats.revenue = 0 /\ stats.position = OpeningCash - OpeningDebt
      /\ stats.expected = {} /\ stats.owed = {}
  BY DEF Init, FreshStats
<1>2. FreshlyCommitted /\ BookedOnce
  BY <1>1, FS_EmptySet DEF FreshlyCommitted, BookedOnce
<1>3. IInv
  BY InitIInv
<1>4. Booked = 0
  BY <1>1 DEF Booked
<1>5. Worth = OpeningWorth
  BY <1>1 DEF Worth, OpeningWorth, NetWorth
<1>6. BooksBalance
  <2>1. Worth \in Int
    BY <1>2, <1>3, BookTerms
  <2> QED
    BY <1>1, <1>4, <1>5, <2>1 DEF BooksBalance
<1> QED
  BY <1>2, <1>6 DEF Books

(* Every step of the round keeps the books balanced.                       *)
LEMMA BooksStep == IInv /\ IInv' /\ Books /\ [Next]_vars => Books'
<1> SUFFICES ASSUME IInv, IInv', Books, [Next]_vars PROVE Books'
  OBVIOUS
<1>1. CASE \/ \E line \in OrderLines : PlaceOrder(line)
           \/ \E work \in WorkLines : AdvanceWork(work)
  BY <1>1, AccountingBooks
<1>2. CASE EndProcurement \/ EndProduction \/ ApplyLaborCosts \/ NextRound
  BY <1>2, ProcurementBooks, ProductionBooks, LaborBooks, NextRoundBooks
<1>3. ASSUME NEW shipment \in Shipments, Ship(shipment) PROVE Books'
  BY <1>3, ShipBooks
<1>4. CASE \/ EndSales \/ KeepTargets \/ \E choice \in TargetChoices : SetTargets(choice)
           \/ ReceivablesCollected \/ PayablesPaid
  BY <1>4, PhaseBooks
<1>5. CASE \/ \E c \in receivables : CollectReceivable(c)
           \/ \E c \in payables : PayPayable(c)
  BY <1>5, SettlementBooks
<1>6. ASSUME NEW holding \in HoldingCosts, ApplyRoundOperatingCosts(holding) PROVE Books'
  BY <1>6, OperatingBooks
<1>7. CASE Horizon \/ UNCHANGED vars
  <2>1. UNCHANGED vars
    BY <1>7 DEF Horizon
  <2>2. FreshlyCommitted' /\ BookedOnce'
    BY <2>1 DEF vars, Books, FreshlyCommitted, BookedOnce
  <2>3. BooksBalance'
    BY <2>1 DEF vars, Books, BooksBalance, Worth, OpeningWorth, NetWorth, Total, Booked
  <2> QED
    BY <2>2, <2>3 DEF Books
<1> QED
  BY <1>1, <1>2, <1>3, <1>4, <1>5, <1>6, <1>7 DEF Next

(* The books balance in every state of every match.                        *)
LEMMA AlwaysBooks == Spec => []Books
  BY InitBooks, BooksStep, AlwaysIInv, PTL DEF Spec

(* The profit reported for a round is the change of the plant's net worth  *)
(* over it: no expense is left out or booked twice, whether it is paid at  *)
(* once or in a later round (computeMetrics of the resolver).              *)
THEOREM ProfitAlwaysNetWorthChange == Spec => []ProfitIsNetWorthChange
<1>1. ASSUME IInv, Books PROVE ProfitIsNetWorthChange
  <2> SUFFICES ASSUME phase = "closed"
               PROVE  Worth - OpeningWorth = stats.revenue - OperatingExpense
    BY DEF ProfitIsNetWorthChange, Worth, OpeningWorth
  <2>1. Booked = OperatingExpense
    BY DEF Booked, OperatingExpense
  <2> QED
    BY <1>1, <2>1 DEF Books, BooksBalance
<1> QED
  BY <1>1, AlwaysIInv, AlwaysBooks, PTL

=============================================================================
