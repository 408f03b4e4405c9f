---------------------------- MODULE MCCashLedger ----------------------------
(* Values for the model checking of CashLedger.                            *)
EXTENDS CashLedger

Budget(p, q, c) == [procurement |-> p, production |-> q, debtCeiling |-> c]
Order(q, m, c) == [quantity |-> q, minimum |-> m, unitCost |-> c]

MCOpeningTargets == Budget(3, 2, 2)
MCTargetChoices == {Budget(2, 3, 0), Budget(0, 0, 3)}
MCOrderLines == {Order(1, 2, 1), Order(3, 0, 1), Order(2, 2, 2)}
MCWorkLines == {[limit |-> 2, labor |-> 1], [limit |-> 1, labor |-> 1]}
MCShipments == {[revenue |-> 2, delay |-> 0], [revenue |-> 3, delay |-> 1]}
MCHoldingCosts == {0, 1}
=============================================================================
