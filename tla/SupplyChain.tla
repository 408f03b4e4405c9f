---------------------------- MODULE SupplyChain ----------------------------
(***************************************************************************)
(* Purchase orders from the order to the parts shelf, and the supplier     *)
(* records the buyers see (internal/engine/resolver.go: the lots that      *)
(* resolveProcurement creates, receiveSupply, record functions).           *)
(*                                                                         *)
(* How much of an order is affordable is the subject of CashLedger; here   *)
(* an offer is an accepted quantity.  Whether a lot slips is drawn from    *)
(* the random source, so any set of the lots that may slip can.            *)
(*                                                                         *)
(* PlantFloor extends this module: it takes what is shelved here into      *)
(* production, closes the round, and states the specification of the two.  *)
(*                                                                         *)
(* A definition marked "Mutant" is a deliberately wrong variant of the one *)
(* that follows it; no specification uses it.                              *)
(***************************************************************************)
EXTENDS Integers, FiniteSets, FiniteSetsExt

CONSTANTS
  Suppliers, Parts,
  Offers,         \* [supplier, part, quantity, lead]: what can be ordered
  OnTimePct,      \* OnTimeDeliveryPct of each supplier
  LateRounds,     \* LateDeliveryRounds of each supplier
  OpeningLots,    \* InTransitSupply of the starting state
  MaxOrders       \* bound: order lines of a round

Lots == [id : Nat \X Nat, supplier : Suppliers, part : Parts, quantity : Nat,
         promised : Nat, arrival : Nat]

ASSUME SupplierAssumption ==
  /\ OnTimePct \in [Suppliers -> 0 .. 100]
  /\ LateRounds \in [Suppliers -> Nat]

ASSUME OfferAssumption ==
  Offers \subseteq [supplier : Suppliers, part : Parts, quantity : Nat \ {0},
                    lead : Nat \ {0}]

ASSUME OpeningAssumption ==
  /\ OpeningLots \subseteq Lots /\ IsFiniteSet(OpeningLots)
  /\ \A lot \in OpeningLots : lot.arrival = lot.promised /\ lot.id[1] = 0

ASSUME OrdersAssumption == MaxOrders \in Nat

VARIABLES
  round,
  phase,      \* "order", then receiveSupply: "judge", "shelve"; then PlantFloor's
  lines,      \* lines taken so far in this phase of the round
  lots,       \* PlantState.InTransitSupply
  shelved,    \* units of each part added to the parts inventory so far
  record      \* SupplierState: the mutable fields

supplyVars == <<lots, shelved, record>>

Records == [score : 0 .. 100, late : Nat, placed : Nat, received : Nat]

LotsOf(pool, s) == {lot \in pool : lot.supplier = s}

SupplyInit ==
  /\ lots = OpeningLots
  /\ shelved = [p \in Parts |-> 0]
  /\ record = [s \in Suppliers |->
       [score |-> OnTimePct[s], late |-> 0, placed |-> 0, received |-> 0]]

-----------------------------------------------------------------------------
PromisedRound(offer) == round + offer.lead

PlaceOrder(offer) ==
  /\ phase = "order" /\ lines < MaxOrders
  /\ lines' = lines + 1
  /\ lots' = lots \union
       {[id |-> <<round, lines>>, supplier |-> offer.supplier, part |-> offer.part,
         quantity |-> offer.quantity, promised |-> PromisedRound(offer),
         arrival |-> PromisedRound(offer)]}
  /\ record' = [record EXCEPT ![offer.supplier].placed = @ + 1]
  /\ UNCHANGED <<round, phase, shelved>>

EndOrders ==
  /\ phase = "order"
  /\ phase' = "judge"
  /\ UNCHANGED <<round, lines>> /\ UNCHANGED supplyVars

(* Mutant: a lot that slipped once is judged again when it arrives.        *)
JudgedAgain(lot) ==
  /\ lot.arrival = round
  /\ LateRounds[lot.supplier] > 0 /\ OnTimePct[lot.supplier] < 100

(* the die is rolled in the promised round only (shouldDelayLot)           *)
MaySlip(lot) ==
  /\ lot.arrival = lot.promised /\ lot.promised = round
  /\ LateRounds[lot.supplier] > 0 /\ OnTimePct[lot.supplier] < 100

Slipped(lot) == [lot EXCEPT !.arrival = lot.promised + LateRounds[lot.supplier]]

(* recordSupplierDelay, once for each slipped lot of the supplier          *)
Delayed(r, slips) ==
  [r EXCEPT !.late = @ + slips, !.score = Max({0, @ - 10 * slips})]

(* the first pass of receiveSupply decides the fate of every lot           *)
JudgeLots(slipping) ==
  /\ phase = "judge"
  /\ slipping \subseteq {lot \in lots : MaySlip(lot)}
  /\ lots' = (lots \ slipping) \union {Slipped(lot) : lot \in slipping}
  /\ record' = [s \in Suppliers |->
       Delayed(record[s], Cardinality(LotsOf(slipping, s)))]
  /\ phase' = "shelve"
  /\ UNCHANGED <<round, lines, shelved>>

(* recordSupplierReceipt                                                   *)
Received(r, pct) ==
  IF r.late = 0 \/ r.score >= pct
  THEN [r EXCEPT !.received = @ + 1]
  ELSE [r EXCEPT !.received = @ + 1, !.score = Min({100, @ + 2})]

Arrivals == {lot \in lots : lot.promised <= round /\ lot.arrival <= round}

ShelveLot(lot) ==
  /\ phase = "shelve" /\ lot \in Arrivals
  /\ lots' = lots \ {lot}
  /\ shelved' = [shelved EXCEPT ![lot.part] = @ + lot.quantity]
  /\ record' = [record EXCEPT ![lot.supplier] = Received(@, OnTimePct[lot.supplier])]
  /\ UNCHANGED <<round, phase, lines>>

EndReceipt ==
  /\ phase = "shelve" /\ Arrivals = {}
  /\ phase' = "release" /\ lines' = 0
  /\ UNCHANGED round /\ UNCHANGED supplyVars

-----------------------------------------------------------------------------
(* Properties, as invariants of the specification of PlantFloor.           *)

SupplyTypeOK ==
  /\ lots \in SUBSET Lots
  /\ shelved \in [Parts -> Nat] /\ record \in [Suppliers -> Records]

(* A supplier's record agrees with the lots, over any number of rounds:    *)
(* what it was ordered is received or still in transit, and each late      *)
(* delivery it is charged with is a lot that slipped once, still in        *)
(* transit or already received.  Once receiveSupply is over, nothing that  *)
(* has arrived is left in transit.                                         *)
RecordsAgreeWithLots ==
  \A s \in Suppliers :
    LET inTransit == LotsOf(lots, s)
        opening == Cardinality(LotsOf(OpeningLots, s))
        slipped == Cardinality({lot \in inTransit : lot.arrival > lot.promised})
    IN  /\ opening + record[s].placed = record[s].received + Cardinality(inTransit)
        /\ slipped <= record[s].late
        /\ record[s].late <= slipped + record[s].received
        /\ phase \notin {"order", "judge", "shelve"} =>
             \A lot \in inTransit : lot.arrival > round

=============================================================================
