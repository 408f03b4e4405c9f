------------------------------ MODULE OrderBook ------------------------------
(***************************************************************************)
(* The customer side of the round resolver: finished goods, inspection     *)
(* holds, customer returns, and the backlog that is kept twice, once for   *)
(* the plant and once for each customer (internal/engine/resolver.go:      *)
(* releaseInspectionHolds, processCustomerReturns, resolveSales, the       *)
(* ageing in finalizeRound, syncCustomerBacklog), with the demand the      *)
(* scenario books between them (internal/scenario/scenario.go,             *)
(* applyDemand), and what the finished goods are valued at.                *)
(*                                                                         *)
(* A round goes through holds, returns, production, sales, demand and      *)
(* ageing; holds, returns, shipments and bookings are taken one at a time. *)
(* What production yields comes from PlantFloor; prices only decide how    *)
(* much is demanded, so demand is an input, and so is the share of a       *)
(* shipment that comes back, which the code draws at random.               *)
(*                                                                         *)
(* A definition marked "Mutant" is a deliberately wrong variant of the one *)
(* that follows it; no specification uses it.                              *)
(***************************************************************************)
EXTENDS Integers, Sequences, FiniteSets, FiniteSetsExt, SequencesExt, Subsequences

CONSTANTS
  Products,
  CustomerList,     \* MatchState.Customers, in order
  CustomerOrder, ProductOrder,  \* the place of each name in the sort order
  HoldRounds,       \* InspectionHoldRounds of the quality profile
  ReturnDelay,      \* ReturnDelayRounds of the quality profile
  Expiry,           \* backlogExpiryRounds
  OpeningStock, OpeningBacklog, OpeningSentiment,
  Yields,           \* [product, good, held, cost]: what an allocation may finish
  Demands,          \* units of a product a customer may ask for in a round
  MaxYields,        \* bound: allocations that finish units in a round
  MaxReturn,        \* bound: units of a shipment that come back
  MaxBookings,      \* bound: orders booked in a round
  MaxRound          \* bound: rounds of the match

Customers == Range(CustomerList)

Entries == [customer : Customers, product : Products, quantity : Nat,
            origin : Nat, age : Nat]
Goods == [units : Nat, cost : Nat]
Holds == [product : Products, quantity : Nat, cost : Nat, release : Nat,
          reason : {"quality", "return"}]
Returns == [customer : Customers, product : Products, quantity : Nat, cost : Nat, due : Nat]

ASSUME PartyAssumption ==
  /\ IsFiniteSet(Products)
  /\ CustomerList \in Seq(Customers) /\ IsInjective(CustomerList)
  /\ CustomerOrder \in [Customers -> Nat] /\ IsInjective(CustomerOrder)
  /\ ProductOrder \in [Products -> Nat] /\ IsInjective(ProductOrder)
  /\ HoldRounds \in Nat /\ ReturnDelay \in Nat /\ Expiry \in Nat \ {0}

ASSUME OpeningAssumption ==
  /\ OpeningStock \in [Products -> Goods]
  /\ \A p \in Products : OpeningStock[p].units = 0 => OpeningStock[p].cost = 0
  /\ OpeningBacklog \in Seq(Entries)
  /\ \A i \in DOMAIN OpeningBacklog :
       /\ OpeningBacklog[i].quantity > 0
       /\ OpeningBacklog[i].origin = 0 /\ OpeningBacklog[i].age = 0
  /\ OpeningSentiment \in [Customers -> Int]

ASSUME InputAssumption ==
  /\ Yields \subseteq [product : Products, good : Nat, held : Nat, cost : Nat]
  /\ Demands \subseteq Nat \ {0} /\ MaxReturn \in Nat /\ MaxYields \in Nat
  /\ MaxBookings \in Nat /\ MaxRound \in Nat

VARIABLES
  round,
  phase,       \* "holds", "returns", "production", "sales", "demand", "ageing", "closed"
  stock,       \* PlantState.FinishedInventory; without units, without a cost
  holds,       \* PlantState.InspectionHolds, merged by product, release, reason
  returns,     \* PlantState.PendingReturns, in the order they were scheduled
  finished,    \* allocations that have finished units this round
  backlog,     \* PlantState.Backlog
  views,       \* CustomerState.Backlog of each customer
  sentiment,   \* CustomerState.Sentiment
  queue,       \* entries resolveSales has still to serve
  kept,        \* what it leaves in the backlog of the entries already served
  asked,       \* <<customer, product>> pairs that have been booked this round
  totals       \* units yielded, demanded, shipped, returned and lost so far

marketVars == <<backlog, views, sentiment>>
goodsVars == <<stock, holds>>
vars == <<round, phase, stock, holds, returns, finished, backlog, views, sentiment,
          queue, kept, asked, totals>>

Phases == {"holds", "returns", "production", "sales", "demand", "ageing", "closed"}
Totals == [yielded : Nat, demanded : Nat, shipped : Nat, returned : Nat, lost : Nat]

-----------------------------------------------------------------------------
(* Helpers.                                                                *)

Units(seq) == SumFunction([i \in DOMAIN seq |-> seq[i].quantity])

OfCustomer(seq, c) == Subsequence(seq, {i \in DOMAIN seq : seq[i].customer = c})

(* syncCustomerBacklog: the customers' views are derived from the plant's  *)
ViewsOf(seq) == [c \in Customers |-> OfCustomer(seq, c)]

(* effectiveBacklog: the customers' own lists stand in for an empty one    *)
EffectiveBacklog ==
  IF backlog # << >> THEN backlog
  ELSE FlattenSeq([i \in DOMAIN CustomerList |-> views[CustomerList[i]]])

(* Mutant: the newest orders are served first.                             *)
NewestFirst(e, f) ==
  \/ e.origin > f.origin
  \/ e.origin = f.origin /\ CustomerOrder[e.customer] < CustomerOrder[f.customer]

(* the order of shipment: oldest first, then customer, then product        *)
Before(e, f) ==
  \/ e.origin < f.origin
  \/ e.origin = f.origin
     /\ \/ CustomerOrder[e.customer] < CustomerOrder[f.customer]
        \/ e.customer = f.customer /\ ProductOrder[e.product] < ProductOrder[f.product]

(* Mutant: the value is divided before the new units are counted.          *)
AverageOverOld(item, units, cost) ==
  IF item.units = 0 THEN cost
  ELSE (item.units * item.cost + units * cost) \div item.units

(* perUnitCost of the two values together, rounded down                    *)
Average(item, units, cost) ==
  (item.units * item.cost + units * cost) \div (item.units + units)

(* addFinishedInventory: goods without a cost take that of the others      *)
Stocked(item, units, cost) ==
  CASE units = 0 -> item
    [] units > 0 /\ item.cost = 0 -> [units |-> item.units + units, cost |-> cost]
    [] units > 0 /\ item.cost > 0 /\ cost = 0 -> [item EXCEPT !.units = @ + units]
    [] OTHER -> [units |-> item.units + units, cost |-> Average(item, units, cost)]

(* takeFinishedInventory: with its last unit an item leaves the list       *)
Taken(item, units) ==
  IF units = item.units THEN [units |-> 0, cost |-> 0] ELSE [item EXCEPT !.units = @ - units]

(* addInspectionHoldInventory: units that join a hold of their product,    *)
(* round and reason take its cost, however much they cost themselves       *)
Joins(h, new) == h.product = new.product /\ h.release = new.release /\ h.reason = new.reason
Joined(h, new) ==
  [h EXCEPT !.quantity = @ + new.quantity, !.cost = IF @ = 0 THEN new.cost ELSE @]

Hold(held, new) ==
  CASE new.quantity = 0 -> held
    [] new.quantity > 0 /\ (\E i \in DOMAIN held : Joins(held[i], new)) ->
         [i \in DOMAIN held |-> IF Joins(held[i], new) THEN Joined(held[i], new) ELSE held[i]]
    [] OTHER -> Append(held, new)

Init ==
  /\ round = 1 /\ phase = "holds"
  /\ stock = OpeningStock
  /\ holds = << >> /\ returns = << >> /\ finished = 0
  /\ backlog = OpeningBacklog
  /\ views = ViewsOf(OpeningBacklog)
  /\ sentiment = OpeningSentiment
  /\ queue = << >> /\ kept = << >> /\ asked = {}
  /\ totals = [yielded |-> 0, demanded |-> 0, shipped |-> 0, returned |-> 0, lost |-> 0]

-----------------------------------------------------------------------------
(* Holds and returns.                                                      *)

RipeHolds == {i \in DOMAIN holds : holds[i].release <= round}
RipeReturns == {i \in DOMAIN returns : returns[i].due <= round}

(* Mutant: a hold is released into stock and stays on the list of holds.   *)
ReleaseHoldKeepsIt ==
  LET h == holds[Min(RipeHolds)]
  IN  /\ phase = "holds" /\ RipeHolds # {}
      /\ stock' = [stock EXCEPT ![h.product] = Stocked(@, h.quantity, h.cost)]
      /\ UNCHANGED <<round, phase, holds, returns, finished, marketVars, queue, kept, asked, totals>>

(* releaseInspectionHolds: a hold that is ripe goes into stock             *)
ReleaseHold ==
  LET h == holds[Min(RipeHolds)]
  IN  /\ phase = "holds" /\ RipeHolds # {}
      /\ stock' = [stock EXCEPT ![h.product] = Stocked(@, h.quantity, h.cost)]
      /\ holds' = RemoveAt(holds, Min(RipeHolds))
      /\ UNCHANGED <<round, phase, returns, finished, marketVars, queue, kept, asked, totals>>

EndHolds ==
  /\ phase = "holds" /\ RipeHolds = {}
  /\ phase' = "returns"
  /\ UNCHANGED <<round, goodsVars, returns, finished, marketVars, queue, kept, asked, totals>>

(* a return that is due goes on hold and is owed to the customer again;    *)
(* customers see the new backlog with the last of them                     *)
BookReturn ==
  LET r == returns[Min(RipeReturns)]
  IN  /\ phase = "returns" /\ RipeReturns # {}
      /\ returns' = RemoveAt(returns, Min(RipeReturns))
      /\ holds' = Hold(holds, [product |-> r.product, quantity |-> r.quantity,
                               cost |-> r.cost, release |-> round + 1, reason |-> "return"])
      /\ backlog' = Append(backlog, [customer |-> r.customer, product |-> r.product,
                                     quantity |-> r.quantity, origin |-> round, age |-> 0])
      /\ sentiment' = [sentiment EXCEPT ![r.customer] = @ - 1]
      /\ totals' = [totals EXCEPT !.returned = @ + r.quantity]
      /\ views' = IF RipeReturns = {Min(RipeReturns)} THEN ViewsOf(backlog') ELSE views
      /\ UNCHANGED <<round, phase, stock, finished, queue, kept, asked>>

EndReturns ==
  /\ phase = "returns" /\ RipeReturns = {}
  /\ phase' = "production"
  /\ UNCHANGED <<round, goodsVars, returns, finished, marketVars, queue, kept, asked, totals>>

(* what completeFinishedUnits puts into stock and on hold for an allocation *)
Produce(yield) ==
  /\ phase = "production" /\ finished < MaxYields
  /\ finished' = finished + 1
  /\ stock' = [stock EXCEPT ![yield.product] = Stocked(@, yield.good, yield.cost)]
  /\ holds' = Hold(holds, [product |-> yield.product, quantity |-> yield.held,
                           cost |-> yield.cost, release |-> round + Max({HoldRounds, 1}),
                           reason |-> "quality"])
  /\ totals' = [totals EXCEPT !.yielded = @ + yield.good + yield.held]
  /\ UNCHANGED <<round, phase, returns, marketVars, queue, kept, asked>>

EndProduction ==
  /\ phase = "production"
  /\ phase' = "sales" /\ finished' = 0
  /\ queue' = EffectiveBacklog
  /\ kept' = << >>
  /\ UNCHANGED <<round, goodsVars, returns, marketVars, asked, totals>>

-----------------------------------------------------------------------------
(* Sales.                                                                  *)

(* scheduleCustomerReturns: part of a shipment may come back, at the cost  *)
(* the units had when they were shipped                                    *)
ScheduleReturn(e, back) ==
  IF back = 0 THEN returns
  ELSE Append(returns, [customer |-> e.customer, product |-> e.product, quantity |-> back,
                        cost |-> stock[e.product].cost,
                        due |-> round + Max({ReturnDelay, 1})])

(* Mutant: an order is shipped without looking at the stock.               *)
ShippableUnchecked(e) == e.quantity

Shippable(e) == Min({e.quantity, stock[e.product].units})

(* Mutant: the remainder of a partial shipment is booked as a new order.   *)
RemainderRebooked(e, shipped) == [e EXCEPT !.quantity = @ - shipped, !.age = 0]

Remainder(e, shipped) == [e EXCEPT !.quantity = @ - shipped]

(* The entries are sorted, and equal ones stay in no particular order: the *)
(* next one is any that no other comes before.                             *)
ShipEntry(i, back) ==
  LET e == queue[i]
      shipped == Shippable(e)
  IN  /\ phase = "sales" /\ \A j \in DOMAIN queue : ~Before(queue[j], e)
      /\ back <= shipped
      /\ stock' = [stock EXCEPT ![e.product] = Taken(@, shipped)]
      /\ returns' = ScheduleReturn(e, back)
      /\ totals' = [totals EXCEPT !.shipped = @ + shipped]
      /\ queue' = RemoveAt(queue, i)
      /\ kept' = IF shipped = e.quantity THEN kept
                 ELSE Append(kept, Remainder(e, shipped))
      /\ UNCHANGED <<round, phase, holds, finished, marketVars, asked>>

(* Mutant: the customers keep their view of the entries that were shipped. *)
EndSalesUnsynced ==
  /\ phase = "sales" /\ queue = << >>
  /\ backlog' = kept
  /\ kept' = << >>
  /\ phase' = "demand"
  /\ UNCHANGED <<round, goodsVars, returns, finished, views, sentiment, queue, asked, totals>>

EndSales ==
  /\ phase = "sales" /\ queue = << >>
  /\ backlog' = kept
  /\ views' = ViewsOf(kept)
  /\ kept' = << >>
  /\ phase' = "demand"
  /\ UNCHANGED <<round, goodsVars, returns, finished, sentiment, queue, asked, totals>>

-----------------------------------------------------------------------------
(* Demand, ageing.                                                         *)

(* applyDemand goes through the customers in order, and through the        *)
(* products of each in any order (it ranges over a map)                    *)
NotYetPassed(c) ==
  \A i, j \in DOMAIN CustomerList :
    CustomerList[i] = c /\ (\E p \in Products : <<CustomerList[j], p>> \in asked) => j <= i

BookDemand(c, p, units) ==
  LET entry == [customer |-> c, product |-> p, quantity |-> units,
                origin |-> round, age |-> 0]
  IN  /\ phase = "demand" /\ Cardinality(asked) < MaxBookings
      /\ <<c, p>> \notin asked /\ NotYetPassed(c)
      /\ asked' = asked \union {<<c, p>>}
      /\ backlog' = Append(backlog, entry)
      /\ views' = [views EXCEPT ![c] = Append(@, entry)]
      /\ totals' = [totals EXCEPT !.demanded = @ + units]
      /\ UNCHANGED <<round, phase, goodsVars, returns, finished, sentiment, queue, kept>>

EndDemand ==
  /\ phase = "demand"
  /\ asked' = {}
  /\ phase' = "ageing"
  /\ UNCHANGED <<round, goodsVars, returns, finished, marketVars, queue, kept, totals>>

(* the backlog, a round older *)
Aged == [i \in DOMAIN EffectiveBacklog |-> [EffectiveBacklog[i] EXCEPT !.age = @ + 1]]
Expired == {i \in DOMAIN Aged : Aged[i].age > Expiry}

(* Mutant: expired demand leaves the backlog uncounted.                    *)
AgeBacklogSilently ==
  /\ phase = "ageing"
  /\ backlog' = Subsequence(Aged, DOMAIN Aged \ Expired)
  /\ views' = ViewsOf(backlog')
  /\ phase' = "closed"
  /\ UNCHANGED <<round, goodsVars, returns, finished, sentiment, queue, kept, asked, totals>>

(* what is too old is lost, and each loss costs the customer's sentiment   *)
AgeBacklog ==
  /\ phase = "ageing"
  /\ backlog' = Subsequence(Aged, DOMAIN Aged \ Expired)
  /\ views' = ViewsOf(backlog')
  /\ sentiment' = [c \in Customers |->
                    sentiment[c] - Cardinality({i \in Expired : Aged[i].customer = c})]
  /\ totals' = [totals EXCEPT !.lost = @ + SumFunction([i \in Expired |-> Aged[i].quantity])]
  /\ phase' = "closed"
  /\ UNCHANGED <<round, goodsVars, returns, finished, queue, kept, asked>>

NextRound ==
  /\ phase = "closed" /\ round < MaxRound
  /\ round' = round + 1 /\ phase' = "holds"
  /\ UNCHANGED <<goodsVars, returns, finished, marketVars, queue, kept, asked, totals>>

(* the horizon of the model: the last round has been resolved              *)
Horizon == phase = "closed" /\ round = MaxRound /\ UNCHANGED vars

Next ==
  \/ ReleaseHold
  \/ EndHolds
  \/ BookReturn
  \/ EndReturns
  \/ \E yield \in Yields : Produce(yield)
  \/ EndProduction
  \/ \E i \in DOMAIN queue, back \in 0 .. MaxReturn : ShipEntry(i, back)
  \/ EndSales
  \/ \E c \in Customers, p \in Products, units \in Demands : BookDemand(c, p, units)
  \/ EndDemand
  \/ AgeBacklog
  \/ NextRound
  \/ Horizon

Spec == Init /\ [][Next]_vars

-----------------------------------------------------------------------------
(* Properties.                                                             *)

(* Every variable has its type; that stock is a natural number is PF-5: no *)
(* sequence of shipments takes out of stock what is not there.             *)
TypeOK ==
  /\ round \in Nat /\ phase \in Phases
  /\ stock \in [Products -> Goods] /\ holds \in Seq(Holds) /\ finished \in 0 .. MaxYields
  /\ returns \in Seq(Returns)
  /\ backlog \in Seq(Entries) /\ views \in [Customers -> Seq(Entries)]
  /\ sentiment \in [Customers -> Int]
  /\ queue \in Seq(Entries) /\ kept \in Seq(Entries)
  /\ asked \subseteq Customers \X Products /\ totals \in Totals

(* The plant and every customer agree on the orders that are open, however *)
(* returns, shipments, bookings and expiry follow each other: the copies   *)
(* may differ only while the returns of a round are being booked.          *)
ViewsAgree == phase # "returns" => views = ViewsOf(backlog)

(* PF-5 and PF-7: a finished unit is in stock, on hold or with a customer, *)
(* also when it was held, shipped, returned, held again and shipped again. *)
InStock(items) == SumFunction([p \in Products |-> items[p].units])

UnitsConserved ==
  InStock(OpeningStock) + totals.yielded + totals.returned
    = InStock(stock) + Units(holds) + totals.shipped

(* FB-4: whatever the path a unit took, through averaging with others,     *)
(* inspection, shipment and return, it is never valued above the dearest   *)
(* nor below the cheapest unit of its product that was ever made: rounding *)
(* and merging do not let the value of the goods drift.                    *)
CostsOf(p) ==
  {y.cost : y \in {y \in Yields : y.product = p}}
    \union (IF OpeningStock[p].units > 0 THEN {OpeningStock[p].cost} ELSE {})

Fair(p, cost) == \E low, high \in CostsOf(p) : low <= cost /\ cost <= high

ValuedWithinCost ==
  /\ \A p \in Products : stock[p].units > 0 => Fair(p, stock[p].cost)
  /\ \A lot \in Range(holds) \union Range(returns) : Fair(lot.product, lot.cost)

(* FB-5: a unit ordered, or owed again after a return, is open, shipped or *)
(* counted as lost, and no more comes back than was shipped.               *)
Open == IF phase = "sales" THEN Units(queue) + Units(kept) ELSE Units(backlog)

DemandConserved ==
  /\ Units(OpeningBacklog) + totals.demanded + totals.returned
       = Open + totals.shipped + totals.lost
  /\ totals.returned + Units(returns) <= totals.shipped

(* A product is shipped to an order only when no older order for it is     *)
(* still open, whichever customer placed it, served in part or not at all. *)
OldestFirst ==
  [][phase = "sales" /\ totals'.shipped > totals.shipped =>
       \E i \in DOMAIN queue :
         /\ queue' = RemoveAt(queue, i)
         /\ \A e \in Range(kept) \union Range(queue') :
              e.product = queue[i].product => e.origin >= queue[i].origin]_vars

(* TR-3: an order ages once a round from the round it was booked in (the   *)
(* opening orders from the first), a part shipment does not make it young  *)
(* again, and none outlives the expiry window.                             *)
ExpiryWindow ==
  \A e \in Range(backlog) :
    /\ e.age = round - Max({e.origin, 1}) + (IF phase = "closed" THEN 1 ELSE 0)
    /\ e.age <= Expiry

=============================================================================
