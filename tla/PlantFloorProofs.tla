--------------------------- MODULE PlantFloorProofs ---------------------------
(***************************************************************************)
(* Proofs about PlantFloor with its SupplyChain: the safety invariants and *)
(* the permanence of a jam, for any suppliers, parts, products, stations,  *)
(* bills of materials, routes, capacities and inputs.                      *)
(*                                                                         *)
(* None of the invariants is inductive alone.  The supplier records need   *)
(* to know where the lots come from (LotsTracked): that two lots never     *)
(* become one when they slip, or the count of the lots in transit would    *)
(* drop, and that no lot arrives before it was promised.  The capacity     *)
(* needs to know that the stations are idle until production begins        *)
(* (OpensIdle), or labour of an earlier round would count.  That no stock  *)
(* is driven below zero rests on how releases and advances are trimmed.    *)
(***************************************************************************)
EXTENDS PlantFloor, SumTheorems

(* Lots are told apart by more than the round they arrive in, new ones are *)
(* not yet known by their identity, and none arrives before its promise.   *)
LotsTracked ==
  /\ IsFiniteSet(lots)
  /\ \A a, b \in lots : Slipped(a) = Slipped(b) => a = b
  /\ \A lot \in lots : lot.promised <= lot.arrival
  /\ \A lot \in lots :
       \/ lot.id[1] < round
       \/ lot.id[1] = round /\ (phase = "order" => lot.id[2] < lines)

(* A round finds the stations idle and no overtime granted.                *)
OpensIdle ==
  phase \in {"order", "judge", "shelve", "release"} =>
    floor = Idle /\ overtime = NoOvertime

SupplyInv == LotsTracked /\ RecordsAgreeWithLots
FloorInv == OpensIdle /\ CapacityRespected

IInv == TypeOK /\ round > 0 /\ SupplyInv /\ FloorInv /\ MaterialConserved

-----------------------------------------------------------------------------
(* The operators of the models.                                            *)

(* The smallest of two numbers is one of them and at most each.            *)
LEMMA MinOfTwo ==
  ASSUME NEW a \in Int, NEW b \in Int
  PROVE  /\ Min({a, b}) \in {a, b} /\ Min({a, b}) <= a /\ Min({a, b}) <= b
         /\ Min({a, b}) \in Int
<1>1. \E x \in {a, b} : \A y \in {a, b} : x <= y
  BY SMT
<1>2. Min({a, b}) \in {a, b} /\ \A y \in {a, b} : Min({a, b}) <= y
  BY <1>1 DEF Min
<1> QED
  BY <1>2

(* A number cut off at zero.                                               *)
LEMMA CutOff ==
  ASSUME NEW a \in Int
  PROVE  /\ Max({0, a}) \in Nat /\ Max({0, a}) \in {0, a} /\ Max({0, a}) >= a
         /\ a <= 0 => Max({0, a}) = 0
         /\ a >= 0 => Max({0, a}) = a
<1>1. \E x \in {0, a} : \A y \in {0, a} : x >= y
  BY SMT
<1>2. Max({0, a}) \in {0, a} /\ \A y \in {0, a} : Max({0, a}) >= y
  BY <1>1 DEF Max
<1> QED
  BY <1>2

(* And the smallest of the five limits of an allocation.                   *)
LEMMA MinOfFive ==
  ASSUME NEW a \in Int, NEW b \in Int, NEW c \in Int, NEW d \in Int, NEW e \in Int
  PROVE  LET m == Min({a, b, c, d, e})
         IN  m \in Int /\ m <= a /\ m <= b /\ m <= c /\ m <= d /\ m <= e
<1>1. \E x \in {a, b, c, d, e} : \A y \in {a, b, c, d, e} : x <= y
  <2>1. PICK x \in {a, b} : x <= a /\ x <= b
    OBVIOUS
  <2>2. PICK y \in {x, c} : y <= x /\ y <= c
    BY <2>1
  <2>3. PICK z \in {y, d} : z <= y /\ z <= d
    BY <2>1, <2>2
  <2>4. PICK t \in {z, e} : t <= z /\ t <= e
    BY <2>1, <2>2, <2>3
  <2>5. t \in {a, b, c, d, e} /\ t <= a /\ t <= b /\ t <= c /\ t <= d /\ t <= e
    BY <2>1, <2>2, <2>3, <2>4
  <2> QED
    BY <2>5
<1>2. /\ Min({a, b, c, d, e}) \in {a, b, c, d, e}
      /\ \A y \in {a, b, c, d, e} : Min({a, b, c, d, e}) <= y
  BY <1>1 DEF Min
<1> QED
  BY <1>2

(* A set of natural numbers that is not empty contains its minimum.        *)
LEMMA MinOfSome ==
  ASSUME NEW T, T \subseteq Nat, T # {}
  PROVE  Min(T) \in T /\ \A k \in T : Min(T) <= k
BY Smallest DEF Min

(* What a share of the stock takes is never more than the stock.           *)
LEMMA ShareFits ==
  ASSUME NEW stock \in Nat, NEW b \in Nat, b > 0, NEW q \in Nat, q <= stock \div b
  PROVE  b * q \in Nat /\ b * q <= stock
<1>1. b * (stock \div b) <= stock /\ stock \div b \in Nat
  BY SMT
<1>2. \A k, r \in Nat : r <= k => b * r <= b * k
  BY SMT
<1> QED
  BY <1>1, <1>2

(* The assumptions about a station and a product, in the form the proofs   *)
(* use.                                                                    *)
LEMMA Plant ==
  /\ 1 \in Stations /\ Stations \subseteq Nat
  /\ IsFiniteSet(Products) /\ IsFiniteSet(Stations)
  /\ \A s \in Stations : Capacity[s] \in Nat /\ Labor[s] \in Nat
                         /\ StressBuffer[s] \in Nat /\ StressPenalty[s] \in Nat
  /\ \A p \in Products, m \in Parts : BOM[p][m] \in Nat
<1>1. Cardinality(Stations) \in Nat
  BY FloorAssumption, FS_CardinalityType
<1>2. 1 \in Stations /\ Stations \subseteq Nat
  BY <1>1, FloorAssumption
<1> QED
  BY <1>2, FloorAssumption, CapacityAssumption DEF Quantities

(* The work at a station is a number, and so is its congestion; a station  *)
(* under stress has between none and all of its nominal capacity.          *)
LEMMA Congestion ==
  ASSUME TypeOK, NEW s \in Stations
  PROVE  /\ WIPAt(s) \in Nat /\ Loss(s) \in Nat
         /\ StressedCapacity(s) \in Nat /\ StressedCapacity(s) <= Capacity[s]
         /\ Jammed(s) => StressedCapacity(s) = 0
<1>1. [p \in Products |-> wip[p][s]] \in [Products -> Nat]
  BY DEF TypeOK, Quantities
<1>2. WIPAt(s) \in Nat
  BY <1>1, Plant, SumType DEF WIPAt
<1>3. Loss(s) \in Nat
  <2> DEFINE x == WIPAt(s) - Capacity[s] - StressBuffer[s]
  <2>1. x \in Int
    BY <1>2, Plant
  <2>2. Max({0, x}) \in Nat
    BY <2>1, CutOff
  <2>3. \A a, b \in Nat : a * b \in Nat
    BY SMT
  <2> QED
    BY <2>2, <2>3, Plant DEF Loss
<1>4. Capacity[s] - Loss(s) \in Int
  BY <1>3, Plant
<1>5. /\ StressedCapacity(s) \in {0, Capacity[s] - Loss(s)} /\ StressedCapacity(s) \in Nat
      /\ StressedCapacity(s) >= Capacity[s] - Loss(s)
  BY <1>4, CutOff DEF StressedCapacity
<1>6. StressedCapacity(s) <= Capacity[s] /\ StressedCapacity(s) \in Nat
  BY <1>3, <1>5, Plant
<1>7. Loss(s) >= Capacity[s] => StressedCapacity(s) = 0
  BY <1>3, <1>5, Plant
<1> QED
  BY <1>2, <1>3, <1>6, <1>7 DEF Jammed


(* What an allocation charges: as far as the work and what is left of the  *)
(* station allow, base labour first and overtime for the rest.             *)
LEMMA Charging ==
  ASSUME TypeOK, CapacityRespected, NEW line \in AllocationLines, NEW money \in Affordable
  PROVE  LET p == line.product
             s == line.station
             n == Advance(line, money)
             v == OvertimeUsed(s, n)
         IN  /\ p \in Products /\ s \in Stations
             /\ n \in Nat /\ n <= wip[p][s]
             /\ n = 0 \/ floor[s].used + n <= StressedCapacity(s)
             /\ v \in Nat /\ v <= n /\ v <= overtime[s].left
             /\ floor[s].labor + (n - v) <= BaseLabor(s)
             /\ v > 0 => floor[s].labor + (n - v) = BaseLabor(s)
             /\ Jammed(s) => n = 0
<1> DEFINE p == line.product
           s == line.station
           n == Advance(line, money)
           v == OvertimeUsed(s, n)
           left == StressedCapacity(s) - floor[s].used
           hands == BaseLaborLeft(s) + overtime[s].left
           m == Min({line.capacity, money, left, wip[p][s], hands})
<1>1. p \in Products /\ s \in Stations /\ line.capacity \in Nat /\ money \in Nat
  BY InputAssumption
<1>2. /\ wip[p][s] \in Nat /\ overtime[s].left \in Nat
      /\ floor[s].used \in Nat /\ floor[s].labor \in Nat
  BY <1>1 DEF TypeOK, Quantities, Usage
<1>3. BaseLabor(s) \in Nat
  BY <1>1, Plant DEF BaseLabor
<1>4. floor[s].labor <= BaseLabor(s)
  BY <1>1 DEF CapacityRespected
<1>5. BaseLaborLeft(s) \in Nat /\ BaseLaborLeft(s) = BaseLabor(s) - floor[s].labor
  <2>1. BaseLabor(s) - floor[s].labor \in Int /\ BaseLabor(s) - floor[s].labor >= 0
    BY <1>2, <1>3, <1>4
  <2> QED
    BY <2>1, CutOff DEF BaseLaborLeft
<1>6. StressedCapacity(s) \in Nat /\ (Jammed(s) => StressedCapacity(s) = 0)
  BY <1>1, Congestion
<1>7. left \in Int /\ hands \in Nat
  BY <1>2, <1>5, <1>6
<1>8. m \in Int /\ m <= left /\ m <= wip[p][s] /\ m <= hands
  <2>1. /\ line.capacity \in Int /\ money \in Int /\ left \in Int
        /\ wip[p][s] \in Int /\ hands \in Int
    BY <1>1, <1>2, <1>7
  <2> HIDE DEF left, hands, p, s
  <2> QED
    BY <2>1, MinOfFive, Zenon
<1>9. n = Max({0, m})
  BY DEF Advance
<1>10. n \in Nat /\ (n = 0 \/ n = m)
  <2> HIDE DEF m, n
  <2> QED
    BY <1>8, <1>9, CutOff
<1> HIDE DEF m, n
<1>11. n <= wip[p][s] /\ n <= hands /\ (n = 0 \/ n <= left)
  <2> HIDE DEF hands, left
  <2> QED
    BY <1>2, <1>7, <1>8, <1>10
<1>12. n = 0 \/ floor[s].used + n <= StressedCapacity(s)
  BY <1>2, <1>6, <1>10, <1>11
<1>13. Jammed(s) => n = 0
  BY <1>2, <1>6, <1>10, <1>12
<1> DEFINE x == n - BaseLaborLeft(s)
<1>14. x \in Int
  BY <1>5, <1>10
<1>15. Max({0, x}) \in Nat /\ (x <= 0 => Max({0, x}) = 0) /\ (x >= 0 => Max({0, x}) = x)
  <2> HIDE DEF x
  <2> QED
    BY <1>14, CutOff
<1>16. /\ v \in {Max({0, x}), overtime[s].left} /\ v <= Max({0, x})
       /\ v <= overtime[s].left /\ v \in Int
  <2>1. v = Min({Max({0, x}), overtime[s].left})
    BY DEF OvertimeUsed
  <2>2. Max({0, x}) \in Int /\ overtime[s].left \in Int
    BY <1>2, <1>15
  <2> HIDE DEF x, v, s
  <2> QED
    BY <2>1, <2>2, MinOfTwo, Zenon
<1> HIDE DEF v
<1>17. v \in Nat /\ (x <= 0 => v = 0) /\ (x > 0 => v <= x) /\ v <= overtime[s].left
  <2> HIDE DEF x
  <2> QED
    BY <1>2, <1>14, <1>15, <1>16
<1>18. x > 0 => v = x
  <2>1. x <= overtime[s].left
    BY <1>2, <1>5, <1>10, <1>11
  <2> HIDE DEF x
  <2> QED
    BY <1>2, <1>14, <1>15, <1>16, <2>1
<1>19. v <= n
  BY <1>5, <1>10, <1>14, <1>17
<1>20. /\ floor[s].labor + (n - v) <= BaseLabor(s)
       /\ v > 0 => floor[s].labor + (n - v) = BaseLabor(s)
  BY <1>2, <1>3, <1>5, <1>10, <1>14, <1>17, <1>18
<1> QED
  BY <1>1, <1>10, <1>11, <1>12, <1>13, <1>17, <1>19, <1>20 DEF n, v


-----------------------------------------------------------------------------
(* Type correctness.                                                       *)

(* A slipped lot is a lot, later than it was promised.                     *)
LEMMA SlippedLot ==
  ASSUME NEW lot \in Lots
  PROVE  /\ Slipped(lot) \in Lots /\ Slipped(lot).supplier = lot.supplier
         /\ Slipped(lot).id = lot.id /\ Slipped(lot).promised = lot.promised
         /\ Slipped(lot).part = lot.part /\ Slipped(lot).quantity = lot.quantity
         /\ Slipped(lot).arrival = lot.promised + LateRounds[lot.supplier]
         /\ LateRounds[lot.supplier] \in Nat
<1>1. LateRounds[lot.supplier] \in Nat
  BY SupplierAssumption DEF Lots
<1> QED
  BY <1>1 DEF Slipped, Lots

(* A supplier's record stays a record, whether it is charged with late     *)
(* deliveries or with a receipt.                                           *)
LEMMA RecordKept ==
  ASSUME NEW r \in Records
  PROVE  /\ \A n \in Nat : /\ Delayed(r, n) \in Records
                           /\ Delayed(r, n).late = r.late + n
                           /\ Delayed(r, n).placed = r.placed
                           /\ Delayed(r, n).received = r.received
         /\ \A pct \in 0 .. 100 : /\ Received(r, pct) \in Records
                                  /\ Received(r, pct).late = r.late
                                  /\ Received(r, pct).placed = r.placed
                                  /\ Received(r, pct).received = r.received + 1
<1>1. ASSUME NEW n \in Nat
      PROVE  /\ Delayed(r, n) \in Records
             /\ Delayed(r, n).late = r.late + n
             /\ Delayed(r, n).placed = r.placed
             /\ Delayed(r, n).received = r.received
  <2>1. r.score \in 0 .. 100 /\ r.score - 10 * n \in Int /\ r.score - 10 * n <= 100
    BY DEF Records
  <2>2. Max({0, r.score - 10 * n}) \in {0, r.score - 10 * n} /\ Max({0, r.score - 10 * n}) \in Nat
    BY <2>1, CutOff
  <2>3. Max({0, r.score - 10 * n}) \in 0 .. 100
    BY <2>1, <2>2
  <2> DEFINE left == Max({0, r.score - 10 * n})
             a == [r EXCEPT !.late = r.late + n]
             b == [a EXCEPT !.score = left]
  <2>4. /\ a \in Records /\ a.late = r.late + n /\ a.placed = r.placed
        /\ a.received = r.received
    BY DEF Records
  <2>5. Delayed(r, n) = b
    BY DEF Delayed
  <2> HIDE DEF left, a
  <2> QED
    BY <2>3, <2>4, <2>5 DEF Records, left
<1>2. ASSUME NEW pct \in 0 .. 100
      PROVE  /\ Received(r, pct) \in Records
             /\ Received(r, pct).late = r.late
             /\ Received(r, pct).placed = r.placed
             /\ Received(r, pct).received = r.received + 1
  <2>1. r.score + 2 \in Int /\ 100 \in Int /\ r.score + 2 >= 0
    BY DEF Records
  <2>2. /\ Min({100, r.score + 2}) \in {100, r.score + 2}
        /\ Min({100, r.score + 2}) <= 100
    BY <2>1, MinOfTwo, Zenon
  <2>3. Min({100, r.score + 2}) \in 0 .. 100
    BY <2>1, <2>2
  <2> DEFINE raised == Min({100, r.score + 2})
             a == [r EXCEPT !.received = r.received + 1]
             b == [a EXCEPT !.score = raised]
  <2>4. /\ a \in Records /\ a.late = r.late /\ a.placed = r.placed
        /\ a.received = r.received + 1
    BY DEF Records
  <2>5. Received(r, pct) \in {a, b}
    BY DEF Received
  <2> HIDE DEF raised, a
  <2> QED
    BY <2>3, <2>4, <2>5 DEF Records, raised
<1> QED
  BY <1>1, <1>2

(* An order leaves the types of the supply alone.                          *)
LEMMA OrderTyped ==
  ASSUME TypeOK, NEW offer \in Offers, Supply(PlaceOrder(offer))
  PROVE  TypeOK'
<1> DEFINE lot == [id |-> <<round, lines>>, supplier |-> offer.supplier, part |-> offer.part,
                   quantity |-> offer.quantity, promised |-> PromisedRound(offer),
                   arrival |-> PromisedRound(offer)]
<1>1. /\ offer.supplier \in Suppliers /\ offer.part \in Parts /\ offer.quantity \in Nat
      /\ offer.lead \in Nat
  BY OfferAssumption
<1>2. lot \in Lots
  BY <1>1 DEF TypeOK, Lots, PromisedRound
<1>3. lots' = lots \union {lot}
  BY DEF Supply, PlaceOrder
<1>4. lots' \in SUBSET Lots
  <2> HIDE DEF lot
  <2> QED
    BY <1>2, <1>3 DEF TypeOK, SupplyTypeOK
<1>5. record' \in [Suppliers -> Records]
  <2>1. record[offer.supplier] \in Records /\ record \in [Suppliers -> Records]
    BY <1>1 DEF TypeOK, SupplyTypeOK
  <2> DEFINE new == [record[offer.supplier] EXCEPT !.placed = @ + 1]
  <2>2. new \in Records
    BY <2>1 DEF Records
  <2>3. record' = [record EXCEPT ![offer.supplier] = new]
    BY DEF Supply, PlaceOrder
  <2> HIDE DEF new
  <2> QED
    BY <2>1, <2>2, <2>3
<1> QED
  BY <1>4, <1>5 DEF TypeOK, SupplyTypeOK, Supply, PlaceOrder, floorVars

(* So does the judgement of the lots.                                      *)
LEMMA JudgeTyped ==
  ASSUME TypeOK, IsFiniteSet(lots), NEW slipping \in SUBSET lots, Supply(JudgeLots(slipping))
  PROVE  TypeOK'
<1>1. \A lot \in slipping : lot \in Lots /\ Slipped(lot) \in Lots
  BY SlippedLot DEF TypeOK, SupplyTypeOK
<1>2. lots' \in SUBSET Lots
  BY <1>1 DEF Supply, JudgeLots, TypeOK, SupplyTypeOK
<1>3. \A s \in Suppliers : Cardinality(LotsOf(slipping, s)) \in Nat
  BY FS_Subset, FS_CardinalityType DEF LotsOf
<1>4. \A s \in Suppliers : record[s] \in Records
  BY DEF TypeOK, SupplyTypeOK
<1>5. \A s \in Suppliers : Delayed(record[s], Cardinality(LotsOf(slipping, s))) \in Records
  BY <1>3, <1>4, RecordKept
<1>6. record' \in [Suppliers -> Records]
  BY <1>5 DEF Supply, JudgeLots
<1> QED
  BY <1>2, <1>6 DEF TypeOK, SupplyTypeOK, Supply, JudgeLots, floorVars

(* So does a receipt, which adds to the shelf.                             *)
LEMMA ReceiptTyped ==
  ASSUME TypeOK, NEW lot \in lots, ReceiveLot(lot)
  PROVE  TypeOK'
<1>1. lot \in Lots
  BY DEF TypeOK, SupplyTypeOK
<1>2. lot.part \in Parts /\ lot.quantity \in Nat /\ lot.supplier \in Suppliers
  BY <1>1 DEF Lots
<1>3. shelved' \in [Parts -> Nat] /\ parts' \in Quantities(Parts)
  BY <1>2 DEF ReceiveLot, ShelveLot, TypeOK, SupplyTypeOK, Quantities
<1>4. record' \in [Suppliers -> Records]
  <2>1. record[lot.supplier] \in Records /\ OnTimePct[lot.supplier] \in 0 .. 100
    BY <1>2, SupplierAssumption DEF TypeOK, SupplyTypeOK
  <2>2. Received(record[lot.supplier], OnTimePct[lot.supplier]) \in Records
    BY <2>1, RecordKept
  <2> QED
    BY <1>2, <2>2 DEF ReceiveLot, ShelveLot, TypeOK, SupplyTypeOK
<1> QED
  BY <1>3, <1>4 DEF TypeOK, SupplyTypeOK, ReceiveLot, ShelveLot


(* A release takes no more of any part than there is on the shelf.         *)
LEMMA Releasing ==
  ASSUME TypeOK, NEW line \in ReleaseLines
  PROVE  LET p == line.product
             allowed == Min({line.quantity, MaxBuildable(p)})
         IN  /\ p \in Products /\ allowed \in Nat
             /\ \A m \in Parts : /\ BOM[p][m] * allowed \in Nat
                                 /\ BOM[p][m] * allowed <= parts[m]
<1> DEFINE p == line.product
           allowed == Min({line.quantity, MaxBuildable(p)})
           needed == {m \in Parts : BOM[p][m] > 0}
           shares == {parts[m] \div BOM[p][m] : m \in needed}
<1>1. p \in Products /\ line.quantity \in Nat
  BY InputAssumption
<1>2. \A m \in Parts : BOM[p][m] \in Nat /\ parts[m] \in Nat
  BY <1>1, Plant DEF TypeOK, Quantities
<1>3. \A m \in needed : parts[m] \div BOM[p][m] \in Nat
  BY <1>2
<1>4. shares \subseteq Nat
  BY <1>3
<1>5. needed # {}
  BY <1>1, FloorAssumption
<1>6. shares # {}
  BY <1>5
<1>7. MaxBuildable(p) = Min(shares)
  BY DEF MaxBuildable
<1>8. MaxBuildable(p) \in Nat /\ \A k \in shares : MaxBuildable(p) <= k
  <2> HIDE DEF shares
  <2> QED
    BY <1>4, <1>6, <1>7, MinOfSome
<1>9. \A m \in needed : MaxBuildable(p) <= parts[m] \div BOM[p][m]
  BY <1>8
<1>10. allowed \in Nat /\ allowed <= MaxBuildable(p)
  <2>1. line.quantity \in Int /\ MaxBuildable(p) \in Int
    BY <1>1, <1>8
  <2>2. allowed \in {line.quantity, MaxBuildable(p)} /\ allowed <= MaxBuildable(p)
    BY <2>1, MinOfTwo, Zenon
  <2> HIDE DEF allowed
  <2> QED
    BY <1>1, <1>8, <2>2
<1> HIDE DEF allowed
<1>11. ASSUME NEW m \in Parts
       PROVE  BOM[p][m] * allowed \in Nat /\ BOM[p][m] * allowed <= parts[m]
  <2>1. CASE BOM[p][m] > 0
    <3>1. m \in needed
      BY <2>1
    <3>2. allowed <= parts[m] \div BOM[p][m]
      <4>1. parts[m] \div BOM[p][m] \in Nat /\ MaxBuildable(p) <= parts[m] \div BOM[p][m]
        BY <3>1, <1>3, <1>9
      <4> QED
        BY <4>1, <1>8, <1>10
    <3> QED
      BY <1>2, <1>10, <2>1, <3>2, ShareFits
  <2>2. CASE ~(BOM[p][m] > 0)
    <3>1. BOM[p][m] = 0
      BY <1>2, <2>2
    <3>2. 0 * allowed = 0
      BY <1>10
    <3> QED
      BY <1>2, <3>1, <3>2
  <2> QED
    BY <2>1, <2>2
<1> QED
  BY <1>1, <1>10, <1>11 DEF allowed

(* So a release keeps the types.                                           *)
LEMMA ReleaseTyped ==
  ASSUME TypeOK, NEW line \in ReleaseLines, Release(line)
  PROVE  TypeOK'
<1> DEFINE p == line.product
           allowed == Min({line.quantity, MaxBuildable(p)})
<1>1. /\ p \in Products /\ allowed \in Nat
      /\ \A m \in Parts : BOM[p][m] * allowed \in Nat /\ BOM[p][m] * allowed <= parts[m]
  BY Releasing
<1>2. /\ parts' = [m \in Parts |-> parts[m] - BOM[p][m] * allowed]
      /\ wip' = [wip EXCEPT ![p][1] = @ + allowed]
  BY DEF Release
<1> HIDE DEF p, allowed
<1>3. \A m \in Parts : parts[m] - BOM[p][m] * allowed \in Nat
  BY <1>1 DEF TypeOK, Quantities
<1>4. parts' \in Quantities(Parts)
  BY <1>2, <1>3 DEF Quantities
<1>5. wip' \in [Products -> Quantities(Stations)]
  <2>1. 1 \in Stations /\ wip[p] \in [Stations -> Nat]
    BY <1>1, Plant DEF TypeOK, Quantities
  <2> DEFINE row == [wip[p] EXCEPT ![1] = @ + allowed]
  <2>2. row \in Quantities(Stations)
    BY <1>1, <2>1 DEF Quantities
  <2>3. wip' = [wip EXCEPT ![p] = row]
    BY <1>2
  <2> HIDE DEF row
  <2> QED
    BY <1>1, <2>2, <2>3 DEF TypeOK
<1> QED
  BY <1>4, <1>5 DEF TypeOK, SupplyTypeOK, Release, TakeLine, supplyVars

-----------------------------------------------------------------------------
(* What an allocation does to the work in progress: nothing, or n units go *)
(* from the station to another one, or they are inspected at the last.     *)

Moved(p, s, n) ==
  \E r \in Stations \ {s} :
    /\ wip'[p][s] = wip[p][s] - n
    /\ wip'[p][r] = wip[p][r] + n
    /\ \A t \in Stations \ {s, r} : wip'[p][t] = wip[p][t]
    /\ output' = output

Inspected(p, s, n) ==
  \E rework, held, scrapped, good \in Nat :
    /\ rework + held + scrapped + good = n
    /\ wip'[p][s] = wip[p][s] - n + rework
    /\ \A t \in Stations \ {s} : wip'[p][t] = wip[p][t]
    /\ output'[p].good = output[p].good + good
    /\ output'[p].held = output[p].held + held
    /\ output'[p].scrapped = output[p].scrapped + scrapped

(* An allocation has one of these effects on the product, and none on the  *)
(* others; it leaves no stock below zero.                                  *)
LEMMA Advancing ==
  ASSUME TypeOK, CapacityRespected, NEW line \in AllocationLines, NEW money \in Affordable,
         Allocate(line, money)
  PROVE  LET p == line.product
             s == line.station
             n == Advance(line, money)
         IN  /\ wip' \in [Products -> Quantities(Stations)]
             /\ output' \in [Products -> [good : Nat, held : Nat, scrapped : Nat]]
             /\ \A q \in Products \ {p} : wip'[q] = wip[q] /\ output'[q] = output[q]
             /\ \/ wip' = wip /\ output' = output
                \/ n > 0 /\ Moved(p, s, n)
                \/ n > 0 /\ Inspected(p, s, n)
<1> DEFINE p == line.product
           s == line.station
           n == Advance(line, money)
           Goal == /\ wip' \in [Products -> Quantities(Stations)]
                   /\ output' \in [Products -> [good : Nat, held : Nat, scrapped : Nat]]
                   /\ \A q \in Products \ {p} : wip'[q] = wip[q] /\ output'[q] = output[q]
                   /\ \/ wip' = wip /\ output' = output
                      \/ n > 0 /\ Moved(p, s, n)
                      \/ n > 0 /\ Inspected(p, s, n)
<1>1. p \in Products /\ s \in Stations /\ n \in Nat /\ n <= wip[p][s]
  BY Charging
<1>2. \/ wip' = wip /\ output' = output
      \/ n > 0 /\ (MoveOn(p, s, n) \/ Inspect(p, s, n) \/ StayPut(p, s))
  BY DEF Allocate
<1>3. /\ wip \in [Products -> [Stations -> Nat]] /\ wip[p] \in [Stations -> Nat]
      /\ output \in [Products -> [good : Nat, held : Nat, scrapped : Nat]]
      /\ output[p] \in [good : Nat, held : Nat, scrapped : Nat]
  BY <1>1 DEF TypeOK, Quantities
<1> HIDE DEF p, s, n
<1>4. ASSUME wip' = wip, output' = output PROVE Goal
  BY <1>4 DEF TypeOK
<1>5. ASSUME n > 0, StayPut(p, s) PROVE Goal
  BY <1>5 DEF TypeOK, StayPut
<1>6. ASSUME n > 0, MoveOn(p, s, n) PROVE Goal
  <2>1. PICK i \in 1 .. Len(Route[p]) - 1 :
          /\ Route[p][i] = s
          /\ wip' = [wip EXCEPT ![p][s] = @ - n, ![p][Route[p][i + 1]] = @ + n]
          /\ output' = output
    BY <1>6 DEF MoveOn
  <2> DEFINE r == Route[p][i + 1]
             w == [wip EXCEPT ![p][s] = @ - n]
  <2>2. r \in Stations /\ r # s
    <3>1. Route[p] \in Seq(Stations) /\ IsInjective(Route[p])
      BY <1>1, FloorAssumption
    <3>2. i \in 1 .. Len(Route[p]) /\ i + 1 \in 1 .. Len(Route[p]) /\ i # i + 1
      BY <3>1
    <3> QED
      BY <2>1, <3>1, <3>2 DEF IsInjective
  <2>3. wip' = [w EXCEPT ![p][r] = wip[p][r] + n]
    BY <2>1
  <2> HIDE DEF r
  <2>4. /\ w \in [Products -> [Stations -> Nat]] /\ w[p][s] = wip[p][s] - n
        /\ \A t \in Stations \ {s} : w[p][t] = wip[p][t]
        /\ \A q \in Products \ {p} : w[q] = wip[q]
    BY <1>1, <1>3
  <2> HIDE DEF w
  <2>5. /\ wip' \in [Products -> [Stations -> Nat]] /\ wip'[p][r] = wip[p][r] + n
        /\ \A t \in Stations \ {r} : wip'[p][t] = w[p][t]
        /\ \A q \in Products \ {p} : wip'[q] = w[q]
    BY <1>1, <2>2, <2>3, <2>4
  <2>6. /\ wip'[p][s] = wip[p][s] - n /\ wip'[p][r] = wip[p][r] + n
        /\ \A t \in Stations \ {s, r} : wip'[p][t] = wip[p][t]
        /\ \A q \in Products \ {p} : wip'[q] = wip[q]
    BY <1>1, <2>2, <2>4, <2>5
  <2>7. Moved(p, s, n)
    BY <2>1, <2>2, <2>6 DEF Moved
  <2> QED
    BY <1>3, <1>6, <2>1, <2>5, <2>6, <2>7 DEF Quantities
<1>7. ASSUME n > 0, Inspect(p, s, n) PROVE Goal
  <2>1. PICK o \in Inspections(n) :
          /\ wip' = [wip EXCEPT ![p][s] = @ - n + o.rework]
          /\ output' = [output EXCEPT
               ![p].good = @ + (n - o.scrapped - o.rework - o.held),
               ![p].held = @ + o.held,
               ![p].scrapped = @ + o.scrapped]
    BY <1>7 DEF Inspect
  <2> DEFINE good == n - o.scrapped - o.rework - o.held
             row == [wip[p] EXCEPT ![s] = wip[p][s] - n + o.rework]
             a == [output[p] EXCEPT !.good = output[p].good + good]
             b == [a EXCEPT !.held = a.held + o.held]
             c == [b EXCEPT !.scrapped = b.scrapped + o.scrapped]
  <2>2. /\ o.rework \in Nat /\ o.held \in Nat /\ o.scrapped \in Nat /\ good \in Nat
        /\ o.rework + o.held + o.scrapped + good = n
    BY <1>1 DEF Inspections
  <2>3. wip' = [wip EXCEPT ![p] = row]
    BY <2>1
  <2>4. output' = [output EXCEPT ![p] = c]
    BY <2>1
  <2> HIDE DEF good
  <2>5. row \in [Stations -> Nat] /\ row[s] = wip[p][s] - n + o.rework
        /\ \A t \in Stations \ {s} : row[t] = wip[p][t]
    BY <1>1, <1>3, <2>2
  <2>6. a \in [good : Nat, held : Nat, scrapped : Nat] /\ a.good = output[p].good + good
        /\ a.held = output[p].held /\ a.scrapped = output[p].scrapped
    BY <1>3, <2>2
  <2> HIDE DEF a
  <2>7. b \in [good : Nat, held : Nat, scrapped : Nat] /\ b.good = output[p].good + good
        /\ b.held = output[p].held + o.held /\ b.scrapped = output[p].scrapped
    BY <2>2, <2>6
  <2> HIDE DEF b
  <2>8. c \in [good : Nat, held : Nat, scrapped : Nat] /\ c.good = output[p].good + good
        /\ c.held = output[p].held + o.held
        /\ c.scrapped = output[p].scrapped + o.scrapped
    BY <2>2, <2>7
  <2> HIDE DEF row, c
  <2>9. /\ wip'[p] = row /\ wip' \in [Products -> [Stations -> Nat]]
        /\ \A q \in Products \ {p} : wip'[q] = wip[q]
    BY <1>1, <1>3, <2>3, <2>5
  <2>10. /\ output'[p] = c /\ output' \in [Products -> [good : Nat, held : Nat, scrapped : Nat]]
         /\ \A q \in Products \ {p} : output'[q] = output[q]
    BY <1>1, <1>3, <2>4, <2>8
  <2>11. Inspected(p, s, n)
    BY <2>2, <2>5, <2>8, <2>9, <2>10 DEF Inspected
  <2> QED
    BY <1>7, <2>9, <2>10, <2>11 DEF Quantities
<1>8. Goal
  BY <1>2, <1>4, <1>5, <1>6, <1>7
<1> QED
  BY <1>8 DEF p, s, n


(* What an allocation charges the station with.                            *)
LEMMA ChargedTyped ==
  ASSUME TypeOK, CapacityRespected, NEW line \in AllocationLines, NEW money \in Affordable,
         Allocate(line, money)
  PROVE  LET s == line.station
             n == Advance(line, money)
         IN  /\ floor' \in [Stations -> Usage] /\ floor'[s] = Charged(s, n)
             /\ \A t \in Stations \ {s} : floor'[t] = floor[t]
             /\ overtime' \in [Stations -> [asked : Nat, left : Nat]]
             /\ overtime'[s].asked = overtime[s].asked
             /\ overtime'[s].left = overtime[s].left - OvertimeUsed(s, n)
             /\ \A t \in Stations \ {s} : overtime'[t] = overtime[t]
<1> DEFINE s == line.station
           n == Advance(line, money)
           v == OvertimeUsed(s, n)
<1>1. /\ s \in Stations /\ n \in Nat /\ v \in Nat /\ v <= n /\ v <= overtime[s].left
  BY Charging
<1>2. /\ floor' = [floor EXCEPT ![s] = Charged(s, n)]
      /\ overtime' = [overtime EXCEPT ![s].left = @ - v]
  BY DEF Allocate
<1> HIDE DEF s, n, v
<1>3. /\ floor[s] \in Usage /\ overtime[s] \in [asked : Nat, left : Nat]
      /\ floor \in [Stations -> Usage]
      /\ overtime \in [Stations -> [asked : Nat, left : Nat]]
  BY <1>1 DEF TypeOK
<1>4. StressedCapacity(s) \in Nat
  BY <1>1, Congestion
<1>5. Charged(s, n) = [used |-> floor[s].used + n, labor |-> floor[s].labor + (n - v),
                       overtime |-> floor[s].overtime + v, effective |-> StressedCapacity(s)]
  BY DEF Charged, v
<1>6. n - v \in Nat
  BY <1>1
<1>7. Charged(s, n) \in Usage
  BY <1>1, <1>3, <1>4, <1>5, <1>6 DEF Usage
<1>8. /\ floor' \in [Stations -> Usage] /\ floor'[s] = Charged(s, n)
      /\ \A t \in Stations \ {s} : floor'[t] = floor[t]
  BY <1>1, <1>2, <1>3, <1>7
<1>9. /\ overtime' \in [Stations -> [asked : Nat, left : Nat]]
      /\ overtime'[s].asked = overtime[s].asked
      /\ overtime'[s].left = overtime[s].left - v
      /\ \A t \in Stations \ {s} : overtime'[t] = overtime[t]
  <2> DEFINE row == [overtime[s] EXCEPT !.left = @ - v]
  <2>1. row \in [asked : Nat, left : Nat] /\ row.asked = overtime[s].asked
        /\ row.left = overtime[s].left - v
    BY <1>1, <1>3
  <2>2. overtime' = [overtime EXCEPT ![s] = row]
    BY <1>2
  <2> HIDE DEF row
  <2> QED
    BY <1>1, <1>3, <2>1, <2>2
<1> QED
  BY <1>8, <1>9 DEF s, n, v

(* Every step keeps the types.                                             *)
LEMMA TypePreserved ==
  ASSUME TypeOK, IsFiniteSet(lots), CapacityRespected, [Next]_vars
  PROVE  TypeOK'
<1>1. CASE \E offer \in Offers : Supply(PlaceOrder(offer))
  BY <1>1, OrderTyped
<1>2. CASE Supply(EndOrders)
  BY <1>2 DEF Supply, EndOrders, TypeOK, SupplyTypeOK, supplyVars, floorVars
<1>3. CASE \E slipping \in SUBSET lots : Supply(JudgeLots(slipping))
  BY <1>3, JudgeTyped
<1>4. CASE \E lot \in lots : ReceiveLot(lot)
  BY <1>4, ReceiptTyped
<1>5. CASE Supply(EndReceipt)
  BY <1>5 DEF Supply, EndReceipt, TypeOK, SupplyTypeOK, supplyVars, floorVars
<1>6. CASE SkipProduction
  BY <1>6 DEF SkipProduction, Enter, TypeOK, SupplyTypeOK, supplyVars
<1>7. CASE \E line \in ReleaseLines : Release(line)
  BY <1>7, ReleaseTyped
<1>8. ASSUME NEW choice \in OvertimeChoices, BeginAllocation(choice) PROVE TypeOK'
  <2>1. \A s \in Stations : choice[s] \in Nat
    BY InputAssumption DEF Quantities
  <2>2. overtime' \in [Stations -> [asked : Nat, left : Nat]]
    BY <1>8, <2>1 DEF BeginAllocation
  <2> QED
    BY <1>8, <2>2 DEF BeginAllocation, Enter, TypeOK, SupplyTypeOK, supplyVars
<1>9. ASSUME NEW line \in AllocationLines, NEW money \in Affordable, Allocate(line, money)
      PROVE  TypeOK'
  <2>1. /\ floor' \in [Stations -> Usage]
        /\ overtime' \in [Stations -> [asked : Nat, left : Nat]]
    BY <1>9, ChargedTyped
  <2>2. /\ wip' \in [Products -> Quantities(Stations)]
        /\ output' \in [Products -> [good : Nat, held : Nat, scrapped : Nat]]
    BY <1>9, Advancing
  <2> QED
    BY <1>9, <2>1, <2>2 DEF Allocate, TakeLine, TypeOK, SupplyTypeOK, supplyVars
<1>10. CASE EndProduction
  BY <1>10 DEF EndProduction, Enter, TypeOK, SupplyTypeOK, supplyVars
<1>11. CASE NextRound
  <2>1. floor' \in [Stations -> Usage]
    BY <1>11, Plant DEF NextRound, Idle, Usage
  <2>2. overtime' \in [Stations -> [asked : Nat, left : Nat]]
    BY <1>11 DEF NextRound, NoOvertime
  <2> QED
    BY <1>11, <2>1, <2>2 DEF NextRound, Enter, TypeOK, SupplyTypeOK, supplyVars
<1>12. CASE UNCHANGED vars
  BY <1>12 DEF vars, supplyVars, floorVars, TypeOK, SupplyTypeOK
<1> QED
  BY <1>1, <1>2, <1>3, <1>4, <1>5, <1>6, <1>7, <1>8, <1>9, <1>10, <1>11, <1>12
     DEF Next, Horizon

-----------------------------------------------------------------------------
(* Capacity.                                                               *)

(* An idle station has used nothing.                                       *)
LEMMA IdleRespects ==
  ASSUME NEW s \in Stations, NEW f, f = Idle[s]
  PROVE  f.used = 0 /\ f.labor = 0 /\ f.overtime = 0 /\ Capacity[s] \in Nat /\ BaseLabor(s) \in Nat
BY Plant DEF Idle, BaseLabor

(* Every step keeps a round's use of a station within its limits.          *)
LEMMA CapacityPreserved ==
  ASSUME TypeOK, OpensIdle, CapacityRespected, [Next]_vars
  PROVE  OpensIdle' /\ CapacityRespected'
<1>1. ASSUME NEW choice \in OvertimeChoices, BeginAllocation(choice)
      PROVE  OpensIdle' /\ CapacityRespected'
  <2>1. OpensIdle'
    BY <1>1 DEF BeginAllocation, Enter, OpensIdle
  <2>2. floor' = Idle
    BY <1>1 DEF BeginAllocation, OpensIdle
  <2>3. ASSUME NEW s \in Stations
        PROVE  /\ floor'[s].used <= Capacity[s]
               /\ floor'[s].labor + floor'[s].overtime = floor'[s].used
               /\ floor'[s].labor <= BaseLabor(s)
               /\ floor'[s].overtime + overtime'[s].left = overtime'[s].asked
               /\ floor'[s].overtime > 0 => floor'[s].labor = BaseLabor(s)
    <3>1. overtime'[s].left = choice[s] /\ overtime'[s].asked = choice[s] /\ choice[s] \in Nat
      BY <1>1, InputAssumption DEF BeginAllocation, Quantities
    <3> QED
      BY <2>2, <3>1, IdleRespects
  <2> QED
    BY <2>1, <2>3 DEF CapacityRespected, BaseLabor
<1>2. ASSUME NEW line \in AllocationLines, NEW money \in Affordable, Allocate(line, money)
      PROVE  OpensIdle' /\ CapacityRespected'
  <2> DEFINE s == line.station
             n == Advance(line, money)
             v == OvertimeUsed(s, n)
  <2>1. /\ s \in Stations /\ n \in Nat /\ v \in Nat /\ v <= n /\ v <= overtime[s].left
        /\ n = 0 \/ floor[s].used + n <= StressedCapacity(s)
        /\ floor[s].labor + (n - v) <= BaseLabor(s)
        /\ v > 0 => floor[s].labor + (n - v) = BaseLabor(s)
    BY Charging
  <2>2. /\ floor'[s] = Charged(s, n)
        /\ \A t \in Stations \ {s} : floor'[t] = floor[t]
        /\ overtime'[s].asked = overtime[s].asked
        /\ overtime'[s].left = overtime[s].left - v
        /\ \A t \in Stations \ {s} : overtime'[t] = overtime[t]
    BY <1>2, ChargedTyped
  <2>3. StressedCapacity(s) <= Capacity[s] /\ StressedCapacity(s) \in Nat
    BY <2>1, Congestion
  <2>4. /\ Charged(s, n).used = floor[s].used + n
        /\ Charged(s, n).labor = floor[s].labor + (n - v)
        /\ Charged(s, n).overtime = floor[s].overtime + v
    BY DEF Charged
  <2>5. /\ floor[s].used \in Nat /\ floor[s].labor \in Nat /\ floor[s].overtime \in Nat
        /\ overtime[s].left \in Nat /\ overtime[s].asked \in Nat
        /\ Capacity[s] \in Nat /\ BaseLabor(s) \in Nat
    BY <2>1, Plant DEF TypeOK, Usage, BaseLabor
  <2>6. /\ floor[s].used <= Capacity[s]
        /\ floor[s].labor + floor[s].overtime = floor[s].used
        /\ floor[s].labor <= BaseLabor(s)
        /\ floor[s].overtime + overtime[s].left = overtime[s].asked
        /\ floor[s].overtime > 0 => floor[s].labor = BaseLabor(s)
    BY <2>1 DEF CapacityRespected
  <2> HIDE DEF s, n, v
  <2>7. /\ floor'[s].used <= Capacity[s]
        /\ floor'[s].labor + floor'[s].overtime = floor'[s].used
        /\ floor'[s].labor <= BaseLabor(s)
        /\ floor'[s].overtime + overtime'[s].left = overtime'[s].asked
    <3>1. /\ floor'[s].used = floor[s].used + n
          /\ floor'[s].labor = floor[s].labor + (n - v)
          /\ floor'[s].overtime = floor[s].overtime + v
      BY <2>2, <2>4
    <3>2. floor'[s].used <= Capacity[s]
      BY <2>1, <2>3, <2>5, <2>6, <3>1
    <3>3. floor'[s].labor + floor'[s].overtime = floor'[s].used
      BY ONLY <2>1, <2>5, <2>6, <3>1
    <3>4. floor'[s].overtime + overtime'[s].left = overtime'[s].asked
      BY ONLY <2>1, <2>2, <2>5, <2>6, <3>1
    <3> QED
      BY <2>1, <3>1, <3>2, <3>3, <3>4
  <2>8. floor'[s].overtime > 0 => floor'[s].labor = BaseLabor(s)
    BY <2>1, <2>2, <2>4, <2>5, <2>6
  <2>9. \A t \in Stations \ {s} :
          /\ floor'[t].used <= Capacity[t]
          /\ floor'[t].labor + floor'[t].overtime = floor'[t].used
          /\ floor'[t].labor <= BaseLabor(t)
          /\ floor'[t].overtime + overtime'[t].left = overtime'[t].asked
          /\ floor'[t].overtime > 0 => floor'[t].labor = BaseLabor(t)
    BY <2>2 DEF CapacityRespected
  <2>10. OpensIdle'
    BY <1>2 DEF Allocate, OpensIdle
  <2> QED
    BY <2>7, <2>8, <2>9, <2>10 DEF CapacityRespected, BaseLabor
<1>3. CASE NextRound
  <2>1. floor' = Idle /\ overtime' = NoOvertime
    BY <1>3 DEF NextRound
  <2>2. ASSUME NEW s \in Stations
        PROVE  /\ floor'[s].used <= Capacity[s]
               /\ floor'[s].labor + floor'[s].overtime = floor'[s].used
               /\ floor'[s].labor <= BaseLabor(s)
               /\ floor'[s].overtime + overtime'[s].left = overtime'[s].asked
               /\ floor'[s].overtime > 0 => floor'[s].labor = BaseLabor(s)
    <3>1. overtime'[s].left = 0 /\ overtime'[s].asked = 0
      BY <2>1 DEF NoOvertime
    <3> QED
      BY <2>1, <3>1, IdleRespects
  <2> QED
    BY <2>1, <2>2 DEF CapacityRespected, OpensIdle, BaseLabor
<1>4. ASSUME UNCHANGED <<floor, overtime>>,
             phase' = phase \/ phase' = "closed" \/ phase \in {"order", "judge", "shelve"}
      PROVE  OpensIdle' /\ CapacityRespected'
  BY <1>4 DEF OpensIdle, CapacityRespected, BaseLabor
<1>5. CASE \/ \E offer \in Offers : Supply(PlaceOrder(offer))
           \/ Supply(EndOrders)
           \/ \E slipping \in SUBSET lots : Supply(JudgeLots(slipping))
           \/ \E lot \in lots : ReceiveLot(lot)
           \/ Supply(EndReceipt)
  BY <1>4, <1>5 DEF Supply, PlaceOrder, EndOrders, JudgeLots, ReceiveLot, ShelveLot, EndReceipt,
                    floorVars
<1>6. CASE \/ SkipProduction \/ EndProduction \/ UNCHANGED vars
           \/ \E line \in ReleaseLines : Release(line)
  BY <1>4, <1>6 DEF SkipProduction, EndProduction, Release, Enter, vars, floorVars
<1> QED
  BY <1>1, <1>2, <1>3, <1>5, <1>6 DEF Next, Horizon


-----------------------------------------------------------------------------
(* The work that waits at a station, and the work in progress.             *)

(* When only one product moves, the work at a station changes by as much   *)
(* as the product's share of it.                                           *)
LEMMA WaitingChange ==
  ASSUME TypeOK, wip' \in [Products -> Quantities(Stations)], NEW p \in Products,
         \A q \in Products \ {p} : wip'[q] = wip[q], NEW t \in Stations
  PROVE  WIPAt(t)' = WIPAt(t) + wip'[p][t] - wip[p][t]
<1> DEFINE w == [q \in Products |-> wip[q][t]]
           v == [q \in Products |-> wip'[q][t]]
<1>1. /\ w \in [Products -> Int] /\ v \in [Products -> Int]
      /\ \A q \in Products : q # p => v[q] = w[q]
      /\ w[p] = wip[p][t] /\ v[p] = wip'[p][t]
  BY DEF TypeOK, Quantities
<1>2. WIPAt(t) = SumFunction(w) /\ WIPAt(t)' = SumFunction(v)
  BY DEF WIPAt
<1> HIDE DEF w, v
<1>3. SumFunction(v) = SumFunction(w) + v[p] - w[p]
  BY <1>1, Plant, SumChange
<1> QED
  BY <1>1, <1>2, <1>3

(* A jammed station keeps its work: nothing advances there, and elsewhere  *)
(* work can only arrive from.                                              *)
LEMMA JamKept ==
  ASSUME TypeOK, CapacityRespected, [Next]_vars, NEW t \in Stations, Jammed(t)
  PROVE  WIPAt(t)' >= WIPAt(t)
<1>0. WIPAt(t) \in Nat
  BY Congestion
<1>1. ASSUME NEW line \in ReleaseLines, Release(line) PROVE WIPAt(t)' >= WIPAt(t)
  <2> DEFINE p == line.product
             allowed == Min({line.quantity, MaxBuildable(p)})
  <2>1. p \in Products /\ allowed \in Nat
    BY Releasing
  <2>2. wip' = [wip EXCEPT ![p][1] = @ + allowed]
    BY <1>1 DEF Release
  <2>3. wip' \in [Products -> Quantities(Stations)]
    BY <1>1, ReleaseTyped DEF TypeOK
  <2> HIDE DEF p, allowed
  <2>4. \A q \in Products \ {p} : wip'[q] = wip[q]
    BY <2>1, <2>2 DEF TypeOK
  <2>5. WIPAt(t)' = WIPAt(t) + wip'[p][t] - wip[p][t]
    BY <2>1, <2>3, <2>4, WaitingChange
  <2>6. wip[p] \in [Stations -> Nat] /\ wip'[p][t] >= wip[p][t] /\ wip'[p][t] \in Nat
    BY <2>1, <2>2, Plant DEF TypeOK, Quantities
  <2> QED
    BY <1>0, <2>5, <2>6
<1>2. ASSUME NEW line \in AllocationLines, NEW money \in Affordable, Allocate(line, money)
      PROVE  WIPAt(t)' >= WIPAt(t)
  <2> DEFINE p == line.product
             s == line.station
             n == Advance(line, money)
  <2>1. p \in Products /\ s \in Stations /\ n \in Nat /\ (Jammed(s) => n = 0)
    BY Charging
  <2>2. /\ wip' \in [Products -> Quantities(Stations)]
        /\ \A q \in Products \ {p} : wip'[q] = wip[q]
        /\ \/ wip' = wip
           \/ n > 0 /\ (Moved(p, s, n) \/ Inspected(p, s, n))
    BY <1>2, Advancing
  <2> HIDE DEF p, s, n
  <2>3. wip[p][t] \in Nat /\ wip'[p][t] \in Nat
    BY <2>1, <2>2 DEF TypeOK, Quantities
  <2>4. wip'[p][t] >= wip[p][t]
    <3>1. CASE wip' = wip
      BY <2>3, <3>1
    <3>2. CASE n > 0 /\ t # s /\ Moved(p, s, n)
      BY <2>1, <2>3, <3>2 DEF Moved
    <3>3. CASE n > 0 /\ t # s /\ Inspected(p, s, n)
      <4>1. wip'[p][t] = wip[p][t]
        BY <3>3 DEF Inspected
      <4> QED
        BY <2>3, <4>1
    <3>4. CASE n > 0 /\ t = s
      BY <2>1, <3>4
    <3> QED
      BY <2>2, <3>1, <3>2, <3>3, <3>4
  <2>5. WIPAt(t)' = WIPAt(t) + wip'[p][t] - wip[p][t]
    BY <2>1, <2>2, WaitingChange
  <2> QED
    BY <1>0, <2>3, <2>4, <2>5
<1>3. ASSUME wip' = wip PROVE WIPAt(t)' >= WIPAt(t)
  <2>1. WIPAt(t)' = WIPAt(t)
    BY <1>3 DEF WIPAt
  <2> QED
    BY <1>0, <2>1
<1>4. CASE \/ \E offer \in Offers : Supply(PlaceOrder(offer))
           \/ Supply(EndOrders)
           \/ \E slipping \in SUBSET lots : Supply(JudgeLots(slipping))
           \/ \E lot \in lots : ReceiveLot(lot)
           \/ Supply(EndReceipt)
  BY <1>3, <1>4 DEF Supply, ReceiveLot, floorVars
<1>5. CASE \/ SkipProduction \/ EndProduction \/ NextRound \/ UNCHANGED vars
           \/ \E choice \in OvertimeChoices : BeginAllocation(choice)
  BY <1>3, <1>5 DEF SkipProduction, EndProduction, NextRound, BeginAllocation, vars, floorVars
<1> QED
  BY <1>1, <1>2, <1>4, <1>5 DEF Next, Horizon

(* The units of a product that are in progress.                            *)
LEMMA ProgressTyped ==
  ASSUME TypeOK, NEW p \in Products
  PROVE  /\ InProgress(p) \in Nat /\ OpeningUnits(p) \in Nat /\ LeftFloor(p) \in Nat
         /\ Released(p) \in Int
<1>1. wip[p] \in [Stations -> Nat] /\ OpeningWIP[p] \in [Stations -> Nat]
  BY InputAssumption DEF TypeOK, Quantities
<1>2. InProgress(p) \in Nat /\ OpeningUnits(p) \in Nat
  BY <1>1, Plant, SumType DEF InProgress, OpeningUnits
<1>3. LeftFloor(p) \in Nat
  <2>1. output[p] \in [good : Nat, held : Nat, scrapped : Nat]
    BY DEF TypeOK
  <2> QED
    BY <2>1 DEF LeftFloor
<1> QED
  BY <1>2, <1>3 DEF Released

(* An allocation neither makes a unit nor loses one.                       *)
LEMMA AllocationReleasesNothing ==
  ASSUME TypeOK, CapacityRespected, NEW line \in AllocationLines, NEW money \in Affordable,
         Allocate(line, money), NEW q \in Products
  PROVE  Released(q)' = Released(q)
<1> DEFINE p == line.product
           s == line.station
           n == Advance(line, money)
<1>1. p \in Products /\ s \in Stations /\ n \in Nat
  BY Charging
<1>2. /\ wip' \in [Products -> Quantities(Stations)]
      /\ output' \in [Products -> [good : Nat, held : Nat, scrapped : Nat]]
      /\ \A r \in Products \ {p} : wip'[r] = wip[r] /\ output'[r] = output[r]
      /\ \/ wip' = wip /\ output' = output
         \/ n > 0 /\ Moved(p, s, n)
         \/ n > 0 /\ Inspected(p, s, n)
  BY Advancing
<1> HIDE DEF p, s, n
<1>3. Released(q)' = SumFunction(wip'[q])
                     + (output'[q].good + output'[q].held + output'[q].scrapped) - OpeningUnits(q)
  BY DEF Released, InProgress, LeftFloor, OpeningUnits
<1>4. Released(q) = SumFunction(wip[q])
                    + (output[q].good + output[q].held + output[q].scrapped) - OpeningUnits(q)
  BY DEF Released, InProgress, LeftFloor
<1> DEFINE u == wip[p]
           v == wip'[p]
<1>5. CASE q # p \/ (wip' = wip /\ output' = output)
  BY <1>2, <1>3, <1>4, <1>5
<1>6. /\ wip[p] \in [Stations -> Int] /\ wip'[p] \in [Stations -> Int]
      /\ output[p] \in [good : Nat, held : Nat, scrapped : Nat]
      /\ output'[p] \in [good : Nat, held : Nat, scrapped : Nat]
  BY <1>1, <1>2 DEF TypeOK, Quantities
<1>7. SumFunction(wip[p]) \in Int /\ OpeningUnits(p) \in Int
  <2>1. OpeningUnits(p) \in Nat
    BY <1>1, ProgressTyped
  <2> QED
    BY <1>6, <2>1, Plant, SumType
<1>8. ASSUME Moved(p, s, n), q = p PROVE Released(q)' = Released(q)
  <2>1. PICK r \in Stations \ {s} :
          /\ wip'[p][s] = wip[p][s] - n
          /\ wip'[p][r] = wip[p][r] + n
          /\ \A t \in Stations \ {s, r} : wip'[p][t] = wip[p][t]
          /\ output' = output
    BY <1>8 DEF Moved
  <2> DEFINE w == [wip[p] EXCEPT ![s] = wip[p][s] - n]
  <2>2. /\ w \in [Stations -> Int] /\ w[s] = wip[p][s] - n
        /\ \A t \in Stations : t # s => w[t] = wip[p][t]
    BY <1>1, <1>6
  <2> HIDE DEF w
  <2>3. SumFunction(w) = SumFunction(u) + w[s] - u[s]
    <3>1. u \in [Stations -> Int] /\ \A t \in Stations : t # s => w[t] = u[t]
      BY <1>6, <2>2
    <3>2. s \in Stations /\ w \in [Stations -> Int] /\ IsFiniteSet(Stations)
      BY <1>1, <2>2, Plant
    <3> HIDE DEF u
    <3> QED
      BY ONLY <3>1, <3>2, SumChange
  <2>4. \A t \in Stations : t # r => wip'[p][t] = w[t]
    BY <2>1, <2>2
  <2>5. SumFunction(v) = SumFunction(w) + v[r] - w[r]
    <3>1. v \in [Stations -> Int] /\ \A t \in Stations : t # r => v[t] = w[t]
      BY <1>6, <2>4
    <3>2. r \in Stations /\ w \in [Stations -> Int] /\ IsFiniteSet(Stations)
      BY <2>2, Plant
    <3> HIDE DEF v
    <3> QED
      BY ONLY <3>1, <3>2, SumChange
  <2>6. wip[p][s] \in Int /\ wip[p][r] \in Int /\ w[r] = wip[p][r]
    BY <1>1, <1>6, <2>2
  <2>7. SumFunction(wip'[p]) = SumFunction(wip[p])
    BY ONLY <1>1, <1>7, <2>1, <2>2, <2>3, <2>5, <2>6
  <2> QED
    BY <1>3, <1>4, <1>8, <2>1, <2>7
<1>9. ASSUME Inspected(p, s, n), q = p PROVE Released(q)' = Released(q)
  <2>1. PICK rework, held, scrapped, good \in Nat :
          /\ rework + held + scrapped + good = n
          /\ wip'[p][s] = wip[p][s] - n + rework
          /\ \A t \in Stations \ {s} : wip'[p][t] = wip[p][t]
          /\ output'[p].good = output[p].good + good
          /\ output'[p].held = output[p].held + held
          /\ output'[p].scrapped = output[p].scrapped + scrapped
    BY <1>9 DEF Inspected
  <2>2. SumFunction(v) = SumFunction(u) + v[s] - u[s]
    <3>1. /\ u \in [Stations -> Int] /\ v \in [Stations -> Int]
          /\ \A t \in Stations : t # s => v[t] = u[t]
      BY <1>6, <2>1
    <3>2. s \in Stations /\ IsFiniteSet(Stations)
      BY <1>1, Plant
    <3> HIDE DEF u, v
    <3> QED
      BY ONLY <3>1, <3>2, SumChange
  <2>3. /\ wip[p][s] \in Int /\ output[p].good \in Nat /\ output[p].held \in Nat
        /\ output[p].scrapped \in Nat
    BY <1>1, <1>6
  <2>4. SumFunction(wip'[p]) = SumFunction(wip[p]) + rework - n
    BY ONLY <1>1, <1>7, <2>1, <2>2, <2>3
  <2>5. /\ Released(q)' = SumFunction(v)
                + (output'[p].good + output'[p].held + output'[p].scrapped) - OpeningUnits(p)
        /\ Released(q) = SumFunction(u)
                + (output[p].good + output[p].held + output[p].scrapped) - OpeningUnits(p)
    BY <1>3, <1>4, <1>9
  <2> QED
    BY ONLY <1>1, <1>7, <2>1, <2>3, <2>4, <2>5
<1>10. CASE q = p
  BY <1>2, <1>5, <1>8, <1>9, <1>10
<1> QED
  BY <1>5, <1>10


(* The units of a part that the released units hold.                       *)
HeldBy(m) == SumFunction([p \in Products |-> BOM[p][m] * Released(p)])

(* They are as many as before when nothing was released or lost.           *)
LEMMA HeldByKept ==
  ASSUME \A p \in Products : Released(p)' = Released(p), NEW m \in Parts
  PROVE  HeldBy(m)' = HeldBy(m)
<1>1. [p \in Products |-> BOM[p][m] * Released(p)']
        = [p \in Products |-> BOM[p][m] * Released(p)]
  OBVIOUS
<1> QED
  BY <1>1 DEF HeldBy

(* Every step accounts for every part.                                     *)
LEMMA MaterialPreserved ==
  ASSUME TypeOK, TypeOK', CapacityRespected, MaterialConserved, [Next]_vars
  PROVE  MaterialConserved'
<1>0. \A m \in Parts : OpeningParts[m] + shelved[m] = parts[m] + HeldBy(m)
  BY DEF MaterialConserved, HeldBy
<1> DEFINE Goal == \A m \in Parts : OpeningParts[m] + shelved'[m] = parts'[m] + HeldBy(m)'
<1> SUFFICES Goal
  <2>1. \A m \in Parts : HeldBy(m)' = SumFunction([p \in Products |-> BOM[p][m] * Released(p)'])
    BY DEF HeldBy
  <2> QED
    BY <2>1 DEF MaterialConserved
<1>1. ASSUME UNCHANGED <<parts, shelved>>, \A p \in Products : Released(p)' = Released(p)
      PROVE  Goal
  BY <1>0, <1>1, HeldByKept
<1>2. ASSUME UNCHANGED <<wip, output>>, NEW p \in Products
      PROVE  Released(p)' = Released(p)
  BY <1>2 DEF Released, InProgress, LeftFloor, OpeningUnits
<1>3. \A m \in Parts : HeldBy(m) \in Int /\ parts[m] \in Nat /\ shelved[m] \in Nat
                       /\ OpeningParts[m] \in Nat
  <2>1. \A m \in Parts : parts[m] \in Nat /\ shelved[m] \in Nat /\ OpeningParts[m] \in Nat
    BY InputAssumption DEF TypeOK, SupplyTypeOK, Quantities
  <2>2. ASSUME NEW m \in Parts PROVE HeldBy(m) \in Int
    <3> DEFINE w == [p \in Products |-> BOM[p][m] * Released(p)]
    <3>1. \A p \in Products : BOM[p][m] * Released(p) \in Int
      BY Plant, ProgressTyped
    <3>2. w \in [Products -> Int]
      BY <3>1
    <3>3. HeldBy(m) = SumFunction(w)
      BY DEF HeldBy
    <3> HIDE DEF w
    <3> QED
      BY <3>2, <3>3, Plant, SumType
  <2> QED
    BY <2>1, <2>2
<1>4. ASSUME NEW lot \in lots, ReceiveLot(lot) PROVE Goal
  <2>1. lot.part \in Parts /\ lot.quantity \in Nat
    BY DEF TypeOK, SupplyTypeOK, Lots
  <2>2. \A m \in Parts : HeldBy(m)' = HeldBy(m)
    BY <1>2, <1>4, HeldByKept DEF ReceiveLot
  <2>3. /\ shelved' = [shelved EXCEPT ![lot.part] = @ + lot.quantity]
        /\ parts' = [parts EXCEPT ![lot.part] = @ + lot.quantity]
        /\ shelved \in [Parts -> Nat] /\ parts \in [Parts -> Nat]
    BY <1>4 DEF ReceiveLot, ShelveLot, TypeOK, SupplyTypeOK, Quantities
  <2> QED
    <3> SUFFICES ASSUME NEW m \in Parts
                 PROVE  OpeningParts[m] + shelved'[m] = parts'[m] + HeldBy(m)'
      OBVIOUS
    <3>1. CASE m = lot.part
      <4>1. shelved'[m] = shelved[m] + lot.quantity /\ parts'[m] = parts[m] + lot.quantity
        BY <2>1, <2>3, <3>1
      <4>2. HeldBy(m)' = HeldBy(m) /\ OpeningParts[m] + shelved[m] = parts[m] + HeldBy(m)
        BY <1>0, <2>2
      <4>3. HeldBy(m) \in Int /\ parts[m] \in Nat /\ shelved[m] \in Nat /\ OpeningParts[m] \in Nat
        BY <1>3
      <4> QED
        BY ONLY <2>1, <4>1, <4>2, <4>3
    <3>2. CASE m # lot.part
      <4>1. shelved'[m] = shelved[m] /\ parts'[m] = parts[m]
        BY <2>1, <2>3, <3>2
      <4> QED
        BY <1>0, <2>2, <4>1
    <3> QED
      BY <3>1, <3>2
<1>5. ASSUME NEW line \in ReleaseLines, Release(line) PROVE Goal
  <2> DEFINE p == line.product
             allowed == Min({line.quantity, MaxBuildable(p)})
  <2>1. /\ p \in Products /\ allowed \in Nat
        /\ \A m \in Parts : BOM[p][m] * allowed \in Nat
    BY Releasing
  <2>2. /\ parts' = [m \in Parts |-> parts[m] - BOM[p][m] * allowed]
        /\ wip' = [wip EXCEPT ![p][1] = @ + allowed]
        /\ shelved' = shelved /\ output' = output
    BY <1>5 DEF Release, supplyVars
  <2> HIDE DEF p, allowed
  <2>3. \A q \in Products : q # p => Released(q)' = Released(q)
    <3>1. \A q \in Products : q # p => wip'[q] = wip[q]
      BY <2>1, <2>2 DEF TypeOK
    <3> QED
      BY <2>2, <3>1 DEF Released, InProgress, LeftFloor, OpeningUnits
  <2>4. Released(p)' = Released(p) + allowed
    <3> DEFINE u == wip[p]
               v == wip'[p]
    <3>1. /\ u \in [Stations -> Int] /\ v \in [Stations -> Int]
          /\ 1 \in Stations /\ v[1] = u[1] + allowed
          /\ \A t \in Stations : t # 1 => v[t] = u[t]
      BY <2>1, <2>2, Plant DEF TypeOK, Quantities
    <3>2. /\ Released(p) = SumFunction(u) + LeftFloor(p) - OpeningUnits(p)
          /\ Released(p)' = SumFunction(v) + LeftFloor(p) - OpeningUnits(p)
      BY <2>2 DEF Released, InProgress, LeftFloor, OpeningUnits
    <3>3. LeftFloor(p) \in Nat /\ OpeningUnits(p) \in Nat
      BY <2>1, ProgressTyped
    <3> HIDE DEF u, v
    <3>4. SumFunction(v) = SumFunction(u) + v[1] - u[1] /\ SumFunction(u) \in Int
      <4>0. u \in [Stations -> Int] /\ v \in [Stations -> Int] /\ IsFiniteSet(Stations)
        BY <3>1, Plant
      <4>1. ASSUME NEW k \in Stations, \A t \in Stations : t # k => v[t] = u[t]
            PROVE  SumFunction(v) = SumFunction(u) + v[k] - u[k]
        BY ONLY <4>0, <4>1, SumChange
      <4> QED
        BY <3>1, <4>1, Plant, SumType
    <3>5. u[1] \in Int
      BY <3>1
    <3> QED
      BY ONLY <2>1, <3>1, <3>2, <3>3, <3>4, <3>5
  <2>5. ASSUME NEW m \in Parts PROVE HeldBy(m)' = HeldBy(m) + BOM[p][m] * allowed
    <3> DEFINE w == [q \in Products |-> BOM[q][m] * Released(q)]
               v == [q \in Products |-> BOM[q][m] * Released(q)']
    <3>0. \A q \in Products : Released(q) \in Int /\ BOM[q][m] \in Nat
      BY Plant, ProgressTyped
    <3>1. \A q \in Products : Released(q)' \in Int
      BY <2>1, <2>3, <2>4, <3>0
    <3>2. \A a \in Nat, b \in Int : a * b \in Int
      BY SMT
    <3>3. \A q \in Products : BOM[q][m] * Released(q) \in Int /\ BOM[q][m] * Released(q)' \in Int
      BY <3>0, <3>1, <3>2
    <3>4. /\ w \in [Products -> Int] /\ v \in [Products -> Int]
          /\ \A q \in Products : q # p => v[q] = w[q]
          /\ w[p] = BOM[p][m] * Released(p) /\ v[p] = BOM[p][m] * Released(p)'
      BY <2>1, <2>3, <3>3
    <3>5. HeldBy(m) = SumFunction(w) /\ HeldBy(m)' = SumFunction(v)
      BY DEF HeldBy
    <3> HIDE DEF w, v
    <3>6. SumFunction(v) = SumFunction(w) + v[p] - w[p] /\ SumFunction(w) \in Int
      BY <2>1, <3>4, Plant, SumChange, SumType
    <3>7. \A a \in Nat, b \in Int, c \in Nat : a * (b + c) = a * b + a * c /\ a * b \in Int
                                               /\ a * c \in Int
      BY SMT
    <3>8. v[p] = w[p] + BOM[p][m] * allowed /\ w[p] \in Int /\ BOM[p][m] * allowed \in Int
      BY <2>1, <2>4, <3>0, <3>4, <3>7
    <3> QED
      BY ONLY <3>5, <3>6, <3>8
  <2> QED
    <3> SUFFICES ASSUME NEW m \in Parts
                 PROVE  OpeningParts[m] + shelved'[m] = parts'[m] + HeldBy(m)'
      OBVIOUS
    <3>1. shelved'[m] = shelved[m] /\ parts'[m] = parts[m] - BOM[p][m] * allowed
      BY <2>2
    <3>2. BOM[p][m] * allowed \in Nat /\ HeldBy(m)' = HeldBy(m) + BOM[p][m] * allowed
      BY <2>1, <2>5
    <3>3. OpeningParts[m] + shelved[m] = parts[m] + HeldBy(m)
      BY <1>0
    <3>4. HeldBy(m) \in Int /\ parts[m] \in Nat /\ shelved[m] \in Nat /\ OpeningParts[m] \in Nat
      BY <1>3
    <3> QED
      BY ONLY <3>1, <3>2, <3>3, <3>4
<1>6. ASSUME NEW line \in AllocationLines, NEW money \in Affordable, Allocate(line, money)
      PROVE  Goal
  <2>1. \A q \in Products : Released(q)' = Released(q)
    BY <1>6, AllocationReleasesNothing
  <2> QED
    BY <1>1, <1>6, <2>1 DEF Allocate, supplyVars
<1>7. CASE \/ \E offer \in Offers : Supply(PlaceOrder(offer))
           \/ Supply(EndOrders)
           \/ \E slipping \in SUBSET lots : Supply(JudgeLots(slipping))
           \/ Supply(EndReceipt)
  <2>1. UNCHANGED <<parts, shelved, wip, output>>
    BY <1>7 DEF Supply, PlaceOrder, EndOrders, JudgeLots, EndReceipt, floorVars, supplyVars
  <2> QED
    BY <1>1, <1>2, <2>1
<1>8. CASE \/ SkipProduction \/ EndProduction \/ NextRound \/ UNCHANGED vars
           \/ \E choice \in OvertimeChoices : BeginAllocation(choice)
  <2>1. UNCHANGED <<parts, shelved, wip, output>>
    BY <1>8 DEF SkipProduction, EndProduction, NextRound, BeginAllocation, vars, floorVars,
                supplyVars
  <2> QED
    BY <1>1, <1>2, <2>1
<1> HIDE DEF Goal
<1> QED
  BY <1>4, <1>5, <1>6, <1>7, <1>8 DEF Next, Horizon


-----------------------------------------------------------------------------
(* The lots in transit and the supplier records.                           *)

(* A function that pairs the elements of two sets off: they are as many.   *)
LEMMA PairedOff ==
  ASSUME NEW S, IsFiniteSet(S), NEW T, NEW f \in [S -> T],
         \A x, y \in S : f[x] = f[y] => x = y, \A z \in T : \E x \in S : f[x] = z
  PROVE  IsFiniteSet(T) /\ Cardinality(T) = Cardinality(S)
<1>1. f \in Bijection(S, T)
  BY DEF Bijection, Injection, Surjection, IsInjective
<1> QED
  BY <1>1, FS_Bijection DEF ExistsBijection

(* The fate of a lot when the slipping lots are known.                     *)
Judged(lot, slipping) == IF lot \in slipping THEN Slipped(lot) ELSE lot

(* Judging the lots moves each to its fate; none falls together with       *)
(* another.                                                                *)
LEMMA FatesDiffer ==
  ASSUME TypeOK, LotsTracked, NEW slipping \in SUBSET lots, Supply(JudgeLots(slipping))
  PROVE  /\ lots' = {Judged(lot, slipping) : lot \in lots}
         /\ \A lot \in lots : Slipped(Judged(lot, slipping)) = Slipped(lot)
         /\ \A a, b \in lots : Judged(a, slipping) = Judged(b, slipping) => a = b
         /\ \A lot \in slipping : /\ lot.arrival = lot.promised /\ Slipped(lot) \in Lots
                                  /\ Slipped(lot).arrival > Slipped(lot).promised
         /\ \A lot \in lots : /\ Judged(lot, slipping) \in Lots
                              /\ Judged(lot, slipping).id = lot.id
                              /\ Judged(lot, slipping).supplier = lot.supplier
                              /\ Judged(lot, slipping).promised = lot.promised
                              /\ lot.arrival <= Judged(lot, slipping).arrival
<1>1. lots' = {Judged(lot, slipping) : lot \in lots}
  <2>1. lots' = (lots \ slipping) \union {Slipped(lot) : lot \in slipping}
    BY DEF Supply, JudgeLots
  <2> QED
    BY <2>1 DEF Judged
<1>2. \A lot \in lots : lot \in Lots
  BY DEF TypeOK, SupplyTypeOK
<1>3. \A lot \in Lots : Slipped(Slipped(lot)) = Slipped(lot)
  <2> SUFFICES ASSUME NEW lot \in Lots PROVE Slipped(Slipped(lot)) = Slipped(lot)
    OBVIOUS
  <2> DEFINE k == lot.promised + LateRounds[lot.supplier]
             late == Slipped(lot)
  <2>1. late \in Lots /\ late.promised = lot.promised /\ late.supplier = lot.supplier
        /\ late.arrival = k
    BY SlippedLot
  <2>2. Slipped(late) = [late EXCEPT !.arrival = k]
    BY <2>1 DEF Slipped
  <2> HIDE DEF late, k
  <2>3. [late EXCEPT !.arrival = k] = late
    BY <2>1 DEF Lots
  <2> QED
    BY <2>2, <2>3 DEF late
<1>4. \A lot \in lots : Slipped(Judged(lot, slipping)) = Slipped(lot)
  BY <1>2, <1>3 DEF Judged
<1>5. \A a, b \in lots : Judged(a, slipping) = Judged(b, slipping) => a = b
  BY <1>4 DEF LotsTracked
<1>6. \A lot \in slipping : /\ lot.arrival = lot.promised /\ Slipped(lot) \in Lots
                            /\ Slipped(lot).arrival > Slipped(lot).promised
  <2> SUFFICES ASSUME NEW lot \in slipping
               PROVE  /\ lot.arrival = lot.promised /\ Slipped(lot) \in Lots
                      /\ Slipped(lot).arrival > Slipped(lot).promised
    OBVIOUS
  <2>1. MaySlip(lot)
    BY DEF Supply, JudgeLots
  <2>2. LateRounds[lot.supplier] > 0 /\ lot.arrival = lot.promised
    BY <2>1 DEF MaySlip
  <2>3. lot \in Lots /\ lot.promised \in Nat
    BY <1>2 DEF Lots
  <2> QED
    BY <2>2, <2>3, SlippedLot
<1>7. ASSUME NEW lot \in lots
      PROVE  /\ Judged(lot, slipping) \in Lots
             /\ Judged(lot, slipping).id = lot.id
             /\ Judged(lot, slipping).supplier = lot.supplier
             /\ Judged(lot, slipping).promised = lot.promised
             /\ lot.arrival <= Judged(lot, slipping).arrival
  <2>1. lot \in Lots /\ lot.promised \in Nat /\ lot.arrival \in Nat
    BY <1>2 DEF Lots
  <2>2. CASE lot \in slipping
    <3>1. Judged(lot, slipping) = Slipped(lot)
      BY <2>2 DEF Judged
    <3>2. Slipped(lot).arrival \in Nat /\ Slipped(lot).promised = lot.promised
      BY <2>1, SlippedLot DEF Lots
    <3> QED
      BY <1>6, <2>1, <2>2, <3>1, <3>2, SlippedLot
  <2>3. CASE lot \notin slipping
    BY <2>1, <2>3 DEF Judged
  <2> QED
    BY <2>2, <2>3
<1> QED
  BY <1>1, <1>4, <1>5, <1>6, <1>7

(* Every step keeps track of the lots.                                     *)
LEMMA TrackPreserved ==
  ASSUME TypeOK, LotsTracked, [Next]_vars
  PROVE  LotsTracked'
<1>0. \A lot \in lots : /\ lot \in Lots /\ lot.id \in Nat \X Nat /\ lot.id[1] \in Nat
                        /\ lot.id[2] \in Nat
  BY DEF TypeOK, SupplyTypeOK, Lots
<1>00. round \in Nat /\ lines \in Nat
  BY DEF TypeOK
<1>1. ASSUME NEW offer \in Offers, Supply(PlaceOrder(offer)) PROVE LotsTracked'
  <2> DEFINE lot == [id |-> <<round, lines>>, supplier |-> offer.supplier, part |-> offer.part,
                     quantity |-> offer.quantity, promised |-> PromisedRound(offer),
                     arrival |-> PromisedRound(offer)]
  <2>1. /\ lots' = lots \union {lot} /\ lines' = lines + 1
        /\ round' = round /\ phase = "order" /\ phase' = "order"
    BY <1>1 DEF Supply, PlaceOrder
  <2>2. offer.lead \in Nat
    BY OfferAssumption
  <2>3. PromisedRound(offer) \in Nat
    BY <1>00, <2>2 DEF PromisedRound
  <2>4. /\ lot.id = <<round, lines>> /\ lot.id[1] = round /\ lot.id[2] = lines
        /\ lot.promised = lot.arrival /\ lot.arrival \in Nat
    BY <2>3
  <2>5. lot \in lots'
    BY <2>1
  <2>6. lots' \in SUBSET Lots
    BY <1>1, OrderTyped DEF TypeOK, SupplyTypeOK
  <2> HIDE DEF lot
  <2>7. IsFiniteSet(lots')
    BY <2>1, FS_AddElement DEF LotsTracked
  <2>8. \A old \in lots : Slipped(old) # Slipped(lot)
    <3> SUFFICES ASSUME NEW old \in lots, Slipped(old) = Slipped(lot) PROVE FALSE
      OBVIOUS
    <3>1. old.id = lot.id
      BY <1>0, <2>5, <2>6, SlippedLot
    <3>2. old.id[1] = round /\ old.id[2] = lines
      BY <2>4, <3>1
    <3> QED
      BY <1>00, <2>1, <3>2 DEF LotsTracked
  <2>9. \A a, b \in lots' : Slipped(a) = Slipped(b) => a = b
    BY <2>1, <2>8 DEF LotsTracked
  <2>10. \A l \in lots' : l.promised <= l.arrival
    BY <2>1, <2>4 DEF LotsTracked
  <2>11. \A l \in lots' :
           \/ l.id[1] < round'
           \/ l.id[1] = round' /\ (phase' = "order" => l.id[2] < lines')
    <3> SUFFICES ASSUME NEW l \in lots'
                 PROVE  l.id[1] < round' \/ (l.id[1] = round' /\ l.id[2] < lines')
      OBVIOUS
    <3>1. CASE l \in lots
      BY <1>0, <1>00, <2>1, <3>1 DEF LotsTracked
    <3>2. CASE l = lot
      BY <1>00, <2>1, <2>4, <3>2
    <3> QED
      BY <2>1, <3>1, <3>2
  <2> QED
    BY <2>7, <2>9, <2>10, <2>11 DEF LotsTracked, Slipped
<1>2. ASSUME NEW slipping \in SUBSET lots, Supply(JudgeLots(slipping)) PROVE LotsTracked'
  <2>1. /\ round' = round /\ phase' = "shelve"
        /\ lots' = (lots \ slipping) \union {Slipped(lot) : lot \in slipping}
    BY <1>2 DEF Supply, JudgeLots
  <2>2. IsFiniteSet(lots')
    <3> DEFINE f == [lot \in lots |-> Judged(lot, slipping)]
    <3>1. /\ f \in [lots -> lots'] /\ \A x, y \in lots : f[x] = f[y] => x = y
          /\ \A z \in lots' : \E x \in lots : f[x] = z
      BY <1>2, FatesDiffer
    <3> HIDE DEF f
    <3> QED
      BY <3>1, PairedOff DEF LotsTracked
  <2>3. \A a, b \in lots' : Slipped(a) = Slipped(b) => a = b
    BY <1>2, FatesDiffer DEF LotsTracked
  <2>4. ASSUME NEW late \in lots'
        PROVE  late.promised <= late.arrival /\ (late.id[1] < round \/ late.id[1] = round)
    <3>1. PICK lot \in lots : late = Judged(lot, slipping)
      BY <1>2, FatesDiffer
    <3>2. /\ late \in Lots /\ late.id = lot.id /\ late.promised = lot.promised
          /\ lot.arrival <= late.arrival
      BY <1>2, <3>1, FatesDiffer
    <3>3. /\ lot.promised \in Nat /\ lot.arrival \in Nat /\ late.arrival \in Nat
          /\ lot.promised <= lot.arrival
      BY <1>0, <3>2 DEF Lots, LotsTracked
    <3>4. late.promised <= late.arrival
      BY ONLY <3>2, <3>3
    <3> QED
      BY <3>2, <3>4 DEF LotsTracked
  <2> QED
    BY <2>1, <2>2, <2>3, <2>4 DEF LotsTracked, Slipped
<1>3. ASSUME NEW lot \in lots, ReceiveLot(lot) PROVE LotsTracked'
  <2>1. lots' = lots \ {lot} /\ round' = round /\ phase' = phase /\ lines' = lines
    BY <1>3 DEF ReceiveLot, ShelveLot
  <2>2. IsFiniteSet(lots')
    BY <2>1, FS_RemoveElement DEF LotsTracked
  <2> QED
    BY <2>1, <2>2 DEF LotsTracked, Slipped
<1>4. ASSUME lots' = lots, round' = round, phase' # "order" \/ (phase' = phase /\ lines' = lines)
      PROVE  LotsTracked'
  BY <1>4 DEF LotsTracked, Slipped
<1>5. CASE NextRound
  <2>1. lots' = lots /\ round' = round + 1
    BY <1>5 DEF NextRound, supplyVars
  <2>2. \A lot \in lots : lot.id[1] < round'
    BY <1>0, <1>00, <2>1 DEF LotsTracked
  <2> QED
    BY <2>1, <2>2 DEF LotsTracked, Slipped
<1>6. CASE Supply(EndOrders) \/ Supply(EndReceipt)
  BY <1>4, <1>6 DEF Supply, EndOrders, EndReceipt, supplyVars
<1>7. CASE \/ SkipProduction \/ EndProduction
           \/ \E choice \in OvertimeChoices : BeginAllocation(choice)
  BY <1>4, <1>7 DEF SkipProduction, EndProduction, BeginAllocation, Enter, supplyVars
<1>8. CASE \/ UNCHANGED vars
           \/ \E line \in ReleaseLines : Release(line)
           \/ \E line \in AllocationLines, money \in Affordable : Allocate(line, money)
  BY <1>4, <1>8 DEF Release, Allocate, supplyVars, vars
<1> QED
  BY <1>1, <1>2, <1>3, <1>5, <1>6, <1>7, <1>8 DEF Next, Horizon


(* The lots of a supplier that have slipped.                               *)
LateOf(pool, s) == {lot \in LotsOf(pool, s) : lot.arrival > lot.promised}

(* What RecordsAgreeWithLots counts for one supplier: every lot ordered is *)
(* received or in transit, and the late deliveries charged are lots that   *)
(* slipped, in transit or received.                                        *)
Agree(rec, pool, s) ==
  /\ Cardinality(LotsOf(OpeningLots, s)) + rec.placed
       = rec.received + Cardinality(LotsOf(pool, s))
  /\ Cardinality(LateOf(pool, s)) <= rec.late
  /\ rec.late <= Cardinality(LateOf(pool, s)) + rec.received

Settled == phase \notin {"order", "judge", "shelve"} => \A lot \in lots : lot.arrival > round

(* RecordsAgreeWithLots, taken apart into one statement per supplier.      *)
LEMMA RecordsSplit ==
  ASSUME TypeOK
  PROVE  RecordsAgreeWithLots <=> (Settled /\ \A s \in Suppliers : Agree(record[s], lots, s))
<1>1. \A lot \in lots : lot.supplier \in Suppliers
  BY DEF TypeOK, SupplyTypeOK, Lots
<1>2. (\A s \in Suppliers : \A lot \in LotsOf(lots, s) : lot.arrival > round)
        <=> (\A lot \in lots : lot.arrival > round)
  BY <1>1 DEF LotsOf
<1> QED
  BY <1>2 DEF RecordsAgreeWithLots, Settled, Agree, LateOf

(* The lots of a supplier in a finite pool are finitely many.              *)
LEMMA Countable ==
  ASSUME NEW pool, IsFiniteSet(pool), NEW s
  PROVE  /\ IsFiniteSet(LotsOf(pool, s)) /\ Cardinality(LotsOf(pool, s)) \in Nat
         /\ IsFiniteSet(LateOf(pool, s)) /\ Cardinality(LateOf(pool, s)) \in Nat
<1>1. LotsOf(pool, s) \in SUBSET pool /\ LateOf(pool, s) \in SUBSET pool
  BY DEF LotsOf, LateOf
<1> QED
  BY <1>1, FS_Subset, FS_CardinalityType

(* An order adds a lot to the transit and one to the orders placed.        *)
LEMMA OrderAgrees ==
  ASSUME TypeOK, LotsTracked, NEW offer \in Offers, Supply(PlaceOrder(offer)),
         NEW s \in Suppliers, Agree(record[s], lots, s)
  PROVE  Agree(record'[s], lots', s)
<1> DEFINE lot == [id |-> <<round, lines>>, supplier |-> offer.supplier, part |-> offer.part,
                   quantity |-> offer.quantity, promised |-> PromisedRound(offer),
                   arrival |-> PromisedRound(offer)]
<1>1. /\ lots' = lots \union {lot} /\ phase = "order"
      /\ record' = [record EXCEPT ![offer.supplier].placed = @ + 1]
  BY DEF Supply, PlaceOrder
<1>2. offer.supplier \in Suppliers /\ offer.lead \in Nat /\ round \in Nat /\ lines \in Nat
  BY OfferAssumption DEF TypeOK
<1>3. /\ lot.supplier = offer.supplier /\ lot.promised = lot.arrival /\ lot.arrival \in Nat
      /\ lot.id = <<round, lines>>
  BY <1>2 DEF PromisedRound
<1> HIDE DEF lot
<1>4. lot \notin lots
  <2> SUFFICES ASSUME lot \in lots PROVE FALSE
    OBVIOUS
  <2>1. lot.id[1] = round /\ lot.id[2] = lines
    BY <1>3
  <2> QED
    BY <1>1, <1>2, <2>1 DEF LotsTracked
<1>5. LateOf(lots', s) = LateOf(lots, s)
  BY <1>1, <1>3 DEF LateOf, LotsOf
<1>6. record[s] \in Records /\ record \in [Suppliers -> Records]
  BY DEF TypeOK, SupplyTypeOK
<1>7. CASE s = offer.supplier
  <2>1. LotsOf(lots', s) = LotsOf(lots, s) \union {lot} /\ lot \notin LotsOf(lots, s)
    BY <1>1, <1>3, <1>4, <1>7 DEF LotsOf
  <2>2. Cardinality(LotsOf(lots', s)) = Cardinality(LotsOf(lots, s)) + 1
    BY <2>1, Countable, FS_AddElement DEF LotsTracked
  <2>3. /\ record'[s].placed = record[s].placed + 1
        /\ record'[s].received = record[s].received /\ record'[s].late = record[s].late
    BY <1>1, <1>2, <1>6, <1>7 DEF Records
  <2>4. /\ Cardinality(LotsOf(lots, s)) \in Nat /\ Cardinality(LotsOf(OpeningLots, s)) \in Nat
    BY Countable, OpeningAssumption DEF LotsTracked
  <2>5. record[s].placed \in Nat /\ record[s].received \in Nat
    BY <1>6 DEF Records
  <2>6. Cardinality(LotsOf(OpeningLots, s)) + record'[s].placed
          = record'[s].received + Cardinality(LotsOf(lots', s))
    BY <2>2, <2>3, <2>4, <2>5 DEF Agree
  <2> QED
    BY <1>5, <2>3, <2>6 DEF Agree
<1>8. CASE s # offer.supplier
  <2>1. LotsOf(lots', s) = LotsOf(lots, s)
    BY <1>1, <1>3, <1>8 DEF LotsOf
  <2>2. record'[s] = record[s]
    BY <1>1, <1>2, <1>6, <1>8
  <2> QED
    BY <1>5, <2>1, <2>2 DEF Agree
<1> QED
  BY <1>7, <1>8

(* The judgement charges a supplier with as many late deliveries as lots   *)
(* of his slip.                                                            *)
LEMMA JudgeAgrees ==
  ASSUME TypeOK, LotsTracked, NEW slipping \in SUBSET lots, Supply(JudgeLots(slipping)),
         NEW s \in Suppliers, Agree(record[s], lots, s)
  PROVE  Agree(record'[s], lots', s)
<1>0. IsFiniteSet(lots) /\ IsFiniteSet(slipping)
  BY FS_Subset DEF LotsTracked
<1>1. /\ lots' = {Judged(lot, slipping) : lot \in lots}
      /\ \A a, b \in lots : Judged(a, slipping) = Judged(b, slipping) => a = b
      /\ \A lot \in lots : Judged(lot, slipping).supplier = lot.supplier
      /\ \A lot \in slipping : /\ lot.arrival = lot.promised
                               /\ Slipped(lot).arrival > Slipped(lot).promised
  BY FatesDiffer
<1>2. Cardinality(LotsOf(lots', s)) = Cardinality(LotsOf(lots, s))
  <2> DEFINE f == [lot \in LotsOf(lots, s) |-> Judged(lot, slipping)]
  <2>1. /\ f \in [LotsOf(lots, s) -> LotsOf(lots', s)]
        /\ \A x, y \in LotsOf(lots, s) : f[x] = f[y] => x = y
        /\ \A z \in LotsOf(lots', s) : \E x \in LotsOf(lots, s) : f[x] = z
    BY <1>1 DEF LotsOf
  <2> HIDE DEF f
  <2> QED
    BY <1>0, <2>1, Countable, PairedOff
<1> DEFINE late == {Slipped(lot) : lot \in LotsOf(slipping, s)}
<1>3. late = {Judged(lot, slipping) : lot \in LotsOf(slipping, s)}
  BY DEF Judged, LotsOf
<1>4. IsFiniteSet(late) /\ Cardinality(late) = Cardinality(LotsOf(slipping, s))
  <2> DEFINE f == [lot \in LotsOf(slipping, s) |-> Judged(lot, slipping)]
  <2>1. LotsOf(slipping, s) \subseteq lots
    BY DEF LotsOf
  <2>2. /\ f \in [LotsOf(slipping, s) -> late]
        /\ \A x, y \in LotsOf(slipping, s) : f[x] = f[y] => x = y
        /\ \A z \in late : \E x \in LotsOf(slipping, s) : f[x] = z
    BY <1>1, <1>3, <2>1
  <2> HIDE DEF f, late
  <2> QED
    BY <1>0, <2>2, Countable, PairedOff
<1>5. /\ LateOf(lots', s) = LateOf(lots, s) \union late
      /\ LateOf(lots, s) \intersect late = {}
  <2>1. \A lot \in lots : lot \in Lots /\ lot.arrival \in Nat /\ lot.promised \in Nat
    BY DEF TypeOK, SupplyTypeOK, Lots
  <2>2. \A lot \in slipping : lot \notin LateOf(lots, s)
    BY <1>1, <2>1 DEF LateOf, LotsOf
  <2>3. ASSUME NEW z \in LateOf(lots', s) PROVE z \in LateOf(lots, s) \union late
    <3>1. PICK lot \in lots : z = Judged(lot, slipping)
      BY <1>1 DEF LateOf, LotsOf
    <3>2. lot.supplier = s
      BY <1>1, <3>1 DEF LateOf, LotsOf
    <3>3. CASE lot \in slipping
      BY <3>1, <3>2, <3>3 DEF Judged, LotsOf
    <3>4. CASE lot \notin slipping
      <4>1. z = lot
        BY <3>1, <3>4 DEF Judged
      <4> QED
        BY <4>1 DEF LateOf, LotsOf
    <3> QED
      BY <3>3, <3>4
  <2>4. ASSUME NEW z \in LateOf(lots, s) PROVE z \in LateOf(lots', s)
    <3>1. z \in lots /\ z \notin slipping
      BY <2>2 DEF LateOf, LotsOf
    <3>2. Judged(z, slipping) = z
      BY <3>1 DEF Judged
    <3>3. z \in lots'
      BY <1>1, <3>1, <3>2
    <3> QED
      BY <3>3 DEF LateOf, LotsOf
  <2>5. ASSUME NEW z \in late PROVE z \in LateOf(lots', s) /\ z \notin LateOf(lots, s)
    <3>1. PICK lot \in slipping : z = Slipped(lot) /\ lot.supplier = s
      BY DEF LotsOf
    <3>2. Judged(lot, slipping) = z /\ lot \in lots
      BY <3>1 DEF Judged
    <3>3. z \in lots' /\ z.supplier = s /\ z.arrival > z.promised
      BY <1>1, <3>1, <3>2
    <3>4. z \notin lots
      <4> SUFFICES ASSUME z \in lots PROVE FALSE
        OBVIOUS
      <4>1. Slipped(z) = Slipped(lot)
        BY <3>2, FatesDiffer
      <4>2. z = lot
        BY <3>2, <4>1 DEF LotsTracked
      <4>3. z.arrival = z.promised /\ z.promised \in Nat
        BY <1>1, <2>1, <4>2
      <4> QED
        BY <3>3, <4>3
    <3> QED
      BY <3>3, <3>4 DEF LateOf, LotsOf
  <2> HIDE DEF late
  <2> QED
    BY <2>3, <2>4, <2>5
<1> HIDE DEF late
<1>6. Cardinality(LateOf(lots', s)) = Cardinality(LateOf(lots, s)) + Cardinality(LotsOf(slipping, s))
  <2>1. Cardinality(LateOf(lots, s)) \in Nat /\ IsFiniteSet(LateOf(lots, s))
        /\ Cardinality(LotsOf(slipping, s)) \in Nat
    BY <1>0, Countable
  <2>2. Cardinality(LateOf(lots', s)) = Cardinality(LateOf(lots, s)) + Cardinality(late)
                                        - Cardinality(LateOf(lots, s) \intersect late)
    BY <1>4, <1>5, <2>1, FS_Union
  <2>3. Cardinality(LateOf(lots, s) \intersect late) = 0
    BY <1>5, FS_EmptySet
  <2> QED
    BY <1>4, <2>1, <2>2, <2>3
<1>7. record[s] \in Records /\ Cardinality(LotsOf(slipping, s)) \in Nat
  BY <1>0, Countable DEF TypeOK, SupplyTypeOK
<1>8. /\ record'[s].placed = record[s].placed /\ record'[s].received = record[s].received
      /\ record'[s].late = record[s].late + Cardinality(LotsOf(slipping, s))
  <2>1. record'[s] = Delayed(record[s], Cardinality(LotsOf(slipping, s)))
    BY DEF Supply, JudgeLots
  <2>2. \A r \in Records, n \in Nat :
          /\ Delayed(r, n).late = r.late + n /\ Delayed(r, n).placed = r.placed
          /\ Delayed(r, n).received = r.received
    BY RecordKept
  <2> QED
    BY ONLY <1>7, <2>1, <2>2
<1>9. /\ record[s].late \in Nat /\ record[s].received \in Nat
      /\ Cardinality(LateOf(lots, s)) \in Nat
  BY <1>0, <1>7, Countable DEF Records
<1>10. /\ Cardinality(LateOf(lots', s)) <= record'[s].late
       /\ record'[s].late <= Cardinality(LateOf(lots', s)) + record'[s].received
  <2>1. /\ Cardinality(LateOf(lots, s)) <= record[s].late
        /\ record[s].late <= Cardinality(LateOf(lots, s)) + record[s].received
    BY DEF Agree
  <2> QED
    BY ONLY <1>6, <1>7, <1>8, <1>9, <2>1
<1> QED
  BY <1>2, <1>8, <1>10 DEF Agree

(* A receipt takes a lot out of the transit, late or not.                  *)
LEMMA ReceiptAgrees ==
  ASSUME TypeOK, LotsTracked, NEW lot \in lots, ReceiveLot(lot),
         NEW s \in Suppliers, Agree(record[s], lots, s)
  PROVE  Agree(record'[s], lots', s)
<1>0. IsFiniteSet(lots)
  BY DEF LotsTracked
<1>1. /\ lots' = lots \ {lot}
      /\ record' = [record EXCEPT ![lot.supplier] = Received(@, OnTimePct[lot.supplier])]
  BY DEF ReceiveLot, ShelveLot
<1>2. /\ lot.supplier \in Suppliers /\ record \in [Suppliers -> Records]
      /\ OnTimePct[lot.supplier] \in 0 .. 100
  BY SupplierAssumption DEF TypeOK, SupplyTypeOK, Lots
<1>3. CASE s # lot.supplier
  <2>1. LotsOf(lots', s) = LotsOf(lots, s) /\ LateOf(lots', s) = LateOf(lots, s)
    BY <1>1, <1>3 DEF LotsOf, LateOf
  <2>2. record'[s] = record[s]
    BY <1>1, <1>2, <1>3
  <2> QED
    BY <2>1, <2>2 DEF Agree
<1>4. CASE s = lot.supplier
  <2>1. /\ record'[s].placed = record[s].placed /\ record'[s].late = record[s].late
        /\ record'[s].received = record[s].received + 1
    <3>1. record'[s] = Received(record[s], OnTimePct[s])
      BY <1>1, <1>2, <1>4
    <3>2. record[s] \in Records /\ OnTimePct[s] \in 0 .. 100
      BY <1>2, <1>4
    <3>3. \A r \in Records, pct \in 0 .. 100 :
            /\ Received(r, pct).late = r.late /\ Received(r, pct).placed = r.placed
            /\ Received(r, pct).received = r.received + 1
      BY RecordKept
    <3> QED
      BY ONLY <3>1, <3>2, <3>3
  <2>2. LotsOf(lots', s) = LotsOf(lots, s) \ {lot} /\ lot \in LotsOf(lots, s)
    BY <1>1, <1>4 DEF LotsOf
  <2>3. Cardinality(LotsOf(lots', s)) = Cardinality(LotsOf(lots, s)) - 1
    BY <1>0, <2>2, Countable, FS_RemoveElement
  <2>4. LateOf(lots', s) = LateOf(lots, s) \ {lot}
    BY <1>1 DEF LotsOf, LateOf
  <2>5. Cardinality(LateOf(lots', s)) \in {Cardinality(LateOf(lots, s)),
                                            Cardinality(LateOf(lots, s)) - 1}
    BY <1>0, <2>4, Countable, FS_RemoveElement
  <2>6. /\ Cardinality(LotsOf(lots, s)) \in Nat /\ Cardinality(LateOf(lots, s)) \in Nat
        /\ Cardinality(LotsOf(OpeningLots, s)) \in Nat
    BY <1>0, Countable, OpeningAssumption
  <2>7. record[s].placed \in Nat /\ record[s].late \in Nat /\ record[s].received \in Nat
    BY <1>2 DEF Records
  <2>8. /\ Cardinality(LotsOf(OpeningLots, s)) + record[s].placed
             = record[s].received + Cardinality(LotsOf(lots, s))
        /\ Cardinality(LateOf(lots, s)) <= record[s].late
        /\ record[s].late <= Cardinality(LateOf(lots, s)) + record[s].received
    BY DEF Agree
  <2>9. Cardinality(LotsOf(OpeningLots, s)) + record'[s].placed
          = record'[s].received + Cardinality(LotsOf(lots', s))
    BY ONLY <2>1, <2>3, <2>6, <2>7, <2>8
  <2>10. /\ Cardinality(LateOf(lots', s)) <= record'[s].late
         /\ record'[s].late <= Cardinality(LateOf(lots', s)) + record'[s].received
    BY ONLY <2>1, <2>5, <2>6, <2>7, <2>8
  <2> QED
    BY <2>9, <2>10 DEF Agree
<1> QED
  BY <1>3, <1>4

(* Every step keeps the records in agreement with the lots.                *)
LEMMA RecordsPreserved ==
  ASSUME TypeOK, TypeOK', LotsTracked, RecordsAgreeWithLots, [Next]_vars
  PROVE  RecordsAgreeWithLots'
<1>1. Settled /\ \A s \in Suppliers : Agree(record[s], lots, s)
  BY RecordsSplit
<1>2. \A lot \in lots : lot.promised \in Nat /\ lot.arrival \in Nat
  BY DEF TypeOK, SupplyTypeOK, Lots
<1> DEFINE Goal == Settled' /\ \A s \in Suppliers : Agree(record'[s], lots', s)
<1> SUFFICES Goal
  <2>1. RecordsAgreeWithLots' <=> (Settled /\ \A s \in Suppliers : Agree(record[s], lots, s))'
    BY RecordsSplit, PTL
  <2>2. (\A s \in Suppliers : Agree(record[s], lots, s))'
          <=> (\A s \in Suppliers : Agree(record'[s], lots', s))
    BY DEF Agree, LateOf, LotsOf
  <2> QED
    BY <2>1, <2>2
<1>3. ASSUME NEW offer \in Offers, Supply(PlaceOrder(offer)) PROVE Goal
  BY <1>1, <1>3, OrderAgrees DEF Supply, PlaceOrder, Settled
<1>4. ASSUME NEW slipping \in SUBSET lots, Supply(JudgeLots(slipping)) PROVE Goal
  BY <1>1, <1>4, JudgeAgrees DEF Supply, JudgeLots, Settled
<1>5. ASSUME NEW lot \in lots, ReceiveLot(lot) PROVE Goal
  BY <1>1, <1>5, ReceiptAgrees DEF ReceiveLot, ShelveLot, Settled
<1>6. ASSUME UNCHANGED <<lots, record>>, Settled' PROVE Goal
  BY <1>1, <1>6
<1>7. CASE Supply(EndOrders)
  BY <1>6, <1>7 DEF Supply, EndOrders, supplyVars, Settled
<1>8. CASE Supply(EndReceipt)
  <2>1. Arrivals = {} /\ lots' = lots /\ record' = record /\ round' = round
    BY <1>8 DEF Supply, EndReceipt, supplyVars
  <2>2. ASSUME NEW lot \in lots PROVE lot.arrival > round
    <3>1. ~(lot.promised <= round /\ lot.arrival <= round) /\ lot.promised <= lot.arrival
      BY <2>1 DEF Arrivals, LotsTracked
    <3>2. round \in Nat
      BY DEF TypeOK
    <3> QED
      BY <1>2, <3>1, <3>2
  <2> QED
    BY <1>6, <2>1, <2>2 DEF Settled
<1>9. CASE SkipProduction \/ EndProduction
  <2>1. /\ UNCHANGED <<lots, record, round>>
        /\ phase \notin {"order", "judge", "shelve"}
    BY <1>9 DEF SkipProduction, EndProduction, supplyVars
  <2> QED
    BY <1>1, <1>6, <2>1 DEF Settled
<1>10. ASSUME NEW choice \in OvertimeChoices, BeginAllocation(choice) PROVE Goal
  <2>1. /\ UNCHANGED <<lots, record, round>> /\ phase = "release"
    BY <1>10 DEF BeginAllocation, supplyVars
  <2> QED
    BY <1>1, <1>6, <2>1 DEF Settled
<1>11. CASE NextRound
  BY <1>6, <1>11 DEF NextRound, Enter, supplyVars, Settled
<1>12. CASE \/ UNCHANGED vars
            \/ \E line \in ReleaseLines : Release(line)
            \/ \E line \in AllocationLines, money \in Affordable : Allocate(line, money)
  <2>1. UNCHANGED <<lots, record, round, phase>>
    BY <1>12 DEF Release, Allocate, supplyVars, vars
  <2> QED
    BY <1>1, <1>6, <2>1 DEF Settled
<1> HIDE DEF Goal
<1> QED
  BY <1>3, <1>4, <1>5, <1>7, <1>8, <1>9, <1>10, <1>11, <1>12 DEF Next, Horizon


-----------------------------------------------------------------------------
(* The theorems.                                                           *)

(* The opening of a scenario satisfies the invariant.                      *)
LEMMA Opens == Init => IInv
<1> SUFFICES ASSUME Init PROVE IInv
  OBVIOUS
<1>1. \A s \in Suppliers : OnTimePct[s] \in 0 .. 100
  BY SupplierAssumption
<1>2. record \in [Suppliers -> Records] /\ lots = OpeningLots /\ shelved = [p \in Parts |-> 0]
  BY <1>1 DEF Init, SupplyInit, Records
<1>3. TypeOK
  <2>1. floor \in [Stations -> Usage]
    BY Plant DEF Init, Idle, Usage
  <2>2. overtime \in [Stations -> [asked : Nat, left : Nat]]
    BY DEF Init, NoOvertime
  <2> QED
    BY <1>2, <2>1, <2>2, OpeningAssumption, InputAssumption
       DEF Init, TypeOK, SupplyTypeOK
<1>4. LotsTracked
  <2>1. \A lot \in lots : lot \in Lots /\ lot.arrival = lot.promised /\ lot.id[1] = 0
    BY <1>2, OpeningAssumption
  <2>2. ASSUME NEW a \in lots, NEW b \in lots, Slipped(a) = Slipped(b) PROVE a = b
    <3>1. /\ a.id = b.id /\ a.supplier = b.supplier /\ a.part = b.part
          /\ a.quantity = b.quantity /\ a.promised = b.promised
      BY <2>1, <2>2, SlippedLot
    <3>2. a.arrival = b.arrival
      BY <2>1, <3>1
    <3> QED
      BY <2>1, <3>1, <3>2 DEF Lots
  <2>3. \A lot \in lots : lot.promised <= lot.arrival
    BY <2>1 DEF Lots
  <2> QED
    BY <1>2, <2>1, <2>2, <2>3, OpeningAssumption DEF Init, LotsTracked
<1>5. RecordsAgreeWithLots
  <2>1. ASSUME NEW s \in Suppliers PROVE Agree(record[s], lots, s)
    <3>1. record[s].placed = 0 /\ record[s].received = 0 /\ record[s].late = 0
      BY DEF Init, SupplyInit
    <3>2. LateOf(lots, s) = {}
      BY <1>2, OpeningAssumption DEF LateOf, LotsOf, Lots
    <3>3. Cardinality(LotsOf(lots, s)) \in Nat
      BY <1>2, OpeningAssumption, Countable
    <3>4. Cardinality(LateOf(lots, s)) = 0
      BY <3>2, FS_EmptySet
    <3> QED
      BY <1>2, <3>1, <3>3, <3>4 DEF Agree
  <2> QED
    BY <1>3, <2>1, RecordsSplit DEF Init, Settled
<1>6. CapacityRespected /\ OpensIdle
  <2>1. floor = Idle /\ overtime = NoOvertime
    BY DEF Init
  <2>2. ASSUME NEW s \in Stations
        PROVE  /\ floor[s].used <= Capacity[s]
               /\ floor[s].labor + floor[s].overtime = floor[s].used
               /\ floor[s].labor <= BaseLabor(s)
               /\ floor[s].overtime + overtime[s].left = overtime[s].asked
               /\ floor[s].overtime > 0 => floor[s].labor = BaseLabor(s)
    <3>1. overtime[s].left = 0 /\ overtime[s].asked = 0
      BY <2>1 DEF NoOvertime
    <3> QED
      BY <2>1, <3>1, IdleRespects
  <2> QED
    BY <2>1, <2>2 DEF CapacityRespected, OpensIdle
<1>7. MaterialConserved
  <2>1. ASSUME NEW p \in Products PROVE Released(p) = 0
    <3>1. InProgress(p) = OpeningUnits(p) /\ LeftFloor(p) = 0
      BY DEF Init, InProgress, OpeningUnits, LeftFloor
    <3>2. OpeningUnits(p) \in Nat
      BY <1>3, ProgressTyped
    <3> QED
      BY <3>1, <3>2 DEF Released
  <2>2. ASSUME NEW m \in Parts
        PROVE  SumFunction([p \in Products |-> BOM[p][m] * Released(p)]) = 0
    <3> DEFINE w == [p \in Products |-> BOM[p][m] * Released(p)]
    <3>1. \A p \in Products : BOM[p][m] * Released(p) = 0
      BY <2>1, Plant
    <3>2. w \in [Products -> {0}]
      BY <3>1
    <3> HIDE DEF w
    <3>3. SumFunction(w) = 0
      BY <3>2, Plant, SumZero
    <3> QED
      BY <3>3 DEF w
  <2>3. ASSUME NEW m \in Parts
        PROVE  OpeningParts[m] + shelved[m]
                 = parts[m] + SumFunction([p \in Products |-> BOM[p][m] * Released(p)])
    <3>1. shelved[m] = 0 /\ parts[m] = OpeningParts[m] /\ OpeningParts[m] \in Nat
      BY <1>2, InputAssumption DEF Init, Quantities
    <3> QED
      BY <2>2, <3>1
  <2> QED
    BY <2>3 DEF MaterialConserved
<1> QED
  BY <1>3, <1>4, <1>5, <1>6, <1>7 DEF Init, IInv, SupplyInv, FloorInv

(* The rounds are numbered from one.                                       *)
LEMMA RoundPositive == TypeOK /\ round > 0 /\ [Next]_vars => round' > 0
<1> SUFFICES ASSUME TypeOK, round > 0, [Next]_vars PROVE round' > 0
  OBVIOUS
<1>1. round' \in {round, round + 1}
  BY DEF Next, Supply, PlaceOrder, EndOrders, JudgeLots, ReceiveLot, ShelveLot, EndReceipt,
         SkipProduction, Release, BeginAllocation, Allocate, EndProduction, NextRound, Horizon,
         vars
<1> QED
  BY <1>1 DEF TypeOK

(* The invariant holds at the opening and every step keeps it.             *)
THEOREM Inductive == Spec => []IInv
<1>1. Init => IInv
  BY Opens
<1>2. IInv /\ [Next]_vars => IInv'
  <2> SUFFICES ASSUME IInv, [Next]_vars PROVE IInv'
    OBVIOUS
  <2>1. /\ TypeOK /\ round > 0 /\ LotsTracked /\ RecordsAgreeWithLots /\ OpensIdle
        /\ CapacityRespected /\ MaterialConserved
    BY DEF IInv, SupplyInv, FloorInv
  <2>2. TypeOK'
    BY <2>1, TypePreserved DEF LotsTracked
  <2>3. round' > 0
    BY <2>1, RoundPositive
  <2>4. LotsTracked'
    BY <2>1, TrackPreserved
  <2>5. RecordsAgreeWithLots'
    BY <2>1, <2>2, RecordsPreserved
  <2>6. OpensIdle' /\ CapacityRespected'
    BY <2>1, CapacityPreserved
  <2>7. MaterialConserved'
    BY <2>1, <2>2, MaterialPreserved
  <2> QED
    BY <2>2, <2>3, <2>4, <2>5, <2>6, <2>7 DEF IInv, SupplyInv, FloorInv
<1> QED
  BY <1>1, <1>2, PTL DEF Spec

(* Every variable has its type in every state; in particular no release    *)
(* and no advance drives a stock below zero (resolveProduction).           *)
THEOREM TypeCorrect == Spec => []TypeOK
<1>1. IInv => TypeOK
  BY DEF IInv
<1> QED
  BY <1>1, Inductive, PTL

(* A supplier's record agrees with the lots in transit, over any number of *)
(* rounds, orders, slips and receipts (receiveSupply).                     *)
THEOREM RecordsAlwaysAgree == Spec => []RecordsAgreeWithLots
<1>1. IInv => RecordsAgreeWithLots
  BY DEF IInv, SupplyInv
<1> QED
  BY <1>1, Inductive, PTL

(* However many allocations a round makes at a station, they stay within   *)
(* its capacity, its labour and the overtime granted (resolveProduction).  *)
THEOREM CapacityAlwaysRespected == Spec => []CapacityRespected
<1>1. IInv => CapacityRespected
  BY DEF IInv, FloorInv
<1> QED
  BY <1>1, Inductive, PTL

(* Every part received is on the shelf, in progress, or in a unit that has *)
(* left the floor: no release, move, rework, scrap or hold makes a part or *)
(* loses one (resolveProduction, completeFinishedUnits).                   *)
THEOREM MaterialAlwaysConserved == Spec => []MaterialConserved
<1>1. IInv => MaterialConserved
  BY DEF IInv
<1> QED
  BY <1>1, Inductive, PTL

(* A station whose congestion has eaten all of its capacity never clears   *)
(* (stressedCapacity).                                                     *)
THEOREM JamsForever == Spec => JamIsPermanent
<1>1. IInv /\ [Next]_vars => [\A s \in Stations : Jammed(s) => WIPAt(s)' >= WIPAt(s)]_vars
  BY JamKept DEF IInv, FloorInv
<1> QED
  BY <1>1, Inductive, PTL DEF Spec, JamIsPermanent

=============================================================================
