----------------------------- MODULE PlantFloor -----------------------------
(***************************************************************************)
(* The shop floor of the round resolver (internal/engine/resolver.go):     *)
(* parts, work in progress at the workstations, and the capacity, labour   *)
(* and congestion that limit how far an allocation advances                *)
(* (resolveProduction, completeFinishedUnits and their helpers).           *)
(*                                                                         *)
(* Every release line and every capacity allocation is one step, in the    *)
(* order of the submission.  The round begins with the orders and receipts *)
(* of SupplyChain, whose lots fill the shelf that releases empty; how far  *)
(* money reaches (CashLedger) is an input, and so is the outcome of the    *)
(* quality inspection, which the code draws at random.                     *)
(*                                                                         *)
(* A definition marked "Mutant" is a deliberately wrong variant of the one *)
(* that follows it; no specification uses it.                              *)
(***************************************************************************)
EXTENDS SupplyChain, Sequences, Functions

CONSTANTS
  Products,
  Stations,          \* 1 .. N in the order of PlantState.Workstations
  BOM,               \* BOM[product][part]: units of the part in one product
  Route,             \* Route[product]: the stations it visits, in order
  Capacity,          \* CapacityPerRound of each station
  Labor,             \* LaborCapacityPerRound; 0 means the capacity
  StressBuffer, StressPenalty,
  OpeningParts, OpeningWIP,
  OvertimeChoices,   \* [station -> units] a production manager may ask for
  ReleaseLines,      \* [product, quantity]
  AllocationLines,   \* [product, station, capacity]
  Affordable,        \* units that money may allow an allocation
  MaxLines,          \* bound: release lines, and allocations, of a round
  MaxRound           \* bound: rounds of the match

Quantities(S) == [S -> Nat]

ASSUME FloorAssumption ==
  /\ IsFiniteSet(Products) /\ IsFiniteSet(Stations)
  /\ Stations = 1 .. Cardinality(Stations) /\ Stations # {}
  /\ BOM \in [Products -> Quantities(Parts)]
  /\ \A p \in Products : \E m \in Parts : BOM[p][m] > 0
  /\ Route \in [Products -> Seq(Stations)]
  /\ \A p \in Products : IsInjective(Route[p])

ASSUME CapacityAssumption ==
  /\ Capacity \in Quantities(Stations) /\ Labor \in Quantities(Stations)
  /\ StressBuffer \in Quantities(Stations) /\ StressPenalty \in Quantities(Stations)

ASSUME InputAssumption ==
  /\ OpeningParts \in Quantities(Parts)
  /\ OpeningWIP \in [Products -> Quantities(Stations)]
  /\ OvertimeChoices \subseteq Quantities(Stations)
  /\ ReleaseLines \subseteq [product : Products, quantity : Nat \ {0}]
  /\ AllocationLines \subseteq [product : Products, station : Stations,
                                capacity : Nat \ {0}]
  /\ Affordable \subseteq Nat
  /\ MaxLines \in Nat /\ MaxRound \in Nat

VARIABLES
  parts,      \* PlantState.PartsInventory
  wip,        \* PlantState.WIPInventory, by product and station
  floor,      \* WorkstationState: usage and effective capacity of each station
  overtime,   \* overtimeRequests: granted and left, for each station
  output      \* units of each product that left the floor, by outcome

floorVars == <<parts, wip, floor, overtime, output>>
vars == <<round, phase, lines, supplyVars, floorVars>>

Usage == [used : Nat, labor : Nat, overtime : Nat, effective : Nat]
Idle == [s \in Stations |->
          [used |-> 0, labor |-> 0, overtime |-> 0, effective |-> Capacity[s]]]
NoOvertime == [s \in Stations |-> [asked |-> 0, left |-> 0]]

Init ==
  /\ round = 1 /\ phase = "order" /\ lines = 0
  /\ SupplyInit
  /\ parts = OpeningParts
  /\ wip = OpeningWIP
  /\ floor = Idle
  /\ overtime = NoOvertime
  /\ output = [p \in Products |-> [good |-> 0, held |-> 0, scrapped |-> 0]]

Enter(next) == phase' = next /\ lines' = 0
TakeLine == lines < MaxLines /\ lines' = lines + 1

-----------------------------------------------------------------------------
(* Receipts, releases.                                                     *)

(* orders and the judgement of the lots leave the floor alone              *)
Supply(step) == step /\ UNCHANGED floorVars

ReceiveLot(lot) ==
  /\ ShelveLot(lot)
  /\ parts' = [parts EXCEPT ![lot.part] = @ + lot.quantity]
  /\ UNCHANGED <<wip, floor, overtime, output>>

(* the production manager's action may be missing from the round           *)
SkipProduction ==
  /\ phase = "release" /\ lines = 0
  /\ Enter("closed")
  /\ UNCHANGED <<round, supplyVars, parts, wip, floor, overtime, output>>

(* Mutant: only the part with the most stock limits the release.           *)
MaxBuildableOfAnyPart(p) ==
  Max({parts[m] \div BOM[p][m] : m \in {n \in Parts : BOM[p][n] > 0}})

(* the scarcest part of the bill of materials limits the release           *)
MaxBuildable(p) ==
  Min({parts[m] \div BOM[p][m] : m \in {n \in Parts : BOM[p][n] > 0}})

(* released work always enters at the first workstation of the plant       *)
Release(line) ==
  LET p == line.product
      allowed == Min({line.quantity, MaxBuildable(p)})
  IN  /\ phase = "release" /\ TakeLine
      /\ parts' = [m \in Parts |-> parts[m] - BOM[p][m] * allowed]
      /\ wip' = [wip EXCEPT ![p][1] = @ + allowed]
      /\ UNCHANGED <<round, phase, supplyVars, floor, overtime, output>>

BeginAllocation(choice) ==
  /\ phase = "release"
  /\ overtime' = [s \in Stations |-> [asked |-> choice[s], left |-> choice[s]]]
  /\ Enter("allocate")
  /\ UNCHANGED <<round, supplyVars, parts, wip, floor, output>>

-----------------------------------------------------------------------------
(* Capacity, congestion and labour.                                        *)

WIPAt(s) == SumFunction([p \in Products |-> wip[p][s]])

Loss(s) == Max({0, WIPAt(s) - Capacity[s] - StressBuffer[s]}) * StressPenalty[s]

(* Mutant: the penalty stops short of closing the station.                 *)
StressedCapacityNeverCloses(s) ==
  Max({Min({1, Capacity[s]}), Capacity[s] - Loss(s)})

(* congestion beyond the buffer takes capacity away, down to nothing       *)
StressedCapacity(s) == Max({0, Capacity[s] - Loss(s)})

BaseLabor(s) == IF Labor[s] <= 0 THEN Capacity[s] ELSE Labor[s]
BaseLaborLeft(s) == Max({0, BaseLabor(s) - floor[s].labor})

(* Mutant: the capacity used by earlier allocations is not taken off.      *)
AdvanceIgnoresUse(line, money) ==
  LET s == line.station
  IN  Max({0, Min({line.capacity, money, StressedCapacity(s),
                   wip[line.product][s], BaseLaborLeft(s) + overtime[s].left})})

Advance(line, money) ==
  LET s == line.station
  IN  Max({0, Min({line.capacity, money, StressedCapacity(s) - floor[s].used,
                   wip[line.product][s], BaseLaborLeft(s) + overtime[s].left})})

(* consumeLaborCapacity: base labour first, overtime for the rest          *)
OvertimeUsed(s, n) == Min({Max({0, n - BaseLaborLeft(s)}), overtime[s].left})

Charged(s, n) ==
  [used |-> floor[s].used + n,
   labor |-> floor[s].labor + (n - OvertimeUsed(s, n)),
   overtime |-> floor[s].overtime + OvertimeUsed(s, n),
   effective |-> StressedCapacity(s)]

-----------------------------------------------------------------------------
(* Where advanced work goes.                                               *)

FinishesAt(p, s) == Route[p] # << >> /\ s = Route[p][Len(Route[p])]

MoveOn(p, s, n) ==
  \E i \in 1 .. Len(Route[p]) - 1 :
    /\ Route[p][i] = s
    /\ wip' = [wip EXCEPT ![p][s] = @ - n, ![p][Route[p][i + 1]] = @ + n]
    /\ UNCHANGED output

Inspections(n) ==
  {o \in [scrapped : 0 .. n, rework : 0 .. n, held : 0 .. n] :
     o.scrapped + o.rework + o.held <= n}

(* Mutant: units sent back for rework are counted as good as well.         *)
InspectReworkTwice(p, s, n) ==
  \E o \in Inspections(n) :
    /\ FinishesAt(p, s)
    /\ wip' = [wip EXCEPT ![p][s] = @ - n + o.rework]
    /\ output' = [output EXCEPT
         ![p].good = @ + (n - o.scrapped - o.held),
         ![p].held = @ + o.held,
         ![p].scrapped = @ + o.scrapped]

(* completeFinishedUnits: scrap, rework at the same station, hold, good    *)
Inspect(p, s, n) ==
  \E o \in Inspections(n) :
    /\ FinishesAt(p, s)
    /\ wip' = [wip EXCEPT ![p][s] = @ - n + o.rework]
    /\ output' = [output EXCEPT
         ![p].good = @ + (n - o.scrapped - o.rework - o.held),
         ![p].held = @ + o.held,
         ![p].scrapped = @ + o.scrapped]

(* the route does not know the station: the work is put back               *)
StayPut(p, s) ==
  /\ s \notin Range(Route[p])
  /\ UNCHANGED <<wip, output>>

(* the station's congestion is measured even when nothing can advance      *)
Allocate(line, money) ==
  LET p == line.product
      s == line.station
      n == Advance(line, money)
  IN  /\ phase = "allocate" /\ TakeLine
      /\ floor' = [floor EXCEPT ![s] = Charged(s, n)]
      /\ overtime' = [overtime EXCEPT ![s].left = @ - OvertimeUsed(s, n)]
      /\ \/ n = 0 /\ UNCHANGED <<wip, output>>
         \/ n > 0 /\ (MoveOn(p, s, n) \/ Inspect(p, s, n) \/ StayPut(p, s))
      /\ UNCHANGED <<round, phase, supplyVars, parts>>

EndProduction ==
  /\ phase = "allocate"
  /\ Enter("closed")
  /\ UNCHANGED <<round, supplyVars, parts, wip, floor, overtime, output>>

(* resetCapacityUsage opens the next round with nominal capacity           *)
NextRound ==
  /\ phase = "closed" /\ round < MaxRound
  /\ round' = round + 1
  /\ Enter("order")
  /\ floor' = Idle /\ overtime' = NoOvertime
  /\ UNCHANGED <<supplyVars, parts, wip, output>>

(* the horizon of the model: the last round has been resolved              *)
Horizon == phase = "closed" /\ round = MaxRound /\ UNCHANGED vars

Next ==
  \/ \E offer \in Offers : Supply(PlaceOrder(offer))
  \/ Supply(EndOrders)
  \/ \E slipping \in SUBSET lots : Supply(JudgeLots(slipping))
  \/ \E lot \in lots : ReceiveLot(lot)
  \/ Supply(EndReceipt)
  \/ SkipProduction
  \/ \E line \in ReleaseLines : Release(line)
  \/ \E choice \in OvertimeChoices : BeginAllocation(choice)
  \/ \E line \in AllocationLines, money \in Affordable : Allocate(line, money)
  \/ EndProduction
  \/ NextRound
  \/ Horizon

Spec == Init /\ [][Next]_vars

-----------------------------------------------------------------------------
(* Properties.                                                             *)

(* Every variable has its type; that parts and work in progress are        *)
(* natural numbers is PF-1: no release or advance drives a stock negative. *)
TypeOK ==
  /\ round \in Nat /\ lines \in Nat
  /\ phase \in {"order", "judge", "shelve", "release", "allocate", "closed"}
  /\ SupplyTypeOK
  /\ parts \in Quantities(Parts)
  /\ wip \in [Products -> Quantities(Stations)]
  /\ floor \in [Stations -> Usage]
  /\ overtime \in [Stations -> [asked : Nat, left : Nat]]
  /\ output \in [Products -> [good : Nat, held : Nat, scrapped : Nat]]

(* PF-7: every part ever received is on the shelf or in a unit that is in  *)
(* progress or has left the floor, through releases trimmed to the         *)
(* scarcest part, moves between stations, rework and scrap.                *)
InProgress(p) == SumFunction(wip[p])
OpeningUnits(p) == SumFunction(OpeningWIP[p])
LeftFloor(p) == output[p].good + output[p].held + output[p].scrapped
Released(p) == InProgress(p) + LeftFloor(p) - OpeningUnits(p)

MaterialConserved ==
  \A m \in Parts :
    OpeningParts[m] + shelved[m]
      = parts[m] + SumFunction([p \in Products |-> BOM[p][m] * Released(p)])

(* PF-4: however many allocations a round makes at a station, together     *)
(* they stay within its nominal capacity and within the labour and the     *)
(* overtime granted, and overtime is paid only once base labour is used up.*)
CapacityRespected ==
  \A s \in Stations :
    /\ floor[s].used <= Capacity[s]
    /\ floor[s].labor + floor[s].overtime = floor[s].used
    /\ floor[s].labor <= BaseLabor(s)
    /\ floor[s].overtime + overtime[s].left = overtime[s].asked
    /\ floor[s].overtime > 0 => floor[s].labor = BaseLabor(s)

(* A station whose congestion has eaten all of its capacity never clears:  *)
(* no later step, of this round or another, takes work away from it.       *)
Jammed(s) == Loss(s) >= Capacity[s]

JamIsPermanent ==
  [][\A s \in Stations : Jammed(s) => WIPAt(s)' >= WIPAt(s)]_vars

=============================================================================
