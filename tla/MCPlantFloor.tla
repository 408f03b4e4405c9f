---------------------------- MODULE MCPlantFloor ----------------------------
(* Values for the model checking of PlantFloor with its SupplyChain: a     *)
(* supplier whose lots may slip by a round and one that never slips; a     *)
(* pump that visits both stations, and a valve that competes for the same  *)
(* seals and is finished at the second, so that released valves wait where *)
(* no route takes them.                                                    *)
EXTENDS PlantFloor, TLC

CONSTANTS forgeco, prairiefast, pump, valve, housing, seal

MCSuppliers == {forgeco, prairiefast}

MCParts == {housing, seal}
MCProducts == {pump, valve}
MCStations == 1 .. 2
MCBOM == (pump :> ((housing :> 2) @@ (seal :> 1))) @@
         (valve :> ((housing :> 0) @@ (seal :> 1)))
MCRoute == (pump :> <<1, 2>>) @@ (valve :> <<2>>)

MCCapacity == <<2, 2>>
MCLabor == <<1, 0>>
MCStressBuffer == <<0, 0>>
MCStressPenalty == <<1, 1>>

MCOpeningParts == (housing :> 2) @@ (seal :> 3)
MCOpeningWIP == (pump :> <<1, 1>>) @@ (valve :> <<0, 1>>)

MCOffers ==
  {[supplier |-> forgeco, part |-> housing, quantity |-> 2, lead |-> 1],
   [supplier |-> prairiefast, part |-> seal, quantity |-> 1, lead |-> 1]}
MCOnTimePct == (forgeco :> 23) @@ (prairiefast :> 100)
MCLateRounds == (forgeco :> 1) @@ (prairiefast :> 1)
MCOpeningLots ==
  {[id |-> <<0, 1>>, supplier |-> forgeco, part |-> seal, quantity |-> 1,
    promised |-> 1, arrival |-> 1]}

MCOvertimeChoices == {<<0, 0>>, <<1, 1>>}
MCReleaseLines == {[product |-> pump, quantity |-> 2],
                   [product |-> valve, quantity |-> 2]}
MCAllocationLines ==
  {[product |-> pump, station |-> 1, capacity |-> 2],
   [product |-> pump, station |-> 2, capacity |-> 1],
   [product |-> valve, station |-> 1, capacity |-> 1],
   [product |-> valve, station |-> 2, capacity |-> 1]}
MCAffordable == {1, 9}
=============================================================================
