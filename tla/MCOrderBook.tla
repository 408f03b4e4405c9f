----------------------------- MODULE MCOrderBook -----------------------------
(* Values for the model checking of OrderBook: two customers who order one *)
(* or two products, a plant that finishes one or two units of one product  *)
(* in an allocation, some held for inspection, at different costs.                           *)
EXTENDS OrderBook, TLC

CONSTANTS agri, north, pump, valve

MCProducts == {pump, valve}
MCCustomerList == <<north, agri>>
MCCustomerOrder == (agri :> 1) @@ (north :> 2)
MCProductOrder == (pump :> 1) @@ (valve :> 2)

MCOpeningStock == (pump :> [units |-> 0, cost |-> 0]) @@ (valve :> [units |-> 1, cost |-> 5])
MCOpeningSentiment == (agri :> 4) @@ (north :> 6)

Order(c, p, q) == [customer |-> c, product |-> p, quantity |-> q, origin |-> 0, age |-> 0]

MCOpeningBacklog == <<Order(north, pump, 2), Order(agri, valve, 1)>>

Yield(p, g, h, c) == [product |-> p, good |-> g, held |-> h, cost |-> c]

MCYields == {Yield(pump, 1, 1, 4), Yield(pump, 1, 1, 7)}
=============================================================================
