SPECIFICATION Spec
CONSTANTS
  agri = agri
  north = north
  pump = pump
  valve = valve
  Products <- MCProducts
  ProductOrder <- MCProductOrder
  OpeningStock <- MCOpeningStock
  OpeningBacklog <- MCOpeningBacklog
  Yields <- MCYields
  CustomerList <- MCCustomerList
  CustomerOrder <- MCCustomerOrder
  OpeningSentiment <- MCOpeningSentiment
  HoldRounds = 0
  ReturnDelay = 0
  Expiry = 2
  Demands = {1}
  MaxYields = 2
  MaxReturn = 1
  MaxBookings = 1
  MaxRound = 3
INVARIANTS
  TypeOK
  ViewsAgree
  UnitsConserved
  DemandConserved
  ExpiryWindow
  ValuedWithinCost
PROPERTIES
  OldestFirst
