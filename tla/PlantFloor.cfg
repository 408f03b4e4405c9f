SPECIFICATION Spec
CONSTANTS
  forgeco = forgeco
  prairiefast = prairiefast
  pump = pump
  valve = valve
  housing = housing
  seal = seal
  Parts <- MCParts
  Products <- MCProducts
  Stations <- MCStations
  BOM <- MCBOM
  Capacity <- MCCapacity
  Labor <- MCLabor
  StressBuffer <- MCStressBuffer
  OpeningParts <- MCOpeningParts
  OpeningWIP <- MCOpeningWIP
  Suppliers <- MCSuppliers
  Offers <- MCOffers
  OnTimePct <- MCOnTimePct
  LateRounds <- MCLateRounds
  OpeningLots <- MCOpeningLots
  MaxOrders = 1
  OvertimeChoices <- MCOvertimeChoices
  ReleaseLines <- MCReleaseLines
  AllocationLines <- MCAllocationLines
  Route <- MCRoute
  StressPenalty <- MCStressPenalty
  Affordable <- MCAffordable
  MaxLines = 3
  MaxRound = 2
INVARIANTS
  TypeOK
  RecordsAgreeWithLots
  MaterialConserved
  CapacityRespected
PROPERTIES
  JamIsPermanent
