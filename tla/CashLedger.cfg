SPECIFICATION Spec
CONSTANTS
  OpeningCash = 3
  OpeningDebt = 0
  OpeningTargets <- MCOpeningTargets
  TargetChoices <- MCTargetChoices
  OrderLines <- MCOrderLines
  WorkLines <- MCWorkLines
  ProductionCost = 1
  OvertimeCost = 1
  BaseLaborCost = 1
  Shipments <- MCShipments
  HoldingCosts <- MCHoldingCosts
  PayableDelay = 1
  PayrollDelay = 1
  MaxLines = 2
  MaxRound = 2
INVARIANTS
  TypeOK
  NoCashWhileInDebt
  CashReconciles
  ProfitIsNetWorthChange
  BudgetsCapped
  CommitmentsSettledOnTime
