SPECIFICATION Spec
CONSTANTS
  RoleOrder <- MCRoleOrder
  Humans <- MCHumans
  CallingRoles <- MCCallingRoles
  PartIDs <- MCPartIDs
  SuppliersOf <- MCSuppliersOf
  ProductIDs <- MCProductIDs
  WorkstationIDs <- MCWorkstationIDs
  ActiveTargets <- MCActiveTargets
  Texts <- MCTexts
  Numbers <- MCNumbers
  Attempts <- MCAttempts
  Strides <- MCStrides
  LookupSizes <- MCLookupSizes
  OpeningLog <- MCOpeningLog
  LogSize = 2
  HistoryLimit = 1
  MaxRound = 3
  MaxRows = 2
  MaxStale = 2
CONSTRAINT Bound
INVARIANTS
  TypeOK
  CursorOnForm
  EditingIsOnScreen
  SentActionsFitTheRound
  OneTickChain
  SelectionIsDrawn
