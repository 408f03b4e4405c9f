SPECIFICATION LiveSpec
CONSTANTS
  ann = ann
  bob = bob
  bot = bot
  bot2 = bot2
  play = play
  Humans = {ann}
  AIs = {bot}
  Runner = play
  MaxRound = 2
  UpdateCap = 8
INVARIANTS
  TypeOK
PROPERTIES
  MatchEnds
  QuitClosesUnlessFull
  FailureEndsMatch
  OutcomeShown
  ImplementsRoundProtocol
