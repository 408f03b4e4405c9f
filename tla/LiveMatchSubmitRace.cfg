SPECIFICATION Spec
CONSTANTS
  ann = ann
  bob = bob
  bot = bot
  bot2 = bot2
  play = play
  Humans = {ann}
  AIs = {bot}
  Runner = play
  MaxRound = 1
  UpdateCap = 8
INVARIANTS
  NoPanic
