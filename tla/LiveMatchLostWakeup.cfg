SPECIFICATION LiveSpec
CONSTANTS
  ann = ann
  bob = bob
  bot = bot
  bot2 = bot2
  play = play
  Humans = {ann, bob}
  AIs = {}
  Runner = play
  MaxRound = 1
  UpdateCap = 8
PROPERTIES
  MatchEnds
