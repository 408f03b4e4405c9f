SPECIFICATION Spec
CONSTANTS
  ann = ann
  bob = bob
  bot = bot
  bot2 = bot2
  play = play
  Humans = {ann, bob}
  AIs = {}
  Runner = play
  MaxRound = 2
  UpdateCap = 2
INVARIANTS
  HumanActionsAreTheirOwn
  LockedFormIsHeld
