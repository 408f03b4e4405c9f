SPECIFICATION Spec
CONSTANTS
  kept = kept
  fresh = fresh
  slot = slot
  Matches = {kept, fresh}
  OpeningMatches = {kept}
  Slots = {slot}
  RoundsToPlay = 2
  ConfiguredIds = {kept}
  MaxPlays = 3
INVARIANTS
  TypeOK
  NothingUncommittedShown
  SessionFollowsItsScreen
PROPERTIES
  ImplementsMemoryStore
