SPECIFICATION FairSpec
CONSTANTS
  Worlds = {"farm", "town"}
  Entities = {"own", "other"}
  Own = "own"
  NoWorld = "none"
  StartingWorld = "farm"
  MaxMoves = 2
  MaxUpdates = 1
  Timely = TRUE
  SlowReturn = TRUE
INVARIANTS TypeOK NoGhosts AppearanceKnown ControlledCharacterIsShown
PROPERTIES ClientArrives
CHECK_DEADLOCK FALSE
