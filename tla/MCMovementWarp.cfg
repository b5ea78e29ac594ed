SPECIFICATION MovementSpec
CONSTANTS
  Keys = {"a", "d", "shift"}
  LastTile = 2
  Disallowed <- NoRunHome
  WarpTiles = {2}
  WarpTo = 0
  BroadcastFrames = 1
  MaxStack = 2
  MaxInFlight = 1
INVARIANT WarpDecides
