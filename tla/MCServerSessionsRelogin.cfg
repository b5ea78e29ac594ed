SPECIFICATION FairSpec
CONSTANTS
  c1 = c1
  c2 = c2
  alice = alice
  bob = bob
  Clients = {c1, c2}
  Accounts = {alice, bob}
  AccountOf <- OneAccount
  SavedId <- HighIds
  MaxId = 6
  MaxPackets = 2
  Worlds = {farm, town}
  StartingWorld = farm
  Faults = FALSE
  MaxRebinds = 0
  MaxWarps = 0
  MaxEntities = 20
  Orderly = TRUE
  NoWorld = NoWorld
  Dangling = Dangling
PROPERTY LoginReachesWorld
CHECK_DEADLOCK FALSE
