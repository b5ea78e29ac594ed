SPECIFICATION FairSpec
CONSTANTS
  c1 = c1
  c2 = c2
  alice = alice
  bob = bob
  Clients = {c1, c2}
  Accounts = {alice, bob}
  AccountOf <- OwnAccounts
  SavedId <- HighIds
  MaxId = 6
  MaxPackets = 2
  Worlds = {farm, town}
  StartingWorld = farm
  Faults = FALSE
  MaxRebinds = 1
  MaxWarps = 1
  MaxEntities = 3
  Orderly = TRUE
  NoWorld = NoWorld
  Dangling = Dangling
INVARIANT ListedHasCharacter
PROPERTY LoginReachesWorld
CHECK_DEADLOCK FALSE
