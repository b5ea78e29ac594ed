SPECIFICATION Spec
CONSTANTS
  c1 = c1
  c2 = c2
  alice = alice
  bob = bob
  Clients = {c1, c2}
  Accounts = {alice, bob}
  AccountOf <- OwnAccounts
  SavedId <- HighIds
  MaxId = 6
  MaxPackets = 2
  Worlds = {farm, town}
  StartingWorld = farm
  Faults = FALSE
  MaxRebinds = 0
  MaxWarps = 0
  MaxEntities = 20
  Orderly = FALSE
  NoWorld = NoWorld
  Dangling = Dangling
INVARIANT SenderIsIdentified
CHECK_DEADLOCK FALSE
