SPECIFICATION Spec
CONSTANTS
  c1 = c1
  c2 = c2
  alice = alice
  bob = bob
  Clients = {c1, c2}
  Accounts = {alice, bob}
  AccountOf <- OwnAccounts
  SavedId <- HighIds
  MaxId = 6
  MaxPackets = 4
  Worlds = {farm, town}
  StartingWorld = farm
  Faults = TRUE
  MaxRebinds = 0
  MaxWarps = 2
  MaxEntities = 20
  Orderly = TRUE
  NoWorld = NoWorld
  Dangling = Dangling
INVARIANTS TypeOK SessionTable WorldMembership LoadWorldFirst NoCharacterOutlivesClient
PROPERTY EntityIdIsKept
CHECK_DEADLOCK FALSE
