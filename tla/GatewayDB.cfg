SPECIFICATION MCSpec
CONSTANTS
  Addresses = {a1}
  CallerIds = {0}
  IdMod = 3
  RoomBase = 10
  ShippedRooms <- MCShippedRooms
  IndexMod = 8
  Masks <- MCMasks
  MaxInserts = 6
  MaxUpdates = 3
INVARIANTS
  DBTypeOK
  LinksKeepTheirEnds
  UnUsedIsFree
  OnlineIsBacked
  ListedWasLinked
PROPERTY
  SwitchesListed
CHECK_DEADLOCK FALSE
