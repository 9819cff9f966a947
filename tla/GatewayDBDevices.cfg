SPECIFICATION MCSpec
CONSTANTS
  Addresses = {a1}
  CallerIds = {}
  IdMod = 3
  RoomBase = 10
  ShippedRooms <- MCShippedRooms
  IndexMod = 8
  Masks = {}
  MaxInserts = 7
  MaxUpdates = 1
INVARIANT
  ProfileDevicesListed
CHECK_DEADLOCK FALSE
