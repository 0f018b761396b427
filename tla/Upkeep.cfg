CONSTANTS
  k1 = k1  k2 = k2  v1 = v1  v2 = v2  t1 = t1  t2 = t2
  Keys = {k1, k2}
  Values = {v1, v2}
  Threads = {t1, t2}
  MaxSize = 2
  DbFails = TRUE
  Deleted = Deleted
  Absent = Absent
  MaxObjects = 2
  MaxChanges = 2
  MaxStamps = 2
  SaveFails = TRUE
  box = box  torch = torch
  Things = {box, torch}
  Boxes = {box}
  Durations = {1, 2}
  MaxTime = 2
  b1 = b1  b2 = b2  b3 = b3  b4 = b4
  Beings = {b1, b2, b3, b4}
  ListCount = 2
  lair1 = lair1  lair2 = lair2
  Blocks = {lair1, lair2}
  Blockable = {lair1}
  Blinks = 3
  MaxChecks = 3
  MaxChains = 2
  n1 = n1  n2 = n2  n3 = n3
  RaidNames = {n1, n2, n3}
  Repeatable = {n1}
  NoEvents = {n3}
  EventCount = 3
  MaxLoads = 3
  NoRaid = NoRaid
  chest = chest  locker = locker  bag1 = bag1  bag2 = bag2
  Roots = {chest, locker}
  Bags = {bag1, bag2}
  Paged = {locker}
  Piles = {1, 2, 3}
  Capacity = 2
  StackMax = 2
  MaxContainer = 3
  MaxItems = 3
  Nowhere = Nowhere
  NoItem = NoItem
SPECIFICATION PartsSpec
CHECK_DEADLOCK FALSE
INVARIANTS
  ViewIsLatest SavesAreKept  RoundsAreExact SpawnIsKept RaidsAreOrderly
  ContainersAgree
PROPERTIES SavesGoForward
