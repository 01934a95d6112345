SPECIFICATION FairSpec
CONSTANTS
  p1 = p1
  p2 = p2
  d1 = d1
  Requests = {p1, p2}
  Loaders = {d1}
  Size = 2
  Prefetch = 1
  Slots = 1
  MaxStreams = 2
  Worlds <- AllWorlds
INVARIANTS
  RowIsWhole
  SlotsKept
PROPERTIES
  Answered
CHECK_DEADLOCK FALSE
