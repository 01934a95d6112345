SPECIFICATION FairSpec
CONSTANTS
  a1 = a1
  a2 = a2
  n1 = n1
  w1 = w1
  w2 = w2
  Blobs = {a1, a2, n1}
  Owner <- MCOwner
  Convs <- MCConvs
  Inline = {n1}
  Workers = {w1, w2}
  PageSize = 1
  BatchMax = 2
  Worlds <- AllWorlds
INVARIANTS
  EachOnce
  NoneAsleep
  RoomIsHeard
  NoneForgotten
PROPERTIES
  GotForGood
  Settles
CHECK_DEADLOCK FALSE
