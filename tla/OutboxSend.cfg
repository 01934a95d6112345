SPECIFICATION Spec
CONSTANTS
  r1 = r1
  r2 = r2
  k1 = k1
  Requests = {r1, r2}
  Keys = {k1}
  NoKey = NoKey
  KeyOf <- NoKeys
  Cancellable = {r1}
  SendPage = 1
  Times = {1, 2}
  Worlds <- SendWorlds
INVARIANTS
  EndedIsEnded
  CancelStops
PROPERTIES
  OldestFirst
CHECK_DEADLOCK FALSE
