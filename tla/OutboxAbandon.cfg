SPECIFICATION Spec
CONSTANTS
  r1 = r1
  r2 = r2
  k1 = k1
  Requests = {r1, r2}
  Keys = {k1}
  NoKey = NoKey
  KeyOf <- RetriedKey
  Cancellable = {}
  SendPage = 2
  Times = {1}
  Worlds <- AbandonWorlds
INVARIANTS
  OneSendPerKey
CHECK_DEADLOCK FALSE
