SPECIFICATION FairSpec
CONSTANTS
  r1 = r1
  r2 = r2
  k1 = k1
  Requests = {r1, r2}
  Keys = {k1}
  NoKey = NoKey
  KeyOf <- RetriedKey
  Cancellable = {}
  SendPage = 1
  Times = {1}
  Worlds <- LiveWorlds
INVARIANTS
  OneSendPerKey
  AnswersAgree
PROPERTIES
  SendsGoOut
  TurnsPass
CHECK_DEADLOCK FALSE
