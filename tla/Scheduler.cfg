SPECIFICATION FairSpec
CONSTANTS
  t1 = t1
  t2 = t2
  Texts = {t1, t2}
  SendAt <- Times
  Unsendable = {t1}
  Cancellable = {t2}
  DueLimit = 2
  Left0 <- LiveTroubles
INVARIANTS
  OncePerText
PROPERTIES
  EachTextSettles
  CancelSeenHolds
CHECK_DEADLOCK FALSE
