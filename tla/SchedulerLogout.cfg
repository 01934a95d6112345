SPECIFICATION Spec
CONSTANTS
  t1 = t1
  t2 = t2
  Texts = {t1, t2}
  SendAt <- Times
  Unsendable = {}
  Cancellable = {t1, t2}
  DueLimit = 2
  Left0 <- LogoutTroubles
INVARIANTS
  OwnAccountOnly
CHECK_DEADLOCK FALSE
