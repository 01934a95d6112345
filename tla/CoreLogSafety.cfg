SPECIFICATION Spec
CONSTANTS
  c1 = c1
  c2 = c2
  good = good
  other = other
  poison = poison
  loose = loose
  Callers = {c1, c2}
  Inputs <- MCInputs
  BatchOf <- TwoBatches
  Bad = {poison}
  Kept = {loose}
  DrainMax = 2
  FoldMax = 2
  MaxSeq = 3
  MaxTries = 2
  Left0 <- SafetyTroubles
INVARIANTS TypeOK TablesAreFoldOfLog AckedIsStored SeenIsFolded NoLostWakeup ProgressCoversAcks PendingHasWork ViewsTold
PROPERTIES SeqsNeverReused ImplementsDurableLog
CHECK_DEADLOCK FALSE
