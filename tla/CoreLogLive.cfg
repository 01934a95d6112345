SPECIFICATION FairSpec
CONSTANTS
  c1 = c1
  c2 = c2
  good = good
  other = other
  poison = poison
  loose = loose
  Callers = {c1, c2}
  Inputs <- MCInputs
  BatchOf <- SmallBatches
  Bad = {poison}
  Kept = {loose}
  DrainMax = 2
  FoldMax = 1
  MaxSeq = 4
  MaxTries = 2
  Left0 <- LivenessTroubles
PROPERTIES EveryInputFolds CallsReturn
CHECK_DEADLOCK FALSE
