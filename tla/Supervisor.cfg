SPECIFICATION FairSpec
CONSTANTS
  MaxClient = 3
  Storms <- AllStorms
INVARIANTS
  UpIsWatched
  OneSocket
PROPERTIES
  HealthyKept
  Settles
CHECK_DEADLOCK FALSE
