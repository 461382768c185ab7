SPECIFICATION FairSpec
CONSTANTS
  Writers = {w1, w2}
  MaxWrites = 4
INVARIANTS PendingIsFresh NoSleepBesideValue SeenWasReturned
PROPERTY ReadReturns
CHECK_DEADLOCK FALSE
