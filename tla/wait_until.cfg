CONSTANTS
  w1 = w1
  w2 = w2
  w3 = w3
  Null = Null
  Links <- ThreeWaiters
  Threshold <- Thresholds
  MaxCount = 2
  KeepsNotifying = TRUE
SPECIFICATION WaitUntilSpec
INVARIANTS
  WaitInv
  LinkWithinFuture
  UnreachableIsWoken
PROPERTIES
  IsWaitList
  WaitUntilReturns
CHECK_DEADLOCK FALSE
