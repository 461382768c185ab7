CONSTANTS
  s1 = s1
  s2 = s2
  s3 = s3
  RX = RX
  None = None
  N = 1
  MaxSends = 1
  MaxSplits = 1
  DebugAssertions = FALSE
  Senders <- ThreeSenders
SPECIFICATION FairSpec
INVARIANTS
  NoFreeSlotWhileWaiting
  PoppedWaiterIsServed
  NoLostReceiverWakeup
PROPERTIES
  SendReturns
  RecvReturns
CHECK_DEADLOCK FALSE
