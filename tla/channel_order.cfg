CONSTANTS
  s1 = s1
  s2 = s2
  s3 = s3
  RX = RX
  None = None
  N = 2
  MaxSends = 2
  MaxSplits = 2
  DebugAssertions = FALSE
  Senders <- TwoSenders
SPECIFICATION Spec
SYMMETRY SenderSymmetry
INVARIANTS
  SlotExclusive
  SlotNotLost
  FifoInv
PROPERTIES
  IsFifoChannel
CHECK_DEADLOCK FALSE
