CONSTANT Tasks = {t1, t2, t3, t4}
SPECIFICATION FairSpec
INVARIANTS
  ArbiterInv
  MutualExclusion
  PoppedIsWoken
PROPERTIES
  NoOvertaking
  AccessReturns
CHECK_DEADLOCK FALSE
