CONSTANTS
  Tasks = {t1, t2}
  None = None
  Modulus = 6
  MaxDelay = 1
  MaxLate = 0
SPECIFICATION FairSpec
PROPERTIES
  DelayReturns
