CONSTANTS
  Tasks = {t1, t2}
  None = None
  Modulus = 8
  MaxDelay = 1
  MaxLate = 1
SPECIFICATION Spec
INVARIANTS
  TimerInv
  HeadIsAwaited
  PoppedIsWoken
PROPERTIES
  NeverEarly
