SPECIFICATION Spec
CONSTANTS
  h1 = h1
  h2 = h2
  s1 = s1
  idle = idle
  a = a
  b = b
  ro = ro
  lf = lf
  Idle = idle
  Hardware = {h1, h2}
  Software = {s1}
  Position <- MCPosition
  Resources = {a, b, ro, lf}
  ReadOnly = {ro}
  LockFree = {lf}
  Top = 4
  Apps <- MCApps
  Backends = {"basepri", "source_mask", "threshold"}
INVARIANT NeverInLocked
CHECK_DEADLOCK FALSE
