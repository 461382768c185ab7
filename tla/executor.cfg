CONSTANTS
  e1 = e1
  e2 = e2
  low = low
  mid = mid
  high = high
  Body = Body
  Execs <- TwoExecs
  Order <- InTurn
  Contexts <- AllContexts
  Prio <- Priorities
  Level = 3
SPECIFICATION FairSpec
INVARIANTS
  ExecutorInv
  NoOverwrite
  PolledIsLive
  NotifiedIsScheduled
PROPERTIES
  NotifiedIsPolled
CHECK_DEADLOCK FALSE
