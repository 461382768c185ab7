SPECIFICATION CounterSpec
CONSTANTS
  Half = 4
  CounterSize = 4
  MaxHalves = 11
INVARIANT AssertsHold
PROPERTY ImplementsClock
