SPECIFICATION Spec
CONSTANTS
  w1 = w1
  main = main
  None = None
  Workers = {w1}
  Main = main
  MaxTasks = 1
INVARIANT StopDiscards
CHECK_DEADLOCK FALSE
