SPECIFICATION FairSpec
CONSTANTS
  w1 = w1
  w2 = w2
  main = main
  None = None
  Workers = {w1, w2}
  Main = main
  MaxTasks = 4
INVARIANTS TypeOK PopFindsTask FirstInFirstOut
PROPERTIES TasksBegin JoinReturns
CHECK_DEADLOCK FALSE
