SPECIFICATION ProgramsSpec
CONSTANTS
  mainthread = mainthread
  w1 = w1
  thrd2 = thrd2
  thrd3 = thrd3
  None = None
  NoOne = NoOne
  Main = mainthread
  Workers = {w1}
  Count = 3
  MaxTasks = 6
  Consumers = {thrd2, thrd3}
  Rounds = 2
  Yields = 4
INVARIANTS
  TypesOK
  TaskOnOneThread
  TaskFrameAlive
  NothingLeftToStop
  FramesAlive
  FinalResumeIsDead
  StackDepth
  ResumesSuspended
  ValuesInOrder
PROPERTIES
  ImplementsLoop
  TasksEnd
  GeneratorEnds
CHECK_DEADLOCK FALSE
