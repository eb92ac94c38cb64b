SPECIFICATION FairSpec
CONSTANTS
  w1 = w1
  w2 = w2
  s1 = s1
  s2 = s2
  NoWord = NoWord
  Waiters = {w1, w2}
  Signalers = {s1, s2}
  Threads <- MCThreads
  Words <- MCWords
  Blocking = TRUE
  InsideLock = FALSE
  Calls = {"signal", "broadcast", "destroy"}
  U32 <- MCU32
  MaxWaits = 3
  MaxBusy = 2
INVARIANT DestroyedUntouched
PROPERTIES BroadcastWakesAll DestroyReturns QuiesceEnds
CHECK_DEADLOCK FALSE
