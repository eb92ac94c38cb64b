SPECIFICATION Spec
CONSTANTS
  w1 = w1
  w2 = w2
  w3 = w3
  s1 = s1
  NoWord = NoWord
  Waiters = {w1, w2, w3}
  Signalers = {s1}
  Threads <- MCThreads
  Words <- MCWords
  Blocking = TRUE
  InsideLock = TRUE
  Calls = {"signal"}
  U32 <- MCU32
  MaxWaits = 5
  MaxBusy = 2
SYMMETRY RoleSymmetry
INVARIANT NoLostSignal
CHECK_DEADLOCK FALSE
