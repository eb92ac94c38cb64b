SPECIFICATION Spec
CONSTANTS
  w1 = w1
  w2 = w2
  w3 = w3
  s1 = s1
  s2 = s2
  NoWord = NoWord
  Waiters = {w1, w2, w3}
  Signalers = {s1, s2}
  Threads <- MCThreads
  Words <- MCWords
  Blocking = TRUE
  InsideLock = FALSE
  Calls = {"signal", "broadcast"}
  U32 <- MCU32
  MaxWaits = 4
  MaxBusy = 2
SYMMETRY RoleSymmetry
INVARIANT OnlyRepairLoses
CHECK_DEADLOCK FALSE
