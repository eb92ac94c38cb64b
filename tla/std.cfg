SPECIFICATION StdSpec
CONSTANTS
  t1 = t1
  t2 = t2
  t3 = t3
  NoWord = NoWord
  Threads = {t1, t2, t3}
  Words <- MCWords
  Payloads <- MCMutexPayloads
  Blocking = TRUE
  WeakCas = TRUE
  MaxItems = 1
SYMMETRY ThreadSymmetry
INVARIANTS StdTypeOK MutualExclusion LockedIffHeld FlagHonest WaitFindsItem OnlyConstructorLeaks
CHECK_DEADLOCK FALSE
