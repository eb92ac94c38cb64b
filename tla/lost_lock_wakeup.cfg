SPECIFICATION Spec
CONSTANTS
  t1 = t1
  t2 = t2
  t3 = t3
  NoWord = NoWord
  Threads = {t1, t2, t3}
  Words <- MCWords
  Payloads <- MCMutexPayloads
  Blocking = TRUE
  WeakCas = FALSE
INVARIANT NoSleeperForgotten
CHECK_DEADLOCK FALSE
