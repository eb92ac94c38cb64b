SPECIFICATION FairSpec
CONSTANTS
  t1 = t1
  t2 = t2
  t3 = t3
  NoWord = NoWord
  Threads = {t1, t2, t3}
  Words <- MCWords
  Payloads <- MCInnerPayloads
  Blocking = FALSE
  WeakCas = FALSE
INVARIANT TypeOK
PROPERTIES ImplementsLock SomebodyAcquires
