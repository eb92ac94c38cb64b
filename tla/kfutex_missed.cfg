SPECIFICATION Spec
CONSTANTS
  t1 = t1
  t2 = t2
  NULL = NULL
  Threads = {t1, t2}
  Words <- MCOneWord
  Buckets <- MCOneBucket
  hash_futex <- MCHash
  Vals <- MCVals
  Counts <- MCCountsAll
INVARIANT NoMissedWakeup
CHECK_DEADLOCK FALSE
