SPECIFICATION FairSpec
CONSTANTS
  t1 = t1
  t2 = t2
  t3 = t3
  NULL = NULL
  Threads = {t1, t2, t3}
  Words <- MCTwoWords
  Buckets <- MCOneBucket
  hash_futex <- MCHash
  Vals <- MCVals
  Counts <- MCCountsBoth
INVARIANTS TypeOK BucketExclusion NoDanglingNode QueueConsistent
PROPERTIES DequeuedReturns WakeAllReachesAll
CHECK_DEADLOCK FALSE
