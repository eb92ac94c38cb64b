------------------------ MODULE ThreeStateLockProofs ------------------------
(***************************************************************************)
(* Proofs about ThreeStateLock for every set of threads, every payload     *)
(* set, weak or strong CAS, and either futex handler.                      *)
(***************************************************************************)
EXTENDS ThreeStateLock, TLAPS

\* Every step keeps the type invariant: no CAS of nptl/three_states_lock_t.h
\* produces the value 3 in the lock bits, and only the one futex word is ever
\* slept on.
LEMMA TypeStep == TypeOK /\ [Next]_vars => TypeOK'
<1> SUFFICES ASSUME TypeOK, [Next]_vars PROVE TypeOK'
  OBVIOUS
<1> USE LockAssumption, FutexAssumption
<1> USE DEF TypeOK, FutexTypeOK, WordType, PCs, Goto, CasSucceeds, CasFails,
        WithWaiters, three_states_unlocked, three_states_locked_no_waiter,
        three_states_locked_waiters
<1>1. CASE UNCHANGED vars
  BY <1>1 DEF vars
<1>2. ASSUME NEW t \in Threads, CallLock(t) \/ TryLock(t) \/ PayloadLoad(t)
      PROVE TypeOK'
  BY <1>2 DEF CallLock, TryLock, PayloadLoad
<1>3. ASSUME NEW t \in Threads, LockStep(t)
      PROVE TypeOK'
  <2>1. CASE LockLoad(t)
    BY <2>1 DEF LockLoad
  <2>2. CASE FastAcquire(t)
    BY <2>2 DEF FastAcquire
  <2>3. CASE FastRetry(t) \/ FastGiveUp(t)
    BY <2>3 DEF FastRetry, FastGiveUp
  <2>4. CASE SlowAcquire(t)
    BY <2>4 DEF SlowAcquire
  <2>5. CASE SlowAnnounce(t)
    BY <2>5 DEF SlowAnnounce
  <2>6. CASE SlowFail(t)
    BY <2>6 DEF SlowFail
  <2>7. CASE SlowSkip(t)
    BY <2>7 DEF SlowSkip
  <2>8. CASE LockFutexWait(t)
    BY <2>8 DEF LockFutexWait, FutexWait
  <2>9. CASE LockReload(t)
    BY <2>9 DEF LockReload
  <2> QED
    BY <1>3, <2>1, <2>2, <2>3, <2>4, <2>5, <2>6, <2>7, <2>8, <2>9 DEF LockStep
<1>4. ASSUME NEW t \in Threads, HolderStep(t)
      PROVE TypeOK'
  <2>1. ASSUME NEW p \in Payloads, PayloadStore(t, p)
        PROVE TypeOK'
    BY <2>1 DEF PayloadStore
  <2>2. CASE PayloadRetry(t)
    BY <2>2 DEF PayloadRetry
  <2>3. CASE Unlock(t)
    BY <2>3 DEF Unlock
  <2>4. CASE UnlockWake(t)
    BY <2>4 DEF UnlockWake, FutexWakeOne, Sleepers
  <2> QED
    BY <1>4, <2>1, <2>2, <2>3, <2>4 DEF HolderStep
<1> QED
  BY <1>1, <1>2, <1>3, <1>4 DEF Next

\* The type invariant of the lock word, the threads' positions and their local
\* copies of the word holds in every reachable state.
THEOREM TypeCorrect == Spec => []TypeOK
<1>1. Init => TypeOK
  BY LockAssumption, FutexAssumption
     DEF Init, TypeOK, FutexInit, FutexTypeOK, WordType, PCs, three_states_unlocked
<1> QED
  BY <1>1, TypeStep, PTL DEF Spec

-----------------------------------------------------------------------------
\* Mutual exclusion alone is not inductive: that an acquiring CAS finds nobody
\* inside follows from the word, which is why LockInv carries LockedIffHeld.
LEMMA LockInvStep == LockInv /\ [Next]_vars => LockInv'
<1> SUFFICES ASSUME LockInv, [Next]_vars PROVE LockInv'
  OBVIOUS
<1>T. TypeOK /\ TypeOK'
  BY TypeStep DEF LockInv
<1> SUFFICES MutualExclusion' /\ LockedIffHeld'
  BY <1>T DEF LockInv
<1> USE <1>T
<1> USE DEF LockInv, MutualExclusion, LockedIffHeld, Holding, TypeOK, WordType,
        PCs, Goto, CasSucceeds, CasFails, WithWaiters, three_states_unlocked,
        three_states_locked_no_waiter, three_states_locked_waiters
<1>1. CASE UNCHANGED vars
  BY <1>1 DEF vars
<1>2. ASSUME NEW t \in Threads, CallLock(t) \/ TryLock(t) \/ PayloadLoad(t)
      PROVE MutualExclusion' /\ LockedIffHeld'
  <2>1. CASE CallLock(t)
    BY <2>1 DEF CallLock
  <2>2. CASE TryLock(t)
    BY <2>2 DEF TryLock
  <2>3. CASE PayloadLoad(t)
    BY <2>3 DEF PayloadLoad
  <2> QED
    BY <1>2, <2>1, <2>2, <2>3
<1>3. ASSUME NEW t \in Threads, LockStep(t)
      PROVE MutualExclusion' /\ LockedIffHeld'
  <2>1. CASE LockLoad(t) \/ FastRetry(t) \/ FastGiveUp(t)
    BY <2>1 DEF LockLoad, FastRetry, FastGiveUp
  <2>2. CASE FastAcquire(t)
    BY <2>2 DEF FastAcquire
  <2>3. CASE SlowAcquire(t)
    BY <2>3 DEF SlowAcquire
  <2>4. CASE SlowAnnounce(t)
    BY <2>4 DEF SlowAnnounce
  <2>5. CASE SlowFail(t)
    BY <2>5 DEF SlowFail
  <2>6. CASE SlowSkip(t) \/ LockFutexWait(t) \/ LockReload(t)
    BY <2>6 DEF SlowSkip, LockFutexWait, LockReload
  <2> QED
    BY <1>3, <2>1, <2>2, <2>3, <2>4, <2>5, <2>6 DEF LockStep
<1>4. ASSUME NEW t \in Threads, HolderStep(t)
      PROVE MutualExclusion' /\ LockedIffHeld'
  <2>1. ASSUME NEW p \in Payloads, PayloadStore(t, p)
        PROVE MutualExclusion' /\ LockedIffHeld'
    BY <2>1 DEF PayloadStore
  <2>2. CASE PayloadRetry(t)
    BY <2>2 DEF PayloadRetry
  <2>3. CASE Unlock(t)
    BY <2>3 DEF Unlock
  <2>4. CASE UnlockWake(t)
    BY <2>4 DEF UnlockWake
  <2> QED
    BY <1>4, <2>1, <2>2, <2>3, <2>4 DEF HolderStep
<1> QED
  BY <1>1, <1>2, <1>3, <1>4 DEF Next

\* A freshly initialised word (pthread_mutex_init, pthread_cond_init) is
\* unlocked and nobody holds it.
LEMMA LockInvInit == Init => LockInv
<1> SUFFICES ASSUME Init PROVE LockInv
  OBVIOUS
<1>1. TypeOK
  BY LockAssumption, FutexAssumption
     DEF Init, TypeOK, FutexInit, FutexTypeOK, WordType, PCs, three_states_unlocked
<1> QED
  BY <1>1 DEF Init, LockInv, MutualExclusion, LockedIffHeld, Holding,
              three_states_unlocked

\* At most one thread holds the lock, for any number of threads and whichever
\* of the fast path, the slow path and trylock let it in.
THEOREM LockIsExclusive == Spec => []MutualExclusion
<1>1. LockInv => MutualExclusion
  BY DEF LockInv
<1> QED
  BY <1>1, LockInvInit, LockInvStep, PTL DEF Spec

\* The lock bits of the word are set exactly while some thread holds the lock.
THEOREM WordTellsHeld == Spec => []LockedIffHeld
<1>1. LockInv => LockedIffHeld
  BY DEF LockInv
<1> QED
  BY <1>1, LockInvInit, LockInvStep, PTL DEF Spec

-----------------------------------------------------------------------------
\* The refinement mapping's Owner is the one holder, or nobody.
OwnerIsHolder ==
  /\ \A t \in Threads : Holding(t) => Owner = t
  /\ (\A t \in Threads : ~Holding(t)) => Owner = NoWord

\* By mutual exclusion the mapped owner is well defined.
LEMMA OwnerLemma == LockInv => OwnerIsHolder
<1> SUFFICES ASSUME LockInv PROVE OwnerIsHolder
  OBVIOUS
<1>1. ASSUME NEW t \in Threads, Holding(t) PROVE Owner = t
  <2> DEFINE h == CHOOSE u \in Threads : Holding(u)
  <2>1. h \in Threads /\ Holding(h)
    BY <1>1
  <2>2. h = t
    BY <1>1, <2>1 DEF LockInv, MutualExclusion
  <2> QED
    BY <1>1, <2>2 DEF Owner
<1> QED
  BY <1>1 DEF Owner, OwnerIsHolder

\* Every step of the lock is a step of the abstract lock or invisible to it:
\* the three acquiring actions map to Acquire, the payload CAS to Update, the
\* unlocking fetch_and to Release, and all others change neither the holder
\* nor the payload.
LEMMA RefinementStep ==
  LockInv /\ LockInv' /\ [Next]_vars => [Abs!Next]_(Abs!vars)
<1> SUFFICES ASSUME LockInv, LockInv', [Next]_vars PROVE [Abs!Next]_(Abs!vars)
  OBVIOUS
<1>O. OwnerIsHolder /\ OwnerIsHolder'
  BY OwnerLemma, PTL
<1>T. TypeOK /\ MutualExclusion /\ LockedIffHeld
  BY DEF LockInv
<1>N. NoWord \notin Threads
  BY LockAssumption
<1> USE <1>T DEF TypeOK, WordType
<1>S. ASSUME \A t \in Threads : Holding(t)' <=> Holding(t)
      PROVE Owner' = Owner
  <2>1. CASE \E t \in Threads : Holding(t)
    BY <1>S, <1>O, <2>1 DEF OwnerIsHolder
  <2>2. CASE \A t \in Threads : ~Holding(t)
    BY <1>S, <1>O, <2>2 DEF OwnerIsHolder
  <2> QED
    BY <2>1, <2>2
<1>A. ASSUME NEW t \in Threads, word.st = 0, Holding(t)', word'.hi = word.hi
      PROVE Abs!Acquire(t)
  <2>1. Owner = NoWord
    BY <1>A, <1>O DEF OwnerIsHolder, LockedIffHeld, three_states_unlocked
  <2>2. Owner' = t
    BY <1>A, <1>O DEF OwnerIsHolder
  <2> QED
    BY <1>A, <2>1, <2>2 DEF Abs!Acquire
<1> USE DEF Goto, CasSucceeds, CasFails, WithWaiters, three_states_unlocked,
        three_states_locked_no_waiter, three_states_locked_waiters
<1>1. CASE UNCHANGED vars
  <2>1. Owner' = Owner
    BY <1>1, <1>S DEF vars, Holding
  <2> QED
    BY <1>1, <2>1 DEF vars, Abs!vars
<1>2. ASSUME NEW t \in Threads, TryLock(t) \/ FastAcquire(t) \/ SlowAcquire(t)
      PROVE Abs!Acquire(t)
  <2>1. word.st = 0 /\ Holding(t)' /\ word'.hi = word.hi
    BY <1>2 DEF TryLock, FastAcquire, SlowAcquire, Holding
  <2> QED
    BY <2>1, <1>A
<1>3. ASSUME NEW t \in Threads,
             \/ CallLock(t) \/ PayloadLoad(t) \/ LockLoad(t) \/ FastRetry(t)
             \/ FastGiveUp(t) \/ SlowAnnounce(t) \/ SlowFail(t) \/ SlowSkip(t)
             \/ LockFutexWait(t) \/ LockReload(t) \/ PayloadRetry(t)
             \/ UnlockWake(t)
      PROVE UNCHANGED Abs!vars
  <2>1. \A u \in Threads : Holding(u)' <=> Holding(u)
    BY <1>3 DEF CallLock, PayloadLoad, LockLoad, FastRetry, FastGiveUp,
       SlowAnnounce, SlowFail, SlowSkip, LockFutexWait, LockReload,
       PayloadRetry, UnlockWake, Holding
  <2>2. word'.hi = word.hi
    BY <1>3 DEF CallLock, PayloadLoad, LockLoad, FastRetry, FastGiveUp,
       SlowAnnounce, SlowFail, SlowSkip, LockFutexWait, LockReload,
       PayloadRetry, UnlockWake
  <2> QED
    BY <2>1, <2>2, <1>S DEF Abs!vars
<1>4. ASSUME NEW t \in Threads, NEW p \in Payloads, PayloadStore(t, p)
      PROVE Abs!Update(t)
  <2>1. Holding(t) /\ \A u \in Threads : Holding(u)' <=> Holding(u)
    BY <1>4 DEF PayloadStore, Holding
  <2>2. word'.hi = p
    BY <1>4 DEF PayloadStore
  <2> QED
    BY <2>1, <2>2, <1>S, <1>O DEF Abs!Update, OwnerIsHolder
<1>5. ASSUME NEW t \in Threads, Unlock(t)
      PROVE Abs!Release(t)
  <2>1. Holding(t) /\ \A u \in Threads : ~Holding(u)'
    BY <1>5 DEF Unlock, Holding, MutualExclusion
  <2>2. word'.hi = word.hi
    BY <1>5 DEF Unlock
  <2> QED
    BY <2>1, <2>2, <1>O DEF Abs!Release, OwnerIsHolder
<1> QED
  BY <1>1, <1>2, <1>3, <1>4, <1>5 DEF Next, LockStep, HolderStep, Abs!Next

\* three_states_lock / three_states_unlock implement the abstract lock with
\* its owner-only payload, for every set of threads and payloads.
THEOREM LockRefines == Spec => ImplementsLock
<1>1. Init => Abs!Init
  <2> SUFFICES ASSUME Init PROVE Abs!Init
    OBVIOUS
  <2>1. Owner = NoWord
    BY LockInvInit, OwnerLemma DEF Init, OwnerIsHolder, Holding
  <2> QED
    BY <2>1 DEF Init, Abs!Init
<1> QED
  BY <1>1, LockInvInit, LockInvStep, RefinementStep, PTL
     DEF Spec, ImplementsLock, Abs!Spec

=============================================================================
