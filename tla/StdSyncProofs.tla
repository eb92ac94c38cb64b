---------------------------- MODULE StdSyncProofs ----------------------------
(***************************************************************************)
(* Proofs about std::mutex, std::unique_lock and the predicate wait, for   *)
(* any number of threads and of items in the buffer.                       *)
(***************************************************************************)
EXTENDS StdSync, ThreeStateLockProofs, SequenceTheorems

\* The classes of std/mutex use the lock by its functions only: every step of
\* theirs is a step of the lock or leaves the lock alone.
LEMMA StdStepsLock == [StdNext]_allvars => [Next]_vars
<1> SUFFICES ASSUME [StdNext]_allvars PROVE [Next]_vars
  OBVIOUS
<1>1. CASE UNCHANGED allvars
  BY <1>1 DEF allvars
<1>2. ASSUME NEW t \in Threads,
             \/ Move(t) \/ lock_return(t) \/ unlock_return(t) \/ wait(t)
             \/ PredHolds(t) \/ SpuriousWakeup(t) \/ Take(t) \/ PushAndNotify(t)
      PROVE UNCHANGED vars
  BY <1>2 DEF Move, lock_return, unlock_return, wait, PredHolds, SpuriousWakeup,
     Take, PushAndNotify
<1>3. ASSUME NEW t \in Threads,
             \/ try_lock(t) \/ mutex_unlock(t) \/ unique_lock(t) \/ lock(t)
             \/ unlock(t) \/ Destroy(t) \/ CondWait(t) \/ CondWaitReturns(t)
             \/ MutexStep(t)
      PROVE Next \/ UNCHANGED vars
  BY <1>3 DEF try_lock, mutex_unlock, unique_lock, lock, unlock, Destroy, CondWait,
     CondWaitReturns, MutexStep, Next, HolderStep
<1> QED
  BY <1>1, <1>2, <1>3 DEF StdNext

\* Two threads are never inside a std::mutex at once, whether they came by
\* lock, by try_lock, or by the return of a wait.
THEOREM StdMutexIsExclusive == StdSpec => []MutualExclusion
<1>1. LockInv => MutualExclusion
  BY DEF LockInv
<1>2. StdInit => LockInv
  BY LockInvInit DEF StdInit
<1> QED
  BY <1>1, <1>2, StdStepsLock, LockInvStep, PTL DEF StdSpec

\* The word of a std::mutex says "unlocked" exactly while nobody holds it.
THEOREM StdWordTellsHeld == StdSpec => []LockedIffHeld
<1>1. LockInv => LockedIffHeld
  BY DEF LockInv
<1>2. StdInit => LockInv
  BY LockInvInit DEF StdInit
<1> QED
  BY <1>1, <1>2, StdStepsLock, LockInvStep, PTL DEF StdSpec

-----------------------------------------------------------------------------
(* The unique_lock objects of a scope *)

UniqueLock == [m_ : BOOLEAN, owns_ : BOOLEAN]

\* The object that lock(), unlock() and the destructor work on.
Top(s) == s[Len(s)]

\* Destroying the top object leaves the ones below.
LEMMA FrontOf ==
  ASSUME NEW s \in Seq(UniqueLock), s # <<>>
  PROVE  /\ Front(s) \in Seq(UniqueLock) /\ Len(Front(s)) = Len(s) - 1
         /\ \A i \in 1..(Len(s) - 1) : Front(s)[i] = s[i]
<1>1. Len(s) \in Nat /\ Len(s) >= 1
  OBVIOUS
<1>2. \A i \in 1..(Len(s) - 1) : s[i] \in UniqueLock
  <2> TAKE i \in 1..(Len(s) - 1)
  <2>1. i \in 1..Len(s)
    BY <1>1
  <2> QED
    BY <2>1, ElementOfSeq
<1> DEFINE n == Len(s) - 1
<1>3. n \in Nat /\ 1 \in Int /\ n \in Int
  BY <1>1
<1> HIDE DEF n
<1>4. \A i \in 1..n : s[i] \in UniqueLock
  BY <1>2 DEF n
<1>5. /\ SubSeq(s, 1, n) \in Seq(UniqueLock)
      /\ Len(SubSeq(s, 1, n)) = IF 1 <= n THEN n - 1 + 1 ELSE 0
      /\ \A i \in 1..(n - 1 + 1) : SubSeq(s, 1, n)[i] = s[1 + i - 1]
  BY <1>3, <1>4, SubSeqProperties
<1>6. /\ Len(SubSeq(s, 1, n)) = n
      /\ \A i \in 1..n : SubSeq(s, 1, n)[i] = s[i]
  BY <1>3, <1>5
<1> QED
  BY <1>5, <1>6 DEF n, Front

\* lock() and unlock() set the flag of their own thread's top object.
LEMMA FlagOfTop ==
  ASSUME locks \in [Threads -> Seq(UniqueLock)], NEW t \in Threads, locks[t] # <<>>,
         NEW b \in BOOLEAN, SetFlag(t, b)
  PROVE  /\ locks' \in [Threads -> Seq(UniqueLock)]
         /\ Len(locks'[t]) = Len(locks[t])
         /\ Top(locks'[t]).owns_ = b /\ Top(locks'[t]).m_ = Top(locks[t]).m_
         /\ \A i \in 1..Len(locks[t]) : i # Len(locks[t]) => locks'[t][i] = locks[t][i]
         /\ \A u \in Threads : u # t => locks'[u] = locks[u]
<1> DEFINE s == locks[t]
           e == [s[Len(s)] EXCEPT !.owns_ = b]
           r == [s EXCEPT ![Len(s)] = e]
<1>1. locks' = [locks EXCEPT ![t] = r]
  BY DEF SetFlag
<1>2. s \in Seq(UniqueLock) /\ Len(s) \in 1..Len(s)
  OBVIOUS
<1>3. s[Len(s)] \in UniqueLock
  BY <1>2, ElementOfSeq
<1>4. e \in UniqueLock /\ e.owns_ = b /\ e.m_ = s[Len(s)].m_
  BY <1>3 DEF UniqueLock
<1> HIDE DEF e
<1>5. /\ r \in Seq(UniqueLock) /\ Len(r) = Len(s)
      /\ \A j \in 1..Len(s) : r[j] = IF j = Len(s) THEN e ELSE s[j]
  BY <1>2, <1>4, ExceptSeq
<1> HIDE DEF r
<1>6. locks'[t] = r /\ \A u \in Threads : u # t => locks'[u] = locks[u]
  BY <1>1
<1>7. locks' \in [Threads -> Seq(UniqueLock)]
  BY <1>1, <1>5
<1> QED
  BY <1>2, <1>4, <1>5, <1>6, <1>7 DEF Top

-----------------------------------------------------------------------------
(* The inductive invariant *)

LockingPCs == {"load", "fast", "slow", "wait", "reload"}

\* The objects of a scope, by where the thread is: none outside, then one or,
\* after a move, two, of which only the last has the mutex.
Scope(place, s) ==
  /\ place \in {"out", "tried"} <=> s = <<>>
  /\ place = "end" => Len(s) = 1 /\ ~s[1].owns_
  /\ place \notin {"out", "tried", "end"} => Len(s) \in {1, 2} /\ Top(s).m_
  /\ Len(s) = 2 => ~s[1].owns_

\* What a thread at a place has: where it may be inside the mutex, and how the
\* flag of its top object follows from what took the mutex for it.
Flow(place, p, took, flag) ==
  /\ place = "out" => p \in {"idle", "wake", "cs"} /\ (p = "cs" => took = "constructor")
  /\ place = "tried" => p = "cs"
  /\ place = "in" => /\ p \in LockingPCs \cup {"cs", "idle"}
                     /\ p \in LockingPCs => took = "constructor"
                     /\ flag => p = "cs" /\ took = "lock"
                     /\ took = "lock" /\ p = "cs" => flag
  /\ place = "locked" => took = "lock" /\ p \in LockingPCs \cup {"cs"}
  /\ place = "unlocked" => p \in {"idle", "wake"}
  /\ place = "pred" => p \in LockingPCs \cup {"cs"}
  /\ place = "got" => p = "cs"
  /\ place \in {"blocked", "woken"} => p \in {"idle", "wake"}
  /\ place \in {"pred", "got", "blocked", "woken"} => (flag <=> took = "lock")
  /\ place = "end" => p \in {"idle", "wake", "cs"} /\ (p = "cs" => took = "constructor")
  /\ place \notin {"out", "tried"} => took # "none"

\* The thread's own state is consistent.
Consistent(t) ==
  /\ Scope(at[t], locks[t])
  /\ Flow(at[t], pc[t], by[t], Top(locks[t]).owns_)

StdInv ==
  /\ LockInv
  /\ StdTypeOK
  /\ \A t \in Threads : Consistent(t)
  /\ \A t \in Threads : at[t] = "got" => items > 0

\* The steps inside the functions of the mutex move a thread along them.
LEMMA MutexMoves ==
  ASSUME TypeOK, NEW t \in Threads, LockStep(t) \/ UnlockWake(t)
  PROVE  /\ \/ pc[t] \in LockingPCs /\ pc'[t] \in LockingPCs \cup {"cs"}
            \/ pc[t] = "wake" /\ pc'[t] = "idle"
         /\ \A u \in Threads : u # t => pc'[u] = pc[u]
  BY DEF TypeOK, Goto, LockingPCs, LockStep, LockLoad, FastAcquire, FastRetry,
     FastGiveUp, SlowAcquire, SlowAnnounce, SlowFail, SlowSkip, LockFutexWait,
     LockReload, UnlockWake

\* The calls into the mutex: lock begins, unlock releases or goes on to wake
\* somebody, trylock succeeds.
LEMMA MutexCalls ==
  ASSUME TypeOK, NEW t \in Threads
  PROVE  /\ CallLock(t) => pc[t] = "idle" /\ pc'[t] = "load"
         /\ TryLock(t) => pc[t] = "idle" /\ pc'[t] = "cs"
         /\ Unlock(t) => pc[t] = "cs" /\ pc'[t] \in {"idle", "wake"}
         /\ CallLock(t) \/ TryLock(t) \/ Unlock(t) =>
              \A u \in Threads : u # t => pc'[u] = pc[u]
  BY DEF TypeOK, Goto, CallLock, TryLock, Unlock

\* Every step keeps the types: no scope has more than two objects, and the
\* buffer is neither overfilled nor emptied below zero.
LEMMA StdTypeStep == StdInv /\ [StdNext]_allvars => StdTypeOK'
<1> SUFFICES ASSUME StdInv, [StdNext]_allvars PROVE StdTypeOK'
  OBVIOUS
<1>0. /\ TypeOK'
      /\ at \in [Threads -> Places]
      /\ locks \in [Threads -> Seq(UniqueLock)]
      /\ \A t \in Threads : Len(locks[t]) <= 2
      /\ by \in [Threads -> {"none", "constructor", "lock"}]
      /\ items \in 0..MaxItems
  BY StdStepsLock, TypeStep DEF StdInv, StdTypeOK, UniqueLock, LockInv
<1> SUFFICES /\ at' \in [Threads -> Places]
             /\ locks' \in [Threads -> Seq(UniqueLock)]
             /\ \A t \in Threads : Len(locks'[t]) <= 2
             /\ by' \in [Threads -> {"none", "constructor", "lock"}]
             /\ items' \in 0..MaxItems
  BY <1>0 DEF StdTypeOK, UniqueLock
<1> USE <1>0 DEF Places, Step
<1>1. CASE UNCHANGED allvars
  BY <1>1 DEF allvars, stdvars
<1>2. ASSUME NEW t \in Threads,
             \/ try_lock(t) \/ mutex_unlock(t) \/ unlock(t) \/ wait(t)
             \/ PredHolds(t) \/ CondWait(t) \/ SpuriousWakeup(t) \/ CondWaitReturns(t)
      PROVE UNCHANGED <<locks, by, items>> /\ at' \in [Threads -> Places]
  BY <1>2 DEF try_lock, mutex_unlock, unlock, wait, PredHolds, CondWait,
     SpuriousWakeup, CondWaitReturns
<1>3. ASSUME NEW t \in Threads, lock(t)
      PROVE /\ UNCHANGED <<locks, items>> /\ at' \in [Threads -> Places]
            /\ by' \in [Threads -> {"none", "constructor", "lock"}]
  BY <1>3 DEF lock
<1>4. ASSUME NEW t \in Threads, unique_lock(t)
      PROVE /\ UNCHANGED items /\ at' \in [Threads -> Places]
            /\ by' \in [Threads -> {"none", "constructor", "lock"}]
            /\ locks' \in [Threads -> Seq(UniqueLock)]
            /\ \A u \in Threads : Len(locks'[u]) <= 2
  <2>1. <<[m_ |-> TRUE, owns_ |-> FALSE]>> \in Seq(UniqueLock)
        /\ Len(<<[m_ |-> TRUE, owns_ |-> FALSE]>>) <= 2
    BY DEF UniqueLock
  <2> QED
    BY <1>4, <2>1 DEF unique_lock
<1>5. ASSUME NEW t \in Threads, Move(t)
      PROVE /\ UNCHANGED <<at, by, items>>
            /\ locks' \in [Threads -> Seq(UniqueLock)]
            /\ \A u \in Threads : Len(locks'[u]) <= 2
  <2>1. locks[t][1] \in UniqueLock
    <3>1. Len(locks[t]) = 1 /\ locks[t] \in Seq(UniqueLock)
      BY <1>5 DEF Move
    <3>2. 1 \in 1..Len(locks[t])
      BY <3>1
    <3> QED
      BY <3>1, <3>2, ElementOfSeq, Zenon
  <2> DEFINE r == <<[m_ |-> FALSE, owns_ |-> FALSE], locks[t][1]>>
  <2>2. r \in Seq(UniqueLock) /\ Len(r) <= 2
    BY <2>1 DEF UniqueLock
  <2>3. locks' = [locks EXCEPT ![t] = r]
    BY <1>5 DEF Move
  <2> HIDE DEF r
  <2> QED
    BY <1>5, <2>2, <2>3 DEF Move
<1>6. ASSUME NEW t \in Threads, lock_return(t) \/ unlock_return(t)
      PROVE /\ UNCHANGED <<by, items>> /\ at' \in [Threads -> Places]
            /\ locks' \in [Threads -> Seq(UniqueLock)]
            /\ \A u \in Threads : Len(locks'[u]) <= 2
  <2>1. locks[t] # <<>>
    BY <1>6 DEF StdInv, Consistent, Scope, lock_return, unlock_return
  <2>2. SetFlag(t, TRUE) \/ SetFlag(t, FALSE)
    BY <1>6 DEF lock_return, unlock_return
  <2>3. /\ locks' \in [Threads -> Seq(UniqueLock)]
        /\ Len(locks'[t]) = Len(locks[t])
        /\ \A u \in Threads : u # t => locks'[u] = locks[u]
    BY <2>1, <2>2, FlagOfTop
  <2>4. UNCHANGED <<by, items>> /\ at' \in [Threads -> Places]
    BY <1>6 DEF lock_return, unlock_return
  <2> QED
    BY <2>3, <2>4
<1>7. ASSUME NEW t \in Threads, Destroy(t)
      PROVE /\ UNCHANGED <<by, items>> /\ at' \in [Threads -> Places]
            /\ locks' \in [Threads -> Seq(UniqueLock)]
            /\ \A u \in Threads : Len(locks'[u]) <= 2
  <2>1. Front(locks[t]) \in Seq(UniqueLock) /\ Len(Front(locks[t])) <= 2
    BY <1>7, FrontOf DEF Destroy
  <2> QED
    BY <1>7, <2>1 DEF Destroy
<1>8. ASSUME NEW t \in Threads, Take(t)
      PROVE /\ UNCHANGED <<locks, by>> /\ at' \in [Threads -> Places]
            /\ items' \in 0..MaxItems
  <2>1. items > 0
    BY <1>8 DEF Take, StdInv
  <2> QED
    BY <1>8, <2>1, StdAssumption DEF Take
<1>9. ASSUME NEW t \in Threads, PushAndNotify(t)
      PROVE /\ UNCHANGED <<locks, by>> /\ at' \in [Threads -> Places]
            /\ items' \in 0..MaxItems
  <2>1. PICK woken \in SUBSET Blocked :
          at' = [u \in Threads |-> IF u \in woken THEN "woken" ELSE at[u]]
    BY <1>9 DEF PushAndNotify
  <2>2. at' \in [Threads -> Places]
    BY <2>1
  <2> QED
    BY <1>9, <2>2, StdAssumption DEF PushAndNotify
<1>10. ASSUME NEW t \in Threads, MutexStep(t)
       PROVE UNCHANGED stdvars
  BY <1>10 DEF MutexStep
<1> QED
  BY <1>1, <1>2, <1>3, <1>4, <1>5, <1>6, <1>7, <1>8, <1>9, <1>10 DEF StdNext, stdvars

\* A step of one thread keeps that thread's objects, flag and place consistent,
\* and the consistency of the others: only the notify moves another thread, and
\* only from "blocked" to "woken".
LEMMA ConsistentStep ==
  StdInv /\ [StdNext]_allvars => \A t \in Threads : Consistent(t)'
<1> SUFFICES ASSUME StdInv, [StdNext]_allvars PROVE \A t \in Threads : Consistent(t)'
  OBVIOUS
<1>0. /\ TypeOK
      /\ at \in [Threads -> Places]
      /\ locks \in [Threads -> Seq(UniqueLock)]
      /\ by \in [Threads -> {"none", "constructor", "lock"}]
      /\ \A t \in Threads : Consistent(t)
  BY DEF StdInv, StdTypeOK, UniqueLock
<1>1. CASE UNCHANGED allvars
  BY <1>0, <1>1 DEF allvars, vars, stdvars, Consistent
<1> DEFINE Only(t) == \A u \in Threads : u # t =>
             at'[u] = at[u] /\ locks'[u] = locks[u] /\ by'[u] = by[u] /\ pc'[u] = pc[u]
<1>F. ASSUME NEW t \in Threads, Only(t), Consistent(t)'
      PROVE \A u \in Threads : Consistent(u)'
  BY <1>0, <1>F DEF Consistent
<1> USE <1>0 DEF Step, Has, HasNot, LockingPCs
\* Steps that keep the objects and what took the mutex.
<1>2. ASSUME NEW t \in Threads, locks' = locks, by' = by,
             at' = [at EXCEPT ![t] = at'[t]],
             \A u \in Threads : u # t => pc'[u] = pc[u],
             Flow(at'[t], pc'[t], by[t], Top(locks[t]).owns_),
             \/ at[t] \in {"out", "tried"} /\ at'[t] \in {"out", "tried"}
             \/ at[t] \notin {"out", "tried", "end"} /\ at'[t] \notin {"out", "tried", "end"}
             \/ at'[t] = at[t]
      PROVE \A u \in Threads : Consistent(u)'
  <2>1. Only(t)
    BY <1>2
  <2>2. Scope(at'[t], locks[t])
    BY <1>2 DEF Consistent, Scope
  <2> QED
    BY <1>2, <1>F, <2>1, <2>2 DEF Consistent
<1>3. ASSUME NEW t \in Threads,
             try_lock(t) \/ mutex_unlock(t) \/ unlock(t) \/ CondWait(t) \/ CondWaitReturns(t)
      PROVE \A u \in Threads : Consistent(u)'
  <2>1. /\ locks' = locks /\ by' = by /\ at' = [at EXCEPT ![t] = at'[t]]
        /\ \A u \in Threads : u # t => pc'[u] = pc[u]
    BY <1>3, MutexCalls DEF try_lock, mutex_unlock, unlock, CondWait, CondWaitReturns
  <2>2. \/ at[t] \in {"out", "tried"} /\ at'[t] \in {"out", "tried"}
        \/ at[t] \notin {"out", "tried", "end"} /\ at'[t] \notin {"out", "tried", "end"}
    BY <1>3 DEF try_lock, mutex_unlock, unlock, CondWait, CondWaitReturns
  <2>3. Flow(at'[t], pc'[t], by[t], Top(locks[t]).owns_)
    <3> USE DEF Consistent, Flow
    <3>1. CASE try_lock(t)
      BY <3>1, MutexCalls DEF try_lock
    <3>2. CASE mutex_unlock(t)
      BY <3>2, MutexCalls DEF mutex_unlock
    <3>3. CASE unlock(t)
      BY <3>3, MutexCalls DEF unlock
    <3>4. CASE CondWait(t)
      BY <3>4, MutexCalls DEF CondWait
    <3>5. CASE CondWaitReturns(t)
      BY <3>5, MutexCalls DEF CondWaitReturns
    <3> QED
      BY <1>3, <3>1, <3>2, <3>3, <3>4, <3>5
  <2> QED
    BY <1>2, <2>1, <2>2, <2>3
<1>4. ASSUME NEW t \in Threads,
             wait(t) \/ PredHolds(t) \/ SpuriousWakeup(t) \/ Take(t)
      PROVE \A u \in Threads : Consistent(u)'
  <2>1. locks' = locks /\ by' = by /\ pc' = pc /\ at' = [at EXCEPT ![t] = at'[t]]
    BY <1>4 DEF wait, PredHolds, SpuriousWakeup, Take, vars
  <2>2. at[t] \notin {"out", "tried", "end"} /\ at'[t] \notin {"out", "tried", "end"}
    BY <1>4 DEF wait, PredHolds, SpuriousWakeup, Take
  <2>3. Flow(at'[t], pc'[t], by[t], Top(locks[t]).owns_)
    BY <1>4, <2>1 DEF wait, PredHolds, SpuriousWakeup, Take, Consistent, Flow
  <2> QED
    BY <1>2, <2>1, <2>2, <2>3
<1>5. ASSUME NEW t \in Threads, MutexStep(t) PROVE \A u \in Threads : Consistent(u)'
  <2>1. /\ locks' = locks /\ by' = by /\ at' = at
        /\ \A u \in Threads : u # t => pc'[u] = pc[u]
    BY <1>5, MutexMoves DEF MutexStep, stdvars
  <2>2. Flow(at'[t], pc'[t], by[t], Top(locks[t]).owns_)
    BY <1>5, <2>1, MutexMoves DEF MutexStep, Consistent, Flow
  <2> QED
    BY <1>2, <2>1, <2>2
\* The notify.
<1>6. ASSUME NEW t \in Threads, PushAndNotify(t) PROVE \A u \in Threads : Consistent(u)'
  <2>1. locks' = locks /\ by' = by /\ pc' = pc
    BY <1>6 DEF PushAndNotify, vars
  <2>2. \A u \in Threads : at'[u] = at[u] \/ (at[u] = "blocked" /\ at'[u] = "woken")
    BY <1>6 DEF PushAndNotify, Blocked
  <2> TAKE u \in Threads
  <2>3. Consistent(u)
    OBVIOUS
  <2>4. Scope(at'[u], locks[u]) /\ Flow(at'[u], pc[u], by[u], Top(locks[u]).owns_)
    BY <2>2, <2>3 DEF Consistent, Scope, Flow
  <2> QED
    BY <2>1, <2>4 DEF Consistent
\* Steps that change the objects.
<1>7. ASSUME NEW t \in Threads, unique_lock(t) PROVE \A u \in Threads : Consistent(u)'
  <2> DEFINE o == [m_ |-> TRUE, owns_ |-> FALSE]
  <2>1. locks'[t] = <<o>> /\ by'[t] = "constructor" /\ at'[t] = "in" /\ pc'[t] = "load"
    BY <1>7, MutexCalls DEF unique_lock
  <2>2. Only(t)
    BY <1>7, MutexCalls DEF unique_lock
  <2>3. Len(<<o>>) = 1 /\ <<o>> # <<>> /\ Top(<<o>>) = o /\ o.m_ /\ ~o.owns_
    BY DEF Top
  <2> HIDE DEF o
  <2>4. Scope("in", <<o>>) /\ Flow("in", "load", "constructor", Top(<<o>>).owns_)
    BY <2>3 DEF Scope, Flow
  <2>5. Consistent(t)'
    BY <2>1, <2>4 DEF Consistent
  <2> QED
    BY <2>2, <2>5, <1>F
<1>8. ASSUME NEW t \in Threads, lock(t) PROVE \A u \in Threads : Consistent(u)'
  <2>1. locks' = locks /\ by'[t] = "lock" /\ at'[t] = "locked" /\ pc'[t] = "load"
    BY <1>8, MutexCalls DEF lock
  <2>2. Only(t)
    BY <1>8, MutexCalls DEF lock
  <2>3. Scope("locked", locks[t]) /\ Flow("locked", "load", "lock", Top(locks[t]).owns_)
    BY <1>8 DEF Consistent, Scope, Flow, lock
  <2>4. Consistent(t)'
    BY <2>1, <2>3 DEF Consistent
  <2> QED
    BY <2>2, <2>4, <1>F
<1>9. ASSUME NEW t \in Threads, Move(t) PROVE \A u \in Threads : Consistent(u)'
  <2> DEFINE e == [m_ |-> FALSE, owns_ |-> FALSE]
             o == locks[t][1]
  <2>1. /\ locks'[t] = <<e, o>> /\ by' = by /\ at' = at /\ pc' = pc
        /\ Len(locks[t]) = 1 /\ at[t] = "in"
    BY <1>9 DEF Move, vars
  <2>2. Only(t)
    BY <1>9 DEF Move, vars
  <2>3. Top(locks[t]) = o
    BY <2>1 DEF Top
  <2>4. /\ Len(<<e, o>>) = 2 /\ <<e, o>> # <<>> /\ Top(<<e, o>>) = o
        /\ <<e, o>>[1] = e /\ ~e.owns_
    BY DEF Top
  <2> HIDE DEF e, o
  <2>5. o.m_ /\ Flow("in", pc[t], by[t], o.owns_)
    BY <2>1, <2>3 DEF Consistent, Scope
  <2>6. Scope("in", <<e, o>>)
    BY <2>4, <2>5 DEF Scope
  <2>7. Consistent(t)'
    BY <2>1, <2>4, <2>5, <2>6 DEF Consistent
  <2> QED
    BY <2>2, <2>7, <1>F
<1>10. ASSUME NEW t \in Threads, NEW b \in BOOLEAN, SetFlag(t, b), at[t] \in {"locked", "unlocked"},
              at' = [at EXCEPT ![t] = "in"], by' = by, pc' = pc,
              b => at[t] = "locked" /\ pc[t] = "cs",
              ~b => pc[t] = "idle"
       PROVE \A u \in Threads : Consistent(u)'
  <2>1. locks[t] # <<>> /\ Len(locks[t]) \in {1, 2} /\ Top(locks[t]).m_
        /\ (Len(locks[t]) = 2 => ~locks[t][1].owns_)
    BY <1>10 DEF Consistent, Scope
  <2>2. /\ Len(locks'[t]) = Len(locks[t])
        /\ Top(locks'[t]).owns_ = b /\ Top(locks'[t]).m_ = Top(locks[t]).m_
        /\ \A i \in 1..Len(locks[t]) : i # Len(locks[t]) => locks'[t][i] = locks[t][i]
        /\ \A u \in Threads : u # t => locks'[u] = locks[u]
    BY <1>10, <2>1, FlagOfTop
  <2>3. Only(t)
    BY <1>10, <2>2
  <2>4. Scope("in", locks'[t])
    <3>1. locks'[t] # <<>> /\ Len(locks'[t]) \in {1, 2} /\ Top(locks'[t]).m_
      BY <2>1, <2>2
    <3>2. Len(locks'[t]) = 2 => ~locks'[t][1].owns_
      BY <2>1, <2>2
    <3> QED
      BY <3>1, <3>2 DEF Scope
  <2>5. Flow("in", pc[t], by[t], b)
    BY <1>10 DEF Consistent, Flow
  <2>6. Consistent(t)'
    BY <1>10, <2>2, <2>4, <2>5 DEF Consistent
  <2> QED
    BY <2>3, <2>6, <1>F
<1>11. ASSUME NEW t \in Threads, lock_return(t) \/ unlock_return(t)
       PROVE \A u \in Threads : Consistent(u)'
  BY <1>11, <1>10 DEF lock_return, unlock_return, vars
<1>12. ASSUME NEW t \in Threads, Destroy(t) PROVE \A u \in Threads : Consistent(u)'
  <2>1. /\ at[t] \in {"in", "end"} /\ locks[t] # <<>> /\ by' = by
        /\ locks' = [locks EXCEPT ![t] = Front(locks[t])]
        /\ at' = [at EXCEPT ![t] = IF Len(locks[t]) = 1 THEN "out" ELSE "end"]
        /\ pc[t] \in {"cs", "idle"}
    BY <1>12 DEF Destroy
  <2>2. /\ Top(locks[t]).owns_ => pc'[t] \in {"idle", "wake"}
        /\ ~Top(locks[t]).owns_ => pc'[t] = pc[t]
        /\ \A u \in Threads : u # t => pc'[u] = pc[u]
    BY <1>12, MutexCalls DEF Destroy, Last, Top, vars
  <2>3. Len(locks[t]) \in {1, 2} /\ (Len(locks[t]) = 2 => at[t] = "in" /\ ~locks[t][1].owns_)
    <3>1. Scope(at[t], locks[t])
      BY DEF Consistent
    <3>2. Len(locks[t]) = 2 => ~locks[t][1].owns_
      BY <3>1, Zenon DEF Scope
    <3>3. at[t] = "in" => Len(locks[t]) \in {1, 2}
      BY <3>1 DEF Scope
    <3>4. at[t] = "end" => Len(locks[t]) = 1
      BY <3>1, Zenon DEF Scope
    <3>5. Len(locks[t]) \in {1, 2} /\ (Len(locks[t]) = 2 => at[t] = "in")
      <4>1. at[t] = "in" \/ at[t] = "end"
        BY <2>1
      <4>2. 1 # 2 /\ 1 \in {1, 2}
        OBVIOUS
      <4> QED
        BY <3>3, <3>4, <4>1, <4>2, Zenon
    <3> QED
      BY <3>2, <3>5, Zenon
  <2>4. /\ Len(Front(locks[t])) = Len(locks[t]) - 1 /\ Front(locks[t]) \in Seq(UniqueLock)
        /\ \A i \in 1..(Len(locks[t]) - 1) : Front(locks[t])[i] = locks[t][i]
    BY <2>1, FrontOf
  <2>5. Only(t)
    BY <2>1, <2>2
  <2>6. pc'[t] \in {"idle", "wake", "cs"} /\ (pc'[t] = "cs" => by[t] = "constructor")
    BY <2>1, <2>2 DEF Consistent, Flow
  <2>7. CASE Len(locks[t]) = 1
    <3>1. Front(locks[t]) = <<>>
      BY <2>4, <2>7
    <3>2. Scope("out", Front(locks[t])) /\ Flow("out", pc'[t], by[t], Top(Front(locks[t])).owns_)
      BY <2>6, <3>1 DEF Scope, Flow
    <3>3. Consistent(t)'
      BY <2>1, <2>7, <3>2 DEF Consistent
    <3> QED
      BY <2>5, <3>3, <1>F
  <2>8. CASE Len(locks[t]) = 2
    <3>1. Len(Front(locks[t])) = 1 /\ ~Front(locks[t])[1].owns_ /\ Front(locks[t]) # <<>>
      <4>1. Len(Front(locks[t])) = 1 /\ Front(locks[t]) # <<>>
        <5>1. Len(Front(locks[t])) = Len(locks[t]) - 1
          BY <2>4, Zenon
        <5>2. Len(Front(locks[t])) = 1
          BY <5>1, <2>8
        <5>3. Len(<<>>) = 0 /\ 0 # 1
          OBVIOUS
        <5> QED
          BY <5>2, <5>3, Zenon
      <4>2. Front(locks[t])[1] = locks[t][1]
        BY <2>4, <2>8
      <4>3. ~locks[t][1].owns_
        BY <2>3, <2>8, Zenon
      <4> QED
        BY <4>1, <4>2, <4>3, Zenon
    <3>2. by[t] # "none"
      BY <2>3, <2>8 DEF Consistent, Flow
    <3>3. Scope("end", Front(locks[t])) /\ Flow("end", pc'[t], by[t], Top(Front(locks[t])).owns_)
      BY <2>6, <3>1, <3>2 DEF Scope, Flow
    <3>4. Consistent(t)'
      BY <2>1, <2>8, <3>3 DEF Consistent
    <3> QED
      BY <2>5, <3>4, <1>F
  <2> QED
    BY <2>3, <2>7, <2>8
<1> QED
  BY <1>1, <1>3, <1>4, <1>5, <1>6, <1>7, <1>8, <1>9, <1>11, <1>12 DEF StdNext

\* FlagHonest and the others are not inductive: that the flag tells the truth
\* when the destructor looks follows from where the thread can be inside the
\* mutex at each place of its scope, and from what took the mutex for it; that
\* the predicate still holds follows from the mutex.
LEMMA StdInvStep == StdInv /\ [StdNext]_allvars => StdInv'
<1> SUFFICES ASSUME StdInv, [StdNext]_allvars PROVE StdInv'
  OBVIOUS
<1>1. LockInv' /\ StdTypeOK' /\ \A t \in Threads : Consistent(t)'
  BY StdStepsLock, LockInvStep, StdTypeStep, ConsistentStep DEF StdInv
<1> SUFFICES \A u \in Threads : at'[u] = "got" => items' > 0
  BY <1>1 DEF StdInv
<1>0. /\ at \in [Threads -> Places] /\ items \in 0..MaxItems /\ MaxItems \in Nat
      /\ \A t \in Threads : at[t] = "got" => items > 0 /\ pc[t] = "cs"
  BY StdAssumption DEF StdInv, StdTypeOK, Consistent, Flow
<1>2. CASE UNCHANGED allvars
  BY <1>0, <1>2 DEF allvars, stdvars
<1>3. ASSUME NEW t \in Threads, Take(t) PROVE \A u \in Threads : at'[u] = "got" => items' > 0
  <2>1. \A u \in Threads : u # t => at[u] # "got"
    BY <1>0, <1>3 DEF Take, Has, StdInv, LockInv, MutualExclusion, Holding
  <2> QED
    BY <1>0, <1>3, <2>1 DEF Take, Step
<1>4. ASSUME NEW t \in Threads, PushAndNotify(t)
      PROVE \A u \in Threads : at'[u] = "got" => items' > 0
  BY <1>0, <1>4 DEF PushAndNotify
<1>5. ASSUME NEW t \in Threads, PredHolds(t)
      PROVE \A u \in Threads : at'[u] = "got" => items' > 0
  BY <1>0, <1>5 DEF PredHolds, Step
<1>6. ASSUME NEW t \in Threads,
             \/ try_lock(t) \/ mutex_unlock(t) \/ unique_lock(t) \/ lock(t)
             \/ lock_return(t) \/ unlock(t) \/ unlock_return(t) \/ wait(t)
             \/ CondWait(t) \/ SpuriousWakeup(t) \/ CondWaitReturns(t)
      PROVE \A u \in Threads : at'[u] = "got" => items' > 0
  BY <1>0, <1>6 DEF try_lock, mutex_unlock, unique_lock, lock, lock_return, unlock,
     unlock_return, wait, CondWait, SpuriousWakeup, CondWaitReturns, Step
<1>7. ASSUME NEW t \in Threads, Move(t) \/ Destroy(t) \/ MutexStep(t)
      PROVE \A u \in Threads : at'[u] = "got" => items' > 0
  BY <1>0, <1>7 DEF Move, Destroy, MutexStep, stdvars
<1> QED
  BY <1>2, <1>3, <1>4, <1>5, <1>6, <1>7 DEF StdNext

\* Threads start outside any scope, with a free mutex and an empty buffer.
LEMMA StdInvInit == StdInit => StdInv
<1> SUFFICES ASSUME StdInit PROVE StdInv
  OBVIOUS
<1>1. LockInv
  BY LockInvInit DEF StdInit
<1>2. StdTypeOK
  BY <1>1, StdAssumption DEF StdInit, StdTypeOK, LockInv, Places
<1>3. ASSUME NEW t \in Threads PROVE Consistent(t)
  <2>1. at[t] = "out" /\ pc[t] = "idle" /\ locks[t] = <<>> /\ Len(<<>>) = 0
    BY DEF StdInit, Init
  <2> QED
    BY <2>1 DEF Consistent, Scope, Flow
<1> QED
  BY <1>1, <1>2, <1>3 DEF StdInv, StdInit

\* The invariant holds in every reachable state of the client.
LEMMA StdInvHolds == StdSpec => []StdInv
  BY StdInvInit, StdInvStep, PTL DEF StdSpec

-----------------------------------------------------------------------------
\* The state of the std classes is well typed in every reachable state.
THEOREM StdTypeCorrect == StdSpec => []StdTypeOK
<1>1. StdInv => StdTypeOK
  BY DEF StdInv
<1> QED
  BY <1>1, StdInvHolds, PTL

\* No destructor of a unique_lock unlocks a mutex that its thread does not
\* hold, for any number of threads and any sequence of lock, unlock, move, wait.
THEOREM FlagsAreHonest == StdSpec => []FlagHonest
<1>1. StdInv => FlagHonest
  <2> SUFFICES ASSUME StdInv, NEW t \in Threads, at[t] \in {"in", "end"},
                      NEW n \in DOMAIN locks[t], locks[t][n].owns_
               PROVE  pc[t] = "cs" /\ locks[t][n].m_
    BY DEF FlagHonest
  <2>1. locks[t] \in Seq(UniqueLock) /\ n \in 1..Len(locks[t]) /\ Len(locks[t]) \in Nat
    BY DEF StdInv, StdTypeOK, UniqueLock
  <2>2. Scope(at[t], locks[t]) /\ Flow(at[t], pc[t], by[t], Top(locks[t]).owns_)
    BY DEF StdInv, Consistent
  <2>3. at[t] # "end"
    <3>1. CASE at[t] = "end"
      <4>1. Len(locks[t]) = 1 /\ ~locks[t][1].owns_
        BY <2>2, <3>1 DEF Scope
      <4>2. n = 1
        BY <2>1, <4>1
      <4> QED
        BY <4>1, <4>2
    <3> QED
      BY <3>1
  <2>4. Len(locks[t]) \in {1, 2} /\ Top(locks[t]).m_
    BY <2>2, <2>3 DEF Scope
  <2>5. n = Len(locks[t])
    <3>1. Len(locks[t]) = 2 => ~locks[t][1].owns_
      BY <2>2, Zenon DEF Scope
    <3>2. n = 1 => locks[t][1].owns_
      BY Zenon
    <3>3. ~(Len(locks[t]) = 2 /\ n = 1)
      BY <3>1, <3>2, Zenon
    <3>4. Len(locks[t]) \in {1, 2}
      BY <2>4, Zenon
    <3> DEFINE l == Len(locks[t])
    <3>5. l \in Nat /\ n \in 1..l /\ (l = 1 \/ l = 2) /\ ~(l = 2 /\ n = 1)
      BY <2>1, <3>3, <3>4
    <3> HIDE DEF l
    <3>6. n = l
      BY <3>5
    <3> QED
      BY <3>6 DEF l
  <2>6. locks[t][n] = Top(locks[t])
    BY <2>5 DEF Top
  <2>7. pc[t] = "cs"
    BY <2>2, <2>3, <2>6 DEF Flow
  <2> QED
    BY <2>4, <2>6, <2>7
<1> QED
  BY <1>1, StdInvHolds, PTL

\* A predicate wait returns with an item in the buffer, for any number of
\* threads, items, notifications and spurious wakeups.
THEOREM PredicateHolds == StdSpec => []WaitFindsItem
<1>1. StdInv => WaitFindsItem
  BY DEF StdInv, WaitFindsItem
<1> QED
  BY <1>1, StdInvHolds, PTL

\* What lock() or try_lock() took is released at the end of the scope; a mutex
\* that stays locked was taken by the constructor.
THEOREM LeaksAreTheConstructors == StdSpec => []OnlyConstructorLeaks
<1>1. StdInv => OnlyConstructorLeaks
  BY DEF StdInv, OnlyConstructorLeaks, Consistent, Flow, Holding
<1> QED
  BY <1>1, StdInvHolds, PTL

=============================================================================
