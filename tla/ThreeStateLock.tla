--------------------------- MODULE ThreeStateLock ---------------------------
(***************************************************************************)
(* three_states_lock / three_states_unlock (nptl/three_states_lock_t.h)    *)
(* over the futex, with both users of the lock:                            *)
(*   - pthread_mutex_t (nptl/pthread_mutex.h): lock, unlock, trylock; the  *)
(*     word has no payload, Payloads = {0};                                *)
(*   - the inner lock of pthread_cond_t: the word is g1_orig_size, whose   *)
(*     upper bits the holder rewrites with a CAS that keeps the two lock   *)
(*     bits (nptl/pthread_cond.h:205-210).                                 *)
(* One action is one access to shared memory or one system call.           *)
(***************************************************************************)
EXTENDS Integers, Futex

CONSTANTS
  Payloads,  \* the values of the bits above the lock state
  WeakCas    \* TRUE: a weak CAS may fail although the values are equal

three_states_unlocked == 0
three_states_locked_no_waiter == 1
three_states_locked_waiters == 2

ASSUME LockAssumption ==
  /\ 0 \in Payloads
  /\ WeakCas \in BOOLEAN
  /\ Words = {"word"}
  /\ NoWord \notin Threads

VARIABLES
  word,      \* the lock word: st its two low bits, hi the bits above
  pc,        \* where each thread is
  expected   \* each thread's local variable of that name

vars == <<asleep, word, pc, expected>>

WordType == [st : 0..2, hi : Payloads]

PCs == {"idle", "load", "fast", "slow", "wait", "reload", "cs", "cas", "wake"}

\* The thread holds the lock.
Holding(t) == pc[t] \in {"cs", "cas"}

\* The thread is inside three_states_lock.
Locking(t) == pc[t] \in {"load", "fast", "slow", "wait", "reload"}

TypeOK ==
  /\ FutexTypeOK
  /\ word \in WordType
  /\ pc \in [Threads -> PCs]
  /\ expected \in [Threads -> WordType]

Init ==
  /\ FutexInit
  /\ word = [st |-> three_states_unlocked, hi |-> 0]
  /\ pc = [t \in Threads |-> "idle"]
  /\ expected = [t \in Threads |-> [st |-> 0, hi |-> 0]]

-----------------------------------------------------------------------------
Goto(t, from, to) == pc[t] = from /\ pc' = [pc EXCEPT ![t] = to]

\* Mutant: the compare looks at the lock bits alone, so a stale payload is
\* written back.
CasStateOnly(t, desired) == word.st = expected[t].st /\ word' = desired

\* A compare-exchange: it succeeds only on equality, ...
CasSucceeds(t, desired) == word = expected[t] /\ word' = desired

\* ... and fails on inequality, or for no reason when it is a weak one; a
\* failure loads the current value into expected.
CasFails(t) ==
  /\ word # expected[t] \/ WeakCas
  /\ expected' = [expected EXCEPT ![t] = word]
  /\ UNCHANGED word

\* Mutant: v | three_states_locked_waiters, the old state is not cleared.
OrWaiters(v) == [v EXCEPT !.st = IF @ % 2 = 1 THEN 3 ELSE 2]

\* _ClearState(v) | three_states_locked_waiters
WithWaiters(v) == [v EXCEPT !.st = three_states_locked_waiters]

\* A caller enters three_states_lock.
CallLock(t) ==
  /\ Goto(t, "idle", "load")
  /\ UNCHANGED <<asleep, word, expected>>

LockLoad(t) ==
  /\ Goto(t, "load", "fast")
  /\ expected' = [expected EXCEPT ![t] = word]
  /\ UNCHANGED <<asleep, word>>

\* Mutant: a store where the CAS was.
FastStore(t) ==
  /\ expected[t].st = three_states_unlocked
  /\ Goto(t, "fast", "cs")
  /\ word' = [expected[t] EXCEPT !.st = three_states_locked_no_waiter]
  /\ UNCHANGED <<asleep, expected>>

\* Fast path: CAS from unlocked to locked_no_waiter.
FastAcquire(t) ==
  /\ expected[t].st = three_states_unlocked
  /\ Goto(t, "fast", "cs")
  /\ CasSucceeds(t, [expected[t] EXCEPT !.st = three_states_locked_no_waiter])
  /\ UNCHANGED <<asleep, expected>>

FastRetry(t) ==
  /\ expected[t].st = three_states_unlocked
  /\ Goto(t, "fast", "fast")
  /\ CasFails(t)
  /\ UNCHANGED asleep

FastGiveUp(t) ==
  /\ expected[t].st # three_states_unlocked
  /\ Goto(t, "fast", "slow")
  /\ UNCHANGED <<asleep, word, expected>>

\* Mutant: old_state is not looked at after the CAS, so the thread that just
\* took the free lock goes on to wait for it.
SlowAcquireForgets(t) ==
  /\ expected[t].st = three_states_unlocked
  /\ Goto(t, "slow", "wait")
  /\ CasSucceeds(t, WithWaiters(expected[t]))
  /\ expected' = [expected EXCEPT ![t] = WithWaiters(@)]
  /\ UNCHANGED asleep

\* Slow path, the CAS to locked_waiters succeeded: the lock was free and is
\* ours, or we announced ourselves and go on to sleep.
SlowAcquire(t) ==
  /\ expected[t].st = three_states_unlocked
  /\ Goto(t, "slow", "cs")
  /\ CasSucceeds(t, WithWaiters(expected[t]))
  /\ UNCHANGED <<asleep, expected>>

SlowAnnounce(t) ==
  /\ expected[t].st = three_states_locked_no_waiter
  /\ Goto(t, "slow", "wait")
  /\ CasSucceeds(t, WithWaiters(expected[t]))
  /\ expected' = [expected EXCEPT ![t] = WithWaiters(@)]
  /\ UNCHANGED asleep

\* Slow path, the CAS failed: retry when the word is now unlocked, otherwise
\* fall through to FUTEX_WAIT with the value just loaded.
SlowFail(t) ==
  /\ expected[t].st # three_states_locked_waiters
  /\ CasFails(t)
  /\ Goto(t, "slow", IF word.st = three_states_unlocked THEN "slow" ELSE "wait")
  /\ UNCHANGED asleep

SlowSkip(t) ==
  /\ expected[t].st = three_states_locked_waiters
  /\ Goto(t, "slow", "wait")
  /\ UNCHANGED <<asleep, word, expected>>

\* futex_syscall(SYS_futex, word, FUTEX_WAIT, expected)
LockFutexWait(t) ==
  /\ Goto(t, "wait", "reload")
  /\ FutexWait(t, "word", word = expected[t])
  /\ UNCHANGED <<word, expected>>

LockReload(t) ==
  /\ Awake(t)
  /\ Goto(t, "reload", "slow")
  /\ expected' = [expected EXCEPT ![t] = word]
  /\ UNCHANGED <<asleep, word>>

\* pthread_mutex_trylock: a strong CAS of the whole word from unlocked; on
\* failure the caller is where it was. (Only mutexes are tried, whose payload
\* is 0; allowed on a word with payload it asks for the payload 0 as well.)
TryLock(t) ==
  /\ word = [st |-> three_states_unlocked, hi |-> 0]
  /\ Goto(t, "idle", "cs")
  /\ word' = [word EXCEPT !.st = three_states_locked_no_waiter]
  /\ UNCHANGED <<asleep, expected>>

\* The holder rewrites the payload: a load, then a CAS loop that keeps the
\* lock bits other threads may be changing (_OrigSizeStep leaves them alone).
PayloadLoad(t) ==
  /\ Payloads # {0}
  /\ Goto(t, "cs", "cas")
  /\ expected' = [expected EXCEPT ![t] = word]
  /\ UNCHANGED <<asleep, word>>

PayloadStore(t, p) ==
  /\ Goto(t, "cas", "cs")
  /\ CasSucceeds(t, [expected[t] EXCEPT !.hi = p])
  /\ UNCHANGED <<asleep, expected>>

PayloadRetry(t) ==
  /\ Goto(t, "cas", "cas")
  /\ CasFails(t)
  /\ UNCHANGED asleep

\* Mutant: fetch_sub(1) instead of clearing both lock bits.
UnlockSubtract(t) ==
  /\ Goto(t, "cs", IF word.st = three_states_locked_waiters THEN "wake" ELSE "idle")
  /\ word' = [word EXCEPT !.st = @ - 1]
  /\ UNCHANGED <<asleep, expected>>

\* three_states_unlock: clear the lock bits; FUTEX_WAKE one when the old state
\* was locked_waiters.
Unlock(t) ==
  /\ Goto(t, "cs", IF word.st = three_states_locked_waiters THEN "wake" ELSE "idle")
  /\ word' = [word EXCEPT !.st = three_states_unlocked]
  /\ UNCHANGED <<asleep, expected>>

UnlockWake(t) ==
  /\ Goto(t, "wake", "idle")
  /\ FutexWakeOne("word")
  /\ UNCHANGED <<word, expected>>

\* The steps of a thread inside three_states_lock.
LockStep(t) ==
  \/ LockLoad(t) \/ FastAcquire(t) \/ FastRetry(t) \/ FastGiveUp(t)
  \/ SlowAcquire(t) \/ SlowAnnounce(t) \/ SlowFail(t) \/ SlowSkip(t)
  \/ LockFutexWait(t) \/ LockReload(t)

\* The steps of a holder, up to the end of three_states_unlock.
HolderStep(t) ==
  \/ \E p \in Payloads : PayloadStore(t, p)
  \/ PayloadRetry(t) \/ Unlock(t) \/ UnlockWake(t)

Next ==
  \E t \in Threads :
    CallLock(t) \/ TryLock(t) \/ PayloadLoad(t) \/ LockStep(t) \/ HolderStep(t)

Spec == Init /\ [][Next]_vars

(***************************************************************************)
(* Fairness: the scheduler keeps running a thread inside lock or unlock,   *)
(* and a holder eventually unlocks. Nothing makes a thread call lock.      *)
(***************************************************************************)
FairSpec ==
  Spec /\ \A t \in Threads : WF_vars(LockStep(t)) /\ WF_vars(HolderStep(t))

-----------------------------------------------------------------------------
\* At most one thread is between lock and unlock, whichever mixture of fast
\* path, slow path, trylock and failed CAS brought it there.
MutualExclusion ==
  \A t, u \in Threads : Holding(t) /\ Holding(u) => t = u

\* The lock bits say "unlocked" exactly when nobody holds the lock: an unlock
\* can not leave a locked word behind, and no late CAS of a waiter can mark a
\* free lock as taken (lines 34-37 of three_states_lock_t.h).
LockedIffHeld ==
  (word.st # three_states_unlocked) <=> (\E t \in Threads : Holding(t))

\* The inductive invariant: mutual exclusion with what the word says.
LockInv == TypeOK /\ MutualExclusion /\ LockedIffHeld

\* The abstract lock: its owner is the holder, its payload the upper bits.
Owner ==
  IF \E t \in Threads : Holding(t)
  THEN CHOOSE t \in Threads : Holding(t)
  ELSE NoWord

Abs == INSTANCE AbstractLock WITH
         NoOwner <- NoWord, owner <- Owner, payload <- word.hi

\* three_states_lock_t.h implements AbstractLock: every step is an acquire, a
\* payload update by the owner, a release, or changes neither.
ImplementsLock == Abs!Spec

\* cv.md:186 says a thread is suspended only once the word is locked_waiters,
\* the state that makes unlock wake somebody. So as long as a thread sleeps on
\* the word, the word says so, or a wakeup is on its way, or an awake thread
\* of the slow path is going to make the word say so again.
NoSleeperForgotten ==
  Sleepers("word") # {} =>
    \/ word.st = three_states_locked_waiters
    \/ \E t \in Threads : pc[t] = "wake"
    \/ \E t \in Threads : Awake(t) /\ pc[t] \in {"slow", "wait", "reload"}

\* A thread that has called lock and finds the others quiet gets the lock, or
\* somebody else does: the lock bits never lock everybody out.
SomebodyAcquires ==
  \A t \in Threads : Locking(t) ~> (\E u \in Threads : Holding(u))

=============================================================================
