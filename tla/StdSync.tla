------------------------------- MODULE StdSync -------------------------------
(***************************************************************************)
(* std::mutex, std::unique_lock and std::condition_variable (std/mutex,    *)
(* std/condition_variable) over the three-state lock, with the client that *)
(* cv.md describes: threads push an item and notify, or wait for an item   *)
(* with the predicate loop and take it, inside the scope of a unique_lock  *)
(* that they may unlock, lock again and move from.                         *)
(*                                                                         *)
(* pthread_cond_t is taken by what it promises: a waiter is registered     *)
(* before it releases the mutex, and wakes up when notified, or for no     *)
(* reason. (PthreadCond models the code.)                                  *)
(***************************************************************************)
EXTENDS ThreeStateLock, Sequences, SequencesExt

CONSTANT MaxItems   \* bound: how many items are in the buffer

ASSUME StdAssumption == MaxItems \in Nat \ {0} /\ Payloads = {0}

VARIABLES
  at,      \* where each thread is
  locks,   \* locks[t]: its unique_lock objects, the one moved to last
  by,      \* history: what took the mutex for the thread
  items    \* the items in the buffer that the mutex protects

stdvars == <<at, locks, by, items>>
allvars == <<vars, stdvars>>

Places == {"out", "tried", "in", "locked", "unlocked", "pred", "got", "blocked",
           "woken", "end"}

StdTypeOK ==
  /\ TypeOK
  /\ at \in [Threads -> Places]
  /\ locks \in [Threads -> Seq([m_ : BOOLEAN, owns_ : BOOLEAN])]
  /\ \A t \in Threads : Len(locks[t]) <= 2
  /\ by \in [Threads -> {"none", "constructor", "lock"}]
  /\ items \in 0..MaxItems

StdInit ==
  /\ Init
  /\ at = [t \in Threads |-> "out"]
  /\ locks = [t \in Threads |-> <<>>]
  /\ by = [t \in Threads |-> "none"]
  /\ items = 0

Step(t, from, to) == at[t] = from /\ at' = [at EXCEPT ![t] = to]

\* The thread is not inside a function of the mutex: it holds it, or does not.
Has(t) == pc[t] = "cs"
HasNot(t) == pc[t] = "idle"

SetFlag(t, b) == locks' = [locks EXCEPT ![t][Len(locks[t])].owns_ = b]

-----------------------------------------------------------------------------
\* std::mutex::try_lock and std::mutex::unlock, without a unique_lock.
try_lock(t) ==
  /\ Step(t, "out", "tried")
  /\ TryLock(t)
  /\ UNCHANGED <<locks, by, items>>

mutex_unlock(t) ==
  /\ Step(t, "tried", "out")
  /\ Unlock(t)
  /\ UNCHANGED <<locks, by, items>>

\* unique_lock(m): stores m_ and locks; owns_ keeps its initial value.
unique_lock(t) ==
  /\ Step(t, "out", "in")
  /\ CallLock(t)
  /\ locks' = [locks EXCEPT ![t] = <<[m_ |-> TRUE, owns_ |-> FALSE]>>]
  /\ by' = [by EXCEPT ![t] = "constructor"]
  /\ UNCHANGED items

\* Mutant: the moved-from object keeps its flag.
MoveKeepsFlag(t) ==
  /\ at[t] = "in" /\ Len(locks[t]) = 1
  /\ Has(t) \/ HasNot(t)
  /\ locks' = [locks EXCEPT ![t] = <<[@[1] EXCEPT !.m_ = FALSE], @[1]>>]
  /\ UNCHANGED <<vars, at, by, items>>

\* unique_lock(unique_lock &&o)
Move(t) ==
  /\ at[t] = "in" /\ Len(locks[t]) = 1
  /\ Has(t) \/ HasNot(t)
  /\ locks' = [locks EXCEPT ![t] = <<[m_ |-> FALSE, owns_ |-> FALSE], @[1]>>]
  /\ UNCHANGED <<vars, at, by, items>>

\* lock(): m_->lock(), then the flag.
lock(t) ==
  /\ HasNot(t)
  /\ Step(t, "in", "locked")
  /\ CallLock(t)
  /\ by' = [by EXCEPT ![t] = "lock"]
  /\ UNCHANGED <<locks, items>>

\* Mutant: lock() does not set the flag.
lock_forgets(t) ==
  /\ Has(t)
  /\ Step(t, "locked", "in")
  /\ UNCHANGED <<vars, locks, by, items>>

lock_return(t) ==
  /\ Has(t)
  /\ Step(t, "locked", "in")
  /\ SetFlag(t, TRUE)
  /\ UNCHANGED <<vars, by, items>>

\* unlock(): m_->unlock(), then the flag.
unlock(t) ==
  /\ Has(t)
  /\ Step(t, "in", "unlocked")
  /\ Unlock(t)
  /\ UNCHANGED <<locks, by, items>>

unlock_return(t) ==
  /\ HasNot(t)
  /\ Step(t, "unlocked", "in")
  /\ SetFlag(t, FALSE)
  /\ UNCHANGED <<vars, by, items>>

\* The end of the scope destroys the objects, the last one first: an object
\* whose flag is set unlocks.
Destroy(t) ==
  /\ at[t] \in {"in", "end"} /\ locks[t] # <<>>
  /\ Has(t) \/ HasNot(t)
  /\ locks' = [locks EXCEPT ![t] = Front(@)]
  /\ at' = [at EXCEPT ![t] = IF Len(locks[t]) = 1 THEN "out" ELSE "end"]
  /\ IF Last(locks[t]).owns_ THEN Unlock(t) ELSE UNCHANGED vars
  /\ UNCHANGED <<by, items>>

\* wait(lock, pred): while (!pred()) wait(lock);
wait(t) ==
  /\ Has(t)
  /\ Step(t, "in", "pred")
  /\ UNCHANGED <<vars, locks, by, items>>

PredHolds(t) ==
  /\ Has(t) /\ items > 0
  /\ Step(t, "pred", "got")
  /\ UNCHANGED <<vars, locks, by, items>>

\* pthread_cond_wait releases the mutex and blocks, ...
CondWait(t) ==
  /\ Has(t) /\ items = 0
  /\ Step(t, "pred", "blocked")
  /\ Unlock(t)
  /\ UNCHANGED <<locks, by, items>>

SpuriousWakeup(t) ==
  /\ Step(t, "blocked", "woken")
  /\ UNCHANGED <<vars, locks, by, items>>

\* Mutant: if instead of while.
CondWaitReturnsOnce(t) ==
  /\ HasNot(t)
  /\ Step(t, "woken", "got")
  /\ CallLock(t)
  /\ UNCHANGED <<locks, by, items>>

\* ... and locks it again. The flag of the unique_lock is not touched.
CondWaitReturns(t) ==
  /\ HasNot(t)
  /\ Step(t, "woken", "pred")
  /\ CallLock(t)
  /\ UNCHANGED <<locks, by, items>>

\* The client after the wait: take an item.
Take(t) ==
  /\ Has(t)
  /\ Step(t, "got", "in")
  /\ items' = items - 1
  /\ UNCHANGED <<vars, locks, by>>

\* The client that pushes an item and notifies one or all inside the lock.
Blocked == {u \in Threads : at[u] = "blocked"}

PushAndNotify(t) ==
  /\ Has(t) /\ at[t] = "in" /\ items < MaxItems
  /\ items' = items + 1
  /\ \E woken \in SUBSET Blocked :
       /\ woken = Blocked \/ (\E u \in Blocked : woken = {u})
       /\ at' = [u \in Threads |-> IF u \in woken THEN "woken" ELSE at[u]]
  /\ UNCHANGED <<vars, locks, by>>

\* The steps inside the functions of the mutex.
MutexStep(t) ==
  /\ LockStep(t) \/ UnlockWake(t)
  /\ UNCHANGED stdvars

StdNext ==
  \E t \in Threads :
    \/ try_lock(t) \/ mutex_unlock(t) \/ unique_lock(t) \/ Move(t)
    \/ lock(t) \/ lock_return(t) \/ unlock(t) \/ unlock_return(t) \/ Destroy(t)
    \/ wait(t) \/ PredHolds(t) \/ CondWait(t) \/ SpuriousWakeup(t)
    \/ CondWaitReturns(t) \/ Take(t) \/ PushAndNotify(t) \/ MutexStep(t)

StdSpec == StdInit /\ [][StdNext]_allvars

-----------------------------------------------------------------------------
\* A flag that is set tells the truth whenever the destructor may look at it,
\* and only one object of a scope has it set: no destructor unlocks a mutex
\* that its thread does not hold, moves included (std/mutex:26-46).
FlagHonest ==
  \A t \in Threads : at[t] \in {"in", "end"} =>
    \A n \in DOMAIN locks[t] : locks[t][n].owns_ => pc[t] = "cs" /\ locks[t][n].m_

\* A wait with a predicate returns with the predicate true under the mutex,
\* however it was woken and whoever took the item in between
\* (std/condition_variable:24-28).
WaitFindsItem == \A t \in Threads : at[t] = "got" /\ Has(t) => items > 0

\* A thread that has left its scope still holds the mutex only if the
\* constructor took it: owns_ is false then (std/mutex:25) and the destructor
\* does not unlock. What lock() took is always released.
OnlyConstructorLeaks ==
  \A t \in Threads : at[t] = "out" /\ Holding(t) => by[t] = "constructor"

=============================================================================
