------------------------------- MODULE KFutex -------------------------------
(***************************************************************************)
(* The kernel side of the futex (kernel/k_futex.h over kernel/k_sched.h):  *)
(* hash buckets with a spinlock, a chain of futex_q nodes and a waiter     *)
(* count, kernel_futex_wait, kernel_futex_wake, schedule and               *)
(* wake_up_process. A futex_q lives on the stack of the thread that waits, *)
(* so a node is named by its thread.                                       *)
(*                                                                         *)
(* One action is one access to memory that another thread may read or      *)
(* write at that moment: the user word, the spinlock, the waiter count     *)
(* (read without the lock on the fast path of wake), and the chain or a    *)
(* node of it (written under the lock). The k_mutex/k_cond primitives of   *)
(* k_sched.h are empty, so schedule() is a loop that reads wake_pending    *)
(* until it is set.                                                        *)
(*                                                                         *)
(* The callers are userspace threads that follow the futex protocol: a     *)
(* waiter passes the value it last saw, a waker stores to the word and     *)
(* then calls wake.                                                        *)
(***************************************************************************)
EXTENDS Integers, FiniteSets, Sequences, SequencesExt

CONSTANTS
  Threads,     \* threads that make futex calls
  Words,       \* futex words
  Buckets,     \* buckets[N_BUCKETS]
  hash_futex,  \* the bucket of each word
  Vals,        \* Vals[w]: the values the futex word w takes
  Counts,      \* the n of kernel_futex_wake: 1 and INT_MAX in the callers
  NULL         \* no bucket lock

ASSUME KFutexAssumption ==
  /\ hash_futex \in [Words -> Buckets]
  /\ DOMAIN Vals = Words
  /\ Counts \subseteq Nat \ {0}
  /\ NULL \notin Buckets /\ NULL \notin Words /\ NULL \notin Threads

VARIABLES
  mem,      \* mem[w]: the value of the futex word, owned by userspace
  lock,     \* lock[b]: 0 = free, 1 = held
  chain,    \* chain[b]: the queued nodes, head first
  waiters,  \* waiters[b]: the waiter count of the bucket
  q,        \* q[t]: lock_ptr, task.state and task.wake_pending of t's node
  pc,       \* where each thread is
  uaddr,    \* uaddr[t]: the word of t's current call
  arg,      \* arg[t]: val of a wait, n of a wake
  ret,      \* ret[t]: nodes woken so far by t's wake
  pos,      \* pos[t]: pp of t's wake, as a position in the chain
  node      \* node[t]: the node t's wake has dequeued and not yet woken

vars == <<mem, lock, chain, waiters, q, pc, uaddr, arg, ret, pos, node>>

WaitPCs == {"w_lock", "w_check", "w_again", "w_enqueue", "w_count", "w_unlock",
            "schedule"}
WakePCs == {"k_fast", "k_lock", "k_walk", "k_count", "k_wakeup", "k_unlock"}

\* Between spin_lock and spin_unlock.
LockedPCs == {"w_check", "w_again", "w_enqueue", "w_count", "w_unlock",
              "k_walk", "k_count", "k_wakeup", "k_unlock"}

TASK_RUNNING == 0
TASK_INTERRUPTIBLE == 1

AnyVal == UNION {Vals[w] : w \in Words}

NoNode == [lock_ptr |-> NULL, state |-> TASK_RUNNING, wake_pending |-> 0]

TypeOK ==
  /\ mem \in [Words -> AnyVal] /\ \A w \in Words : mem[w] \in Vals[w]
  /\ lock \in [Buckets -> {0, 1}]
  /\ chain \in [Buckets -> Seq(Threads)]
  /\ waiters \in [Buckets -> Nat]
  /\ q \in [Threads -> [lock_ptr : Buckets \cup {NULL},
                        state : {TASK_RUNNING, TASK_INTERRUPTIBLE},
                        wake_pending : {0, 1}]]
  /\ pc \in [Threads -> {"user"} \cup WaitPCs \cup WakePCs]
  /\ uaddr \in [Threads -> Words \cup {NULL}]
  /\ arg \in [Threads -> AnyVal \cup Counts \cup {0}]
  /\ ret \in [Threads -> Nat]
  /\ pos \in [Threads -> Nat]
  /\ node \in [Threads -> Threads \cup {NULL}]

Init ==
  /\ mem \in {m \in [Words -> AnyVal] : \A w \in Words : m[w] \in Vals[w]}
  /\ lock = [b \in Buckets |-> 0]
  /\ chain = [b \in Buckets |-> <<>>]
  /\ waiters = [b \in Buckets |-> 0]
  /\ q = [t \in Threads |-> NoNode]
  /\ pc = [t \in Threads |-> "user"]
  /\ uaddr = [t \in Threads |-> NULL]
  /\ arg = [t \in Threads |-> 0]
  /\ ret = [t \in Threads |-> 0]
  /\ pos = [t \in Threads |-> 0]
  /\ node = [t \in Threads |-> NULL]

Goto(t, from, to) == pc[t] = from /\ pc' = [pc EXCEPT ![t] = to]

\* Back to userspace: the locals of the call are gone.
Return(t, from) ==
  /\ Goto(t, from, "user")
  /\ uaddr' = [uaddr EXCEPT ![t] = NULL]
  /\ arg' = [arg EXCEPT ![t] = 0]
  /\ ret' = [ret EXCEPT ![t] = 0]
  /\ pos' = [pos EXCEPT ![t] = 0]
  /\ q' = [q EXCEPT ![t] = NoNode]
  /\ UNCHANGED node

locals == <<uaddr, arg, ret, pos, node>>

hb(t) == hash_futex[uaddr[t]]

spin_lock(t) == lock[hb(t)] = 0 /\ lock' = [lock EXCEPT ![hb(t)] = 1]

spin_unlock(t) == lock' = [lock EXCEPT ![hb(t)] = 0]

-----------------------------------------------------------------------------
(* kernel_futex_wait(uaddr, val) *)

\* Userspace enters with the value it expects; q is initialised.
CallWait(t, w, v) ==
  /\ Goto(t, "user", "w_lock")
  /\ uaddr' = [uaddr EXCEPT ![t] = w]
  /\ arg' = [arg EXCEPT ![t] = v]
  /\ q' = [q EXCEPT ![t] = NoNode]
  /\ UNCHANGED <<mem, lock, chain, waiters, ret, pos, node>>

\* Mutant: the CAS of spin_lock is a plain exchange whose result is ignored.
WaitLockBlind(t) ==
  /\ Goto(t, "w_lock", "w_check")
  /\ lock' = [lock EXCEPT ![hb(t)] = 1]
  /\ UNCHANGED <<mem, chain, waiters, q, locals>>

\* spin_lock(&hb->lock)
WaitLock(t) ==
  /\ Goto(t, "w_lock", "w_check")
  /\ spin_lock(t)
  /\ UNCHANGED <<mem, chain, waiters, q, locals>>

\* The re-check of *uaddr == val under the bucket lock.
WaitCheck(t) ==
  /\ Goto(t, "w_check", IF mem[uaddr[t]] # arg[t] THEN "w_again" ELSE "w_enqueue")
  /\ UNCHANGED <<mem, lock, chain, waiters, q, locals>>

\* Mutant: the error path undoes a waiters++ it never did.
WaitAgainUncounts(t) ==
  /\ Return(t, "w_again")
  /\ spin_unlock(t)
  /\ waiters' = [waiters EXCEPT ![hb(t)] = @ - 1]
  /\ UNCHANGED <<mem, chain>>

\* Not equal: unlock and return -EWOULDBLOCK.
WaitAgain(t) ==
  /\ Return(t, "w_again")
  /\ spin_unlock(t)
  /\ UNCHANGED <<mem, chain, waiters>>

WaitEnqueue(t) ==
  /\ Goto(t, "w_enqueue", "w_count")
  /\ q' = [q EXCEPT ![t] = [lock_ptr |-> hb(t), state |-> TASK_INTERRUPTIBLE,
                            wake_pending |-> 0]]
  /\ chain' = [chain EXCEPT ![hb(t)] = <<t>> \o @]
  /\ UNCHANGED <<mem, lock, waiters, locals>>

WaitCount(t) ==
  /\ Goto(t, "w_count", "w_unlock")
  /\ waiters' = [waiters EXCEPT ![hb(t)] = @ + 1]
  /\ UNCHANGED <<mem, lock, chain, q, locals>>

WaitUnlock(t) ==
  /\ Goto(t, "w_unlock", "schedule")
  /\ spin_unlock(t)
  /\ UNCHANGED <<mem, chain, waiters, q, locals>>

\* Mutant: schedule returns although nobody woke the task.
ScheduleSpurious(t) ==
  /\ Return(t, "schedule")
  /\ UNCHANGED <<mem, lock, chain, waiters>>

\* schedule(&q.task) sees wake_pending, and kernel_futex_wait returns 0.
Schedule(t) ==
  /\ q[t].wake_pending = 1
  /\ Return(t, "schedule")
  /\ UNCHANGED <<mem, lock, chain, waiters>>

-----------------------------------------------------------------------------
(* kernel_futex_wake(uaddr, n) *)

\* Userspace stores to the word and enters the kernel to wake n waiters.
StoreAndCallWake(t, w, v, n) ==
  /\ Goto(t, "user", "k_fast")
  /\ mem' = [mem EXCEPT ![w] = v]
  /\ uaddr' = [uaddr EXCEPT ![t] = w]
  /\ arg' = [arg EXCEPT ![t] = n]
  /\ UNCHANGED <<lock, chain, waiters, q, ret, pos, node>>

\* Fast path: the waiter count, read without the lock.
WakeNobody(t) ==
  /\ Return(t, "k_fast")
  /\ waiters[hb(t)] = 0
  /\ UNCHANGED <<mem, lock, chain, waiters>>

WakeSomebody(t) ==
  /\ Goto(t, "k_fast", "k_lock")
  /\ waiters[hb(t)] # 0
  /\ UNCHANGED <<mem, lock, chain, waiters, q, locals>>

WakeLock(t) ==
  /\ Goto(t, "k_lock", "k_walk")
  /\ spin_lock(t)
  /\ pos' = [pos EXCEPT ![t] = 1]
  /\ UNCHANGED <<mem, chain, waiters, q, uaddr, arg, ret, node>>

\* *pp != NULL && ret < n
MoreToWake(t) == pos[t] <= Len(chain[hb(t)]) /\ ret[t] < arg[t]

\* The node pp points at.
Node(t) == chain[hb(t)][pos[t]]

\* match_futex fails: step over the node.
WalkSkip(t) ==
  /\ Goto(t, "k_walk", "k_walk")
  /\ MoreToWake(t)
  /\ uaddr[Node(t)] # uaddr[t]
  /\ pos' = [pos EXCEPT ![t] = @ + 1]
  /\ UNCHANGED <<mem, lock, chain, waiters, q, uaddr, arg, ret, node>>

\* Mutant: pp steps over the node that moved up into the dequeued one's place.
WalkDequeueAdvance(t) ==
  /\ Goto(t, "k_walk", "k_count")
  /\ MoreToWake(t)
  /\ uaddr[Node(t)] = uaddr[t]
  /\ chain' = [chain EXCEPT ![hb(t)] = RemoveAt(@, pos[t])]
  /\ q' = [q EXCEPT ![Node(t)].lock_ptr = NULL]
  /\ node' = [node EXCEPT ![t] = Node(t)]
  /\ pos' = [pos EXCEPT ![t] = @ + 1]
  /\ UNCHANGED <<mem, lock, waiters, uaddr, arg, ret>>

\* Mutant: lock_ptr still says "queued" after the dequeue.
WalkDequeueKeepsPtr(t) ==
  /\ Goto(t, "k_walk", "k_count")
  /\ MoreToWake(t)
  /\ uaddr[Node(t)] = uaddr[t]
  /\ chain' = [chain EXCEPT ![hb(t)] = RemoveAt(@, pos[t])]
  /\ node' = [node EXCEPT ![t] = Node(t)]
  /\ UNCHANGED <<mem, lock, waiters, q, uaddr, arg, ret, pos>>

\* Dequeue: pp does not move, the rest of the chain moves up to it.
WalkDequeue(t) ==
  /\ Goto(t, "k_walk", "k_count")
  /\ MoreToWake(t)
  /\ uaddr[Node(t)] = uaddr[t]
  /\ chain' = [chain EXCEPT ![hb(t)] = RemoveAt(@, pos[t])]
  /\ q' = [q EXCEPT ![Node(t)].lock_ptr = NULL]
  /\ node' = [node EXCEPT ![t] = Node(t)]
  /\ UNCHANGED <<mem, lock, waiters, uaddr, arg, ret, pos>>

WalkCount(t) ==
  /\ Goto(t, "k_count", "k_wakeup")
  /\ waiters' = [waiters EXCEPT ![hb(t)] = @ - 1]
  /\ UNCHANGED <<mem, lock, chain, q, locals>>

\* Mutant: wake_up_process only signals, wake_pending is not set.
WalkWakeupNoFlag(t) ==
  /\ Goto(t, "k_wakeup", "k_walk")
  /\ node' = [node EXCEPT ![t] = NULL]
  /\ ret' = [ret EXCEPT ![t] = @ + 1]
  /\ UNCHANGED <<mem, lock, chain, waiters, q, uaddr, arg, pos>>

\* wake_up_process(&q->task); ret++
WalkWakeup(t) ==
  /\ Goto(t, "k_wakeup", "k_walk")
  /\ q' = [q EXCEPT ![node[t]].wake_pending = 1]
  /\ node' = [node EXCEPT ![t] = NULL]
  /\ ret' = [ret EXCEPT ![t] = @ + 1]
  /\ UNCHANGED <<mem, lock, chain, waiters, uaddr, arg, pos>>

WalkEnd(t) ==
  /\ Goto(t, "k_walk", "k_unlock")
  /\ ~MoreToWake(t)
  /\ UNCHANGED <<mem, lock, chain, waiters, q, locals>>

WakeUnlock(t) ==
  /\ Return(t, "k_unlock")
  /\ spin_unlock(t)
  /\ UNCHANGED <<mem, chain, waiters>>

-----------------------------------------------------------------------------
\* The calls userspace makes.
Call(t) ==
  \/ \E w \in Words : \E v \in Vals[w] : CallWait(t, w, v)
  \/ \E w \in Words : \E v \in Vals[w], n \in Counts : StoreAndCallWake(t, w, v, n)

\* The steps of a thread inside the kernel.
WaitStep(t) ==
  \/ WaitLock(t) \/ WaitCheck(t) \/ WaitAgain(t) \/ WaitEnqueue(t)
  \/ WaitCount(t) \/ WaitUnlock(t) \/ Schedule(t)

WakeStep(t) ==
  \/ WakeNobody(t) \/ WakeSomebody(t) \/ WakeLock(t) \/ WalkSkip(t)
  \/ WalkDequeue(t) \/ WalkCount(t) \/ WalkWakeup(t) \/ WalkEnd(t)
  \/ WakeUnlock(t)

Next == \E t \in Threads : Call(t) \/ WaitStep(t) \/ WakeStep(t)

Spec == Init /\ [][Next]_vars

(***************************************************************************)
(* Fairness: a thread inside the kernel keeps running. A spinning thread   *)
(* gets the lock only if the lock stays free for it: spin_lock is unfair.  *)
(***************************************************************************)
FairSpec ==
  Spec /\ \A t \in Threads : WF_vars(WaitStep(t)) /\ WF_vars(WakeStep(t))

-----------------------------------------------------------------------------
Queued(t) == \E b \in Buckets : \E i \in DOMAIN chain[b] : chain[b][i] = t

\* Two threads are never between spin_lock and spin_unlock of one bucket, so
\* the chain is never walked and changed at the same time.
BucketExclusion ==
  \A t, u \in Threads :
    pc[t] \in LockedPCs /\ pc[u] \in LockedPCs /\ hb(t) = hb(u) => t = u

\* No dangling futex_q: a node reachable from a chain, or about to be woken by
\* a waker that already dequeued it, lies on the stack of a thread that is
\* still inside kernel_futex_wait, and has not been woken yet.
NoDanglingNode ==
  \A t \in Threads :
    Queued(t) \/ (\E u \in Threads : node[u] = t) =>
      pc[t] \in {"w_count", "w_unlock", "schedule"} /\ q[t].wake_pending = 0

\* Whenever the bucket lock is free, the bucket's three records of who waits
\* agree: the count, the chain (each node once) and the nodes' lock_ptr.
QueueConsistent ==
  \A b \in Buckets :
    lock[b] = 0 =>
      /\ waiters[b] = Len(chain[b])
      /\ IsInjective(chain[b])
      /\ \A t \in Threads :
           q[t].lock_ptr = b <=> \E i \in DOMAIN chain[b] : chain[b][i] = t

\* A waiter that was dequeued returns from kernel_futex_wait: between "not in
\* the chain any more" and wake_pending no wakeup can get lost.
DequeuedReturns ==
  \A t \in Threads :
    (pc[t] = "schedule" /\ q[t].lock_ptr = NULL) ~> (pc[t] = "user")

\* A wake for everybody (INT_MAX) that has the bucket lock reaches every thread
\* queued on its word: walking and dequeuing at once skips nobody, whatever
\* other words' nodes lie between, and all of them return.
WakeAllReachesAll ==
  \A t, u \in Threads :
    (/\ pc[u] = "k_walk" /\ pos[u] = 1 /\ ret[u] = 0
     /\ arg[u] >= Cardinality(Threads)
     /\ Queued(t) /\ uaddr[t] = uaddr[u]) ~> (pc[t] = "user")

\* k_futex.h:160-162: "before the lock is acquired, no futex_wake can get in,
\* so once the check passes and we enqueue, a later wakeup can never be
\* missed." A thread that is queued on a word that no longer has the value it
\* waits on has a wake for that word still on its way (when every wake asks
\* for all waiters).
NoMissedWakeup ==
  \A t \in Threads :
    pc[t] = "schedule" /\ Queued(t) /\ mem[uaddr[t]] # arg[t] =>
      \E u \in Threads : pc[u] \in WakePCs /\ uaddr[u] = uaddr[t]

=============================================================================
