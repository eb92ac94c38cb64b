---------------------------- MODULE KFutexProofs ----------------------------
(***************************************************************************)
(* Proofs about the kernel futex, for any number of threads, words,        *)
(* buckets, and any hash function between the last two.                    *)
(***************************************************************************)
EXTENDS KFutex, SequenceTheorems, FiniteSetTheorems, TLAPS

-----------------------------------------------------------------------------
(* The two operations on a chain *)

OnChain(s, x) == \E i \in DOMAIN s : s[i] = x

\* futex_wait puts its node at the head of the chain: the chain gets one longer
\* and holds the node besides what it held.
LEMMA PushFront ==
  ASSUME NEW S, NEW s \in Seq(S), NEW x \in S, IsInjective(s), ~OnChain(s, x)
  PROVE  /\ <<x>> \o s \in Seq(S)
         /\ Len(<<x>> \o s) = Len(s) + 1
         /\ IsInjective(<<x>> \o s)
         /\ \A y \in S : OnChain(<<x>> \o s, y) <=> y = x \/ OnChain(s, y)
<1> DEFINE r == <<x>> \o s
<1>1. <<x>> \in Seq(S) /\ Len(<<x>>) = 1 /\ <<x>>[1] = x
  OBVIOUS
<1>2. /\ r \in Seq(S) /\ Len(r) = Len(s) + 1
      /\ \A i \in 1..(Len(s) + 1) : r[i] = IF i <= 1 THEN x ELSE s[i - 1]
  BY <1>1, ConcatProperties
<1>3. DOMAIN r = 1..(Len(s) + 1) /\ DOMAIN s = 1..Len(s) /\ Len(s) \in Nat
  BY <1>2
<1> HIDE DEF r
<1>4. r[1] = x /\ \A i \in DOMAIN s : i + 1 \in DOMAIN r /\ r[i + 1] = s[i]
  BY <1>2, <1>3
<1>5. \A i \in DOMAIN r : i = 1 \/ (i - 1 \in DOMAIN s /\ r[i] = s[i - 1])
  BY <1>2, <1>3
<1>6. IsInjective(r)
  BY <1>3, <1>4, <1>5 DEF IsInjective, OnChain
<1>7. \A y \in S : OnChain(r, y) <=> y = x \/ OnChain(s, y)
  BY <1>3, <1>4, <1>5 DEF OnChain
<1> QED
  BY <1>2, <1>6, <1>7 DEF r

\* futex_wake unlinks the node pp points at: the chain gets one shorter and
\* holds what it held besides that node.
LEMMA Unlink ==
  ASSUME NEW S, NEW s \in Seq(S), NEW n \in 1..Len(s), IsInjective(s)
  PROVE  /\ RemoveAt(s, n) \in Seq(S)
         /\ Len(RemoveAt(s, n)) = Len(s) - 1
         /\ IsInjective(RemoveAt(s, n))
         /\ \A y \in S : OnChain(RemoveAt(s, n), y) <=> OnChain(s, y) /\ y # s[n]
         /\ \A i \in DOMAIN RemoveAt(s, n) : i < n => i \in DOMAIN s /\ RemoveAt(s, n)[i] = s[i]
<1> DEFINE a == SubSeq(s, 1, n - 1)
           b == SubSeq(s, n + 1, Len(s))
           r == a \o b
<1>0. DOMAIN s = 1..Len(s) /\ Len(s) \in Nat /\ n \in Nat /\ n >= 1 /\ n <= Len(s)
  OBVIOUS
<1>1. \A i \in 1..Len(s) : s[i] \in S
  BY ElementOfSeq
<1>2. /\ a \in Seq(S) /\ Len(a) = n - 1
      /\ \A i \in 1..(n - 1) : a[i] = s[i]
  <2>1. \A i \in 1..(n - 1) : s[i] \in S
    BY <1>0, <1>1
  <2>2. 1 \in Int /\ n - 1 \in Int
    BY <1>0
  <2>3. /\ a \in Seq(S) /\ Len(a) = IF 1 <= n - 1 THEN (n - 1) - 1 + 1 ELSE 0
        /\ \A i \in 1..((n - 1) - 1 + 1) : a[i] = s[1 + i - 1]
    BY <2>1, <2>2, SubSeqProperties
  <2> HIDE DEF a
  <2> QED
    BY <2>3, <1>0
<1>3. /\ b \in Seq(S) /\ Len(b) = Len(s) - n
      /\ \A i \in 1..(Len(s) - n) : b[i] = s[n + i]
  <2>1. PICK m \in Int : m = n + 1
    BY <1>0
  <2> DEFINE l == Len(s)
  <2>2. l = Len(s) /\ l \in Int
    BY <1>0
  <2> HIDE DEF l
  <2>3. \A i \in m..l : s[i] \in S
    <3> TAKE i \in m..l
    <3>1. i \in 1..Len(s)
      BY <1>0, <2>1, <2>2
    <3> QED
      BY <3>1, <1>1
  <2>4. /\ SubSeq(s, m, l) \in Seq(S)
        /\ Len(SubSeq(s, m, l)) = IF m <= l THEN l - m + 1 ELSE 0
        /\ \A i \in 1..(l - m + 1) : SubSeq(s, m, l)[i] = s[m + i - 1]
    BY <2>2, <2>3, SubSeqProperties
  <2>5. b = SubSeq(s, m, l)
    BY <2>1, <2>2
  <2>6. l \in Nat /\ n \in 1..l
    BY <1>0, <2>2
  <2>7. b \in Seq(S) /\ Len(b) = IF m <= l THEN l - m + 1 ELSE 0
    BY <2>4, <2>5
  <2>8. Len(b) = l - n
    BY <2>1, <2>6, <2>7
  <2>9. \A i \in 1..(l - n) : b[i] = s[n + i]
    <3> TAKE i \in 1..(l - n)
    <3>1. i \in 1..(l - m + 1) /\ m + i - 1 = n + i
      BY <2>1, <2>6
    <3> QED
      BY <3>1, <2>4, <2>5
  <2> HIDE DEF b
  <2> QED
    BY <2>2, <2>7, <2>8, <2>9
<1>4. /\ r \in Seq(S) /\ Len(r) = Len(a) + Len(b)
      /\ \A i \in 1..(Len(a) + Len(b)) :
           r[i] = IF i <= Len(a) THEN a[i] ELSE b[i - Len(a)]
  BY <1>2, <1>3, ConcatProperties
<1>5. RemoveAt(s, n) = r
  BY DEF RemoveAt
<1> HIDE DEF r, a, b
<1>6. Len(r) = Len(s) - 1 /\ DOMAIN r = 1..(Len(s) - 1)
  <2>1. Len(r) = Len(s) - 1
    BY <1>0, <1>2, <1>3, <1>4
  <2>2. DOMAIN r = 1..Len(r)
    BY <1>4
  <2> QED
    BY <2>1, <2>2
<1>7. \A i \in DOMAIN r : r[i] = IF i < n THEN s[i] ELSE s[i + 1]
  <2> TAKE i \in DOMAIN r
  <2>1. i \in 1..(Len(a) + Len(b)) /\ i \in Int
    BY <1>0, <1>2, <1>3, <1>6
  <2>2. CASE i < n
    BY <2>1, <2>2, <1>0, <1>2, <1>4
  <2>3. CASE i >= n
    <3>1. i - (n - 1) \in 1..(Len(s) - n) /\ n + (i - (n - 1)) = i + 1
      BY <2>1, <2>3, <1>0, <1>6
    <3>2. Len(a) = n - 1 /\ ~(i <= Len(a))
      BY <2>1, <2>3, <1>0, <1>2
    <3>3. r[i] = b[i - (n - 1)]
      BY <2>1, <3>2, <1>4
    <3>4. b[i - (n - 1)] = s[n + (i - (n - 1))]
      BY <3>1, <1>3
    <3>5. ~(i < n)
      BY <2>1, <2>3, <1>0
    <3> QED
      BY <3>1, <3>3, <3>4, <3>5
  <2> QED
    BY <2>1, <2>2, <2>3, <1>0
<1>8. IsInjective(r)
  BY <1>0, <1>6, <1>7 DEF IsInjective
<1>9. \A y \in S : OnChain(r, y) <=> OnChain(s, y) /\ y # s[n]
  <2> TAKE y \in S
  <2>1. ASSUME NEW i \in DOMAIN r, r[i] = y PROVE OnChain(s, y) /\ y # s[n]
    BY <2>1, <1>0, <1>6, <1>7 DEF OnChain, IsInjective
  <2>2. ASSUME NEW i \in DOMAIN s, s[i] = y, y # s[n] PROVE OnChain(r, y)
    <3>1. CASE i < n
      <4>1. i \in DOMAIN r /\ r[i] = y
        BY <3>1, <2>2, <1>0, <1>6, <1>7
      <4> QED
        BY <4>1 DEF OnChain
    <3>2. CASE i > n
      <4>1. i - 1 \in DOMAIN r /\ r[i - 1] = y
        BY <3>2, <2>2, <1>0, <1>6, <1>7
      <4> QED
        BY <4>1 DEF OnChain
    <3> QED
      BY <3>1, <3>2, <2>2, <1>0
  <2> QED
    BY <2>1, <2>2 DEF OnChain
<1>10. \A i \in DOMAIN r : i < n => i \in DOMAIN s /\ r[i] = s[i]
  BY <1>0, <1>6, <1>7
<1> QED
  BY <1>4, <1>5, <1>6, <1>8, <1>9, <1>10

-----------------------------------------------------------------------------
(* The inductive invariant *)

\* The locals of a call: a thread in the kernel works on a word, a walk stands
\* at a position of the chain, and holds a dequeued node for two steps.
CallInv ==
  \A t \in Threads :
    /\ pc[t] # "user" => uaddr[t] \in Words
    /\ pc[t] \in {"k_walk", "k_count", "k_wakeup"} => pos[t] >= 1
    /\ node[t] # NULL <=> pc[t] \in {"k_count", "k_wakeup"}

\* A thread between spin_lock and spin_unlock sees its bucket's lock taken, and
\* is alone there.
SpinInv ==
  /\ \A t \in Threads : pc[t] \in LockedPCs => lock[hb(t)] = 1
  /\ BucketExclusion

\* Chain and lock_ptr agree at every moment, not only while the lock is free:
\* each is only written in the step that writes the other.
ChainInv ==
  /\ \A b \in Buckets : IsInjective(chain[b])
  /\ \A b \in Buckets, t \in Threads : q[t].lock_ptr = b <=> OnChain(chain[b], t)

\* The waiter count is off by one while a lock holder is between the step that
\* moves the chain and the step that moves the count.
CountInv ==
  /\ \A b \in Buckets :
       (\A t \in Threads : pc[t] \in {"w_count", "k_count"} => hb(t) # b)
         => waiters[b] = Len(chain[b])
  /\ \A t \in Threads :
       /\ pc[t] = "w_count" => waiters[hb(t)] + 1 = Len(chain[hb(t)])
       /\ pc[t] = "k_count" => waiters[hb(t)] = Len(chain[hb(t)]) + 1

\* A node is queued, or in the hands of one waker, or neither; in the first two
\* cases its owner is still inside kernel_futex_wait and has not been woken.
NodeInv ==
  /\ \A t \in Threads :
       q[t].lock_ptr # NULL \/ (\E u \in Threads : node[u] = t) =>
         pc[t] \in {"w_count", "w_unlock", "schedule"} /\ q[t].wake_pending = 0
  /\ \A t, u \in Threads : node[u] = t => q[t].lock_ptr = NULL
  /\ \A u, v \in Threads : node[u] # NULL /\ node[u] = node[v] => u = v

KInv == TypeOK /\ CallInv /\ SpinInv /\ ChainInv /\ CountInv /\ NodeInv

\* What the type invariant says of a node.
NodeType == [lock_ptr : Buckets \cup {NULL},
             state : {TASK_RUNNING, TASK_INTERRUPTIBLE},
             wake_pending : {0, 1}]

\* The two writes to one field of a node of another thread: the dequeue clears
\* lock_ptr, wake_up_process sets wake_pending.
LEMMA NodeUpdates ==
  ASSUME NEW r \in NodeType
  PROVE  /\ [r EXCEPT !.lock_ptr = NULL] \in NodeType
         /\ [r EXCEPT !.lock_ptr = NULL].lock_ptr = NULL
         /\ [r EXCEPT !.lock_ptr = NULL].wake_pending = r.wake_pending
         /\ [r EXCEPT !.wake_pending = 1] \in NodeType
         /\ [r EXCEPT !.wake_pending = 1].lock_ptr = r.lock_ptr
  BY DEF NodeType

\* The node a walk is about to look at belongs to a thread.
LEMMA WalkNode ==
  ASSUME KInv, NEW t \in Threads, pc[t] = "k_walk", MoreToWake(t)
  PROVE  /\ hb(t) \in Buckets
         /\ pos[t] \in 1..Len(chain[hb(t)])
         /\ Node(t) \in Threads
         /\ Node(t) # NULL
         /\ q[Node(t)].lock_ptr = hb(t)
<1>1. hb(t) \in Buckets /\ chain[hb(t)] \in Seq(Threads)
  BY KFutexAssumption DEF KInv, CallInv, TypeOK, hb
<1>2. pos[t] \in 1..Len(chain[hb(t)])
  BY <1>1 DEF KInv, CallInv, TypeOK, MoreToWake
<1>3. Node(t) \in Threads
  BY <1>1, <1>2, ElementOfSeq DEF Node
<1>4. OnChain(chain[hb(t)], Node(t))
  BY <1>1, <1>2 DEF OnChain, Node
<1> QED
  BY <1>1, <1>2, <1>3, <1>4, KFutexAssumption DEF KInv, ChainInv

\* Every thread inside a call works on a bucket.
LEMMA CallBucket ==
  ASSUME KInv, NEW t \in Threads, pc[t] # "user"
  PROVE  uaddr[t] \in Words /\ hb(t) \in Buckets
  BY KFutexAssumption DEF KInv, CallInv, TypeOK, hb

\* Every step keeps the types; the waiter count does not go below zero.
LEMMA TypeStep == KInv /\ [Next]_vars => TypeOK'
<1> SUFFICES ASSUME KInv, [Next]_vars PROVE TypeOK'
  OBVIOUS
<1> USE KFutexAssumption
<1>0. TypeOK
  BY DEF KInv
<1>1. CASE UNCHANGED vars
  BY <1>0, <1>1 DEF vars, TypeOK
<1> USE DEF TypeOK, Goto, Return, locals, NoNode, WaitPCs, WakePCs, TASK_RUNNING,
            TASK_INTERRUPTIBLE
<1>2. ASSUME NEW t \in Threads, Call(t) PROVE TypeOK'
  <2>1. ASSUME NEW w \in Words, NEW v \in Vals[w], CallWait(t, w, v) PROVE TypeOK'
    <3>1. v \in AnyVal
      BY DEF AnyVal
    <3> QED
      BY <1>0, <2>1, <3>1 DEF CallWait
  <2>2. ASSUME NEW w \in Words, NEW v \in Vals[w], NEW n \in Counts,
               StoreAndCallWake(t, w, v, n)
        PROVE TypeOK'
    <3>1. v \in AnyVal
      BY DEF AnyVal
    <3> QED
      BY <1>0, <2>2, <3>1 DEF StoreAndCallWake
  <2> QED
    BY <1>2, <2>1, <2>2 DEF Call
<1>3. ASSUME NEW t \in Threads, WaitStep(t) PROVE TypeOK'
  <2>0. hb(t) \in Buckets
    BY <1>3, CallBucket DEF WaitStep, WaitLock, WaitCheck, WaitAgain, WaitEnqueue,
       WaitCount, WaitUnlock, Schedule
  <2>1. CASE WaitLock(t) \/ WaitUnlock(t)
    BY <1>0, <2>0, <2>1 DEF WaitLock, WaitUnlock, spin_lock, spin_unlock
  <2>2. CASE WaitCheck(t)
    BY <1>0, <2>2 DEF WaitCheck
  <2>3. CASE WaitAgain(t)
    BY <1>0, <2>0, <2>3 DEF WaitAgain, spin_unlock
  <2>4. CASE WaitEnqueue(t)
    <3>1. <<t>> \o chain[hb(t)] \in Seq(Threads)
      BY <1>0, <2>0
    <3> HIDE DEF hb
    <3> QED
      BY <1>0, <2>0, <2>4, <3>1 DEF WaitEnqueue
  <2>5. CASE WaitCount(t)
    BY <1>0, <2>0, <2>5 DEF WaitCount
  <2>6. CASE Schedule(t)
    BY <1>0, <2>6 DEF Schedule
  <2> QED
    BY <1>3, <2>1, <2>2, <2>3, <2>4, <2>5, <2>6 DEF WaitStep
<1>4. ASSUME NEW t \in Threads, WakeStep(t) PROVE TypeOK'
  <2>0. hb(t) \in Buckets
    BY <1>4, CallBucket DEF WakeStep, WakeNobody, WakeSomebody, WakeLock, WalkSkip,
       WalkDequeue, WalkCount, WalkWakeup, WalkEnd, WakeUnlock
  <2>1. CASE WakeNobody(t)
    BY <1>0, <2>1 DEF WakeNobody
  <2>8. CASE WakeUnlock(t)
    BY <1>0, <2>0, <2>8 DEF WakeUnlock, spin_unlock
  <2>2. CASE WakeSomebody(t) \/ WalkEnd(t)
    BY <1>0, <2>2 DEF WakeSomebody, WalkEnd
  <2>3. CASE WakeLock(t)
    BY <1>0, <2>0, <2>3 DEF WakeLock, spin_lock
  <2>4. CASE WalkSkip(t)
    BY <1>0, <2>4 DEF WalkSkip
  <2>5. CASE WalkDequeue(t)
    <3>1. pc[t] = "k_walk" /\ MoreToWake(t)
      BY <2>5 DEF WalkDequeue
    <3>2. pos[t] \in 1..Len(chain[hb(t)]) /\ Node(t) \in Threads
      BY <3>1, WalkNode
    <3>3. IsInjective(chain[hb(t)]) /\ chain[hb(t)] \in Seq(Threads)
      BY <1>0, <2>0 DEF KInv, ChainInv
    <3>4. RemoveAt(chain[hb(t)], pos[t]) \in Seq(Threads)
      BY <3>2, <3>3, Unlink
    <3>5. chain' \in [Buckets -> Seq(Threads)]
      BY <1>0, <2>0, <2>5, <3>4 DEF WalkDequeue
    <3>6. q' = [q EXCEPT ![Node(t)] = [@ EXCEPT !.lock_ptr = NULL]]
      BY <2>5 DEF WalkDequeue
    <3>7. q' \in [Threads -> NodeType]
      <4>1. q \in [Threads -> NodeType]
        BY <1>0 DEF NodeType
      <4>2. [q[Node(t)] EXCEPT !.lock_ptr = NULL] \in NodeType
        BY <4>1, <3>2, NodeUpdates
      <4> QED
        BY <4>1, <4>2, <3>2, <3>6
    <3>8. pc' \in [Threads -> {"user"} \cup WaitPCs \cup WakePCs]
          /\ node' \in [Threads -> Threads \cup {NULL}]
      BY <1>0, <2>5, <3>2 DEF WalkDequeue
    <3>9. UNCHANGED <<mem, lock, waiters, uaddr, arg, ret, pos>>
      BY <2>5 DEF WalkDequeue
    <3> QED
      BY <1>0, <3>5, <3>7, <3>8, <3>9 DEF NodeType
  <2>6. CASE WalkCount(t)
    <3>1. waiters[hb(t)] - 1 \in Nat
      BY <1>0, <2>0, <2>6 DEF WalkCount, KInv, CountInv
    <3> QED
      BY <1>0, <2>0, <2>6, <3>1 DEF WalkCount
  <2>7. CASE WalkWakeup(t)
    <3>1. node[t] \in Threads
      BY <1>0, <2>7 DEF WalkWakeup, KInv, CallInv
    <3>2. q' = [q EXCEPT ![node[t]] = [@ EXCEPT !.wake_pending = 1]]
      BY <2>7 DEF WalkWakeup
    <3>3. q' \in [Threads -> NodeType]
      <4>1. q \in [Threads -> NodeType]
        BY <1>0 DEF NodeType
      <4>2. [q[node[t]] EXCEPT !.wake_pending = 1] \in NodeType
        BY <4>1, <3>1, NodeUpdates
      <4> QED
        BY <4>1, <4>2, <3>1, <3>2
    <3>4. pc' \in [Threads -> {"user"} \cup WaitPCs \cup WakePCs]
          /\ node' \in [Threads -> Threads \cup {NULL}]
          /\ ret' \in [Threads -> Nat]
      BY <1>0, <2>7 DEF WalkWakeup
    <3>5. UNCHANGED <<mem, lock, chain, waiters, uaddr, arg, pos>>
      BY <2>7 DEF WalkWakeup
    <3> QED
      BY <1>0, <3>3, <3>4, <3>5 DEF NodeType
  <2> QED
    BY <1>4, <2>1, <2>2, <2>3, <2>4, <2>5, <2>6, <2>7, <2>8 DEF WakeStep
<1> QED
  BY <1>1, <1>2, <1>3, <1>4 DEF Next

\* A step of one thread leaves the program counter and the locals of every
\* other thread alone.
LEMMA OthersKeep ==
  ASSUME TypeOK, NEW t \in Threads, Call(t) \/ WaitStep(t) \/ WakeStep(t),
         NEW u \in Threads, u # t
  PROVE  /\ pc'[u] = pc[u] /\ uaddr'[u] = uaddr[u] /\ arg'[u] = arg[u]
         /\ ret'[u] = ret[u] /\ pos'[u] = pos[u] /\ node'[u] = node[u]
         /\ hb(u)' = hb(u)
<1> USE DEF TypeOK, Goto, Return, locals, hb
<1>1. CASE Call(t)
  BY <1>1 DEF Call, CallWait, StoreAndCallWake
<1>2. CASE WaitStep(t)
  <2>1. CASE WaitLock(t) \/ WaitCheck(t) \/ WaitEnqueue(t) \/ WaitCount(t) \/ WaitUnlock(t)
    BY <2>1 DEF WaitLock, WaitCheck, WaitEnqueue, WaitCount, WaitUnlock
  <2>2. CASE WaitAgain(t) \/ Schedule(t)
    BY <2>2 DEF WaitAgain, Schedule
  <2> QED
    BY <1>2, <2>1, <2>2 DEF WaitStep
<1>3. CASE WakeStep(t)
  <2>1. CASE WakeNobody(t) \/ WakeUnlock(t)
    BY <2>1 DEF WakeNobody, WakeUnlock
  <2>2. CASE WakeSomebody(t) \/ WalkEnd(t) \/ WalkCount(t)
    BY <2>2 DEF WakeSomebody, WalkEnd, WalkCount
  <2>3. CASE WakeLock(t) \/ WalkSkip(t)
    BY <2>3 DEF WakeLock, WalkSkip
  <2>4. CASE WalkDequeue(t)
    BY <2>4 DEF WalkDequeue
  <2>5. CASE WalkWakeup(t)
    BY <2>5 DEF WalkWakeup
  <2> QED
    BY <1>3, <2>1, <2>2, <2>3, <2>4, <2>5 DEF WakeStep
<1> QED
  BY <1>1, <1>2, <1>3

\* A walk keeps its position and the node in its hands from the step that takes
\* them to the step that uses them.
LEMMA CallStep == KInv /\ [Next]_vars => CallInv'
<1> SUFFICES ASSUME KInv, [Next]_vars PROVE CallInv'
  OBVIOUS
<1> DEFINE Local(t) ==
      /\ pc[t] # "user" => uaddr[t] \in Words
      /\ pc[t] \in {"k_walk", "k_count", "k_wakeup"} => pos[t] >= 1
      /\ node[t] # NULL <=> pc[t] \in {"k_count", "k_wakeup"}
<1>0. TypeOK /\ CallInv
  BY DEF KInv
<1>1. CASE UNCHANGED vars
  BY <1>0, <1>1 DEF vars, CallInv
<1>2. ASSUME NEW t \in Threads, Call(t) \/ WaitStep(t) \/ WakeStep(t)
      PROVE  CallInv'
  <2>1. ASSUME NEW u \in Threads, u # t PROVE Local(u)'
    <3>1. Local(u)
      BY <1>0 DEF CallInv
    <3> QED
      BY <1>0, <1>2, <2>1, <3>1, OthersKeep
  <2>2. Local(t)
    BY <1>0 DEF CallInv
  <2> USE DEF TypeOK, Goto, Return, locals
  <2>3. ASSUME Call(t) PROVE Local(t)'
    BY <1>0, <2>2, <2>3 DEF Call, CallWait, StoreAndCallWake
  <2>4. ASSUME WaitStep(t) PROVE Local(t)'
    <3>1. CASE WaitLock(t) \/ WaitCheck(t) \/ WaitEnqueue(t) \/ WaitCount(t) \/ WaitUnlock(t)
      BY <1>0, <2>2, <3>1 DEF WaitLock, WaitCheck, WaitEnqueue, WaitCount, WaitUnlock
    <3>2. CASE WaitAgain(t) \/ Schedule(t)
      BY <1>0, <2>2, <3>2 DEF WaitAgain, Schedule
    <3> QED
      BY <2>4, <3>1, <3>2 DEF WaitStep
  <2>5. ASSUME WakeStep(t) PROVE Local(t)'
    <3>1. CASE WakeNobody(t) \/ WakeUnlock(t)
      BY <1>0, <2>2, <3>1 DEF WakeNobody, WakeUnlock
    <3>2. CASE WakeSomebody(t) \/ WalkEnd(t) \/ WalkCount(t)
      BY <1>0, <2>2, <3>2 DEF WakeSomebody, WalkEnd, WalkCount
    <3>3. CASE WakeLock(t)
      BY <1>0, <2>2, <3>3 DEF WakeLock
    <3>4. CASE WalkSkip(t)
      BY <1>0, <2>2, <3>4 DEF WalkSkip
    <3>5. CASE WalkDequeue(t)
      <4>1. Node(t) # NULL
        BY <3>5, WalkNode DEF WalkDequeue
      <4> QED
        BY <1>0, <2>2, <3>5, <4>1 DEF WalkDequeue
    <3>6. CASE WalkWakeup(t)
      BY <1>0, <2>2, <3>6 DEF WalkWakeup
    <3> QED
      BY <2>5, <3>1, <3>2, <3>3, <3>4, <3>5, <3>6 DEF WakeStep
  <2> QED
    BY <1>2, <2>1, <2>3, <2>4, <2>5 DEF CallInv
<1> QED
  BY <1>1, <1>2 DEF Next

\* Only the thread that took a bucket's lock releases it.
LEMMA SpinStep == KInv /\ [Next]_vars => SpinInv'
<1> SUFFICES ASSUME KInv, [Next]_vars PROVE SpinInv'
  OBVIOUS
<1>0. TypeOK /\ SpinInv
  BY DEF KInv
<1>1. CASE UNCHANGED vars
  BY <1>0, <1>1 DEF vars, SpinInv, BucketExclusion, hb
<1>2. ASSUME NEW t \in Threads, Call(t) \/ WaitStep(t) \/ WakeStep(t)
      PROVE  SpinInv'
  <2>1. \A u \in Threads : u # t => pc'[u] = pc[u] /\ hb(u)' = hb(u)
    BY <1>0, <1>2, OthersKeep
  <2>2. \A u \in Threads : pc[u] \in LockedPCs => hb(u) \in Buckets /\ lock[hb(u)] = 1
    BY <1>0, CallBucket DEF SpinInv, LockedPCs
  <2> DEFINE Outside == pc'[t] \notin LockedPCs /\ pc[t] \notin LockedPCs /\ lock' = lock
             Inside == /\ pc'[t] \in LockedPCs /\ pc[t] \in LockedPCs
                       /\ lock' = lock /\ hb(t)' = hb(t)
             Enter == /\ pc'[t] \in LockedPCs /\ hb(t)' = hb(t) /\ hb(t) \in Buckets
                      /\ lock[hb(t)] = 0 /\ lock' = [lock EXCEPT ![hb(t)] = 1]
             Leave == /\ pc'[t] \notin LockedPCs /\ pc[t] \in LockedPCs
                      /\ lock' = [lock EXCEPT ![hb(t)] = 0]
  <2>3. Outside \/ Inside \/ Enter \/ Leave
    <3> USE DEF TypeOK, LockedPCs, Goto, Return, locals
    <3>1. CASE Call(t)
      BY <1>0, <3>1 DEF Call, CallWait, StoreAndCallWake
    <3>2. CASE WaitLock(t)
      <4>1. hb(t) \in Buckets
        BY <3>2, CallBucket DEF WaitLock
      <4> QED
        BY <1>0, <3>2, <4>1 DEF WaitLock, spin_lock, hb
    <3>3. CASE WaitCheck(t)
      BY <1>0, <3>3 DEF WaitCheck, hb
    <3>4. CASE WaitEnqueue(t) \/ WaitCount(t)
      BY <1>0, <3>4 DEF WaitEnqueue, WaitCount, hb
    <3>5. CASE WaitAgain(t) \/ WaitUnlock(t) \/ WakeUnlock(t)
      BY <1>0, <3>5 DEF WaitAgain, WaitUnlock, WakeUnlock, spin_unlock
    <3>6. CASE Schedule(t) \/ WakeNobody(t) \/ WakeSomebody(t)
      BY <1>0, <3>6 DEF Schedule, WakeNobody, WakeSomebody
    <3>7. CASE WakeLock(t)
      <4>1. hb(t) \in Buckets
        BY <3>7, CallBucket DEF WakeLock
      <4> QED
        BY <1>0, <3>7, <4>1 DEF WakeLock, spin_lock, hb
    <3>8. CASE WalkSkip(t) \/ WalkDequeue(t) \/ WalkCount(t)
      BY <1>0, <3>8 DEF WalkSkip, WalkDequeue, WalkCount, hb
    <3>9. CASE WalkWakeup(t) \/ WalkEnd(t)
      BY <1>0, <3>9 DEF WalkWakeup, WalkEnd, hb
    <3> QED
      BY <1>2, <3>1, <3>2, <3>3, <3>4, <3>5, <3>6, <3>7, <3>8, <3>9
         DEF WaitStep, WakeStep
  <2>4. CASE Outside \/ Inside
    BY <1>0, <2>1, <2>2, <2>4 DEF SpinInv, BucketExclusion
  <2>5. CASE Enter
    <3>1. \A u \in Threads : pc[u] \in LockedPCs => hb(u) # hb(t)
      BY <2>2, <2>5
    <3>2. \A u \in Threads : pc'[u] \in LockedPCs /\ u # t =>
            hb(u)' # hb(t)' /\ lock'[hb(u)'] = 1
      BY <1>0, <2>1, <2>2, <2>5, <3>1 DEF TypeOK
    <3>3. lock'[hb(t)'] = 1
      BY <1>0, <2>5 DEF TypeOK
    <3> QED
      BY <1>0, <2>1, <3>2, <3>3 DEF SpinInv, BucketExclusion
  <2>6. CASE Leave
    <3>1. \A u \in Threads : pc[u] \in LockedPCs /\ u # t => hb(u) # hb(t)
      BY <1>0, <2>6 DEF SpinInv, BucketExclusion
    <3>2. \A u \in Threads : pc'[u] \in LockedPCs =>
            /\ u # t /\ pc[u] \in LockedPCs /\ hb(u)' = hb(u) /\ lock'[hb(u)] = 1
      BY <1>0, <2>1, <2>2, <2>6, <3>1 DEF TypeOK
    <3> QED
      BY <1>0, <3>2 DEF SpinInv, BucketExclusion
  <2> QED
    BY <2>3, <2>4, <2>5, <2>6
<1> QED
  BY <1>1, <1>2 DEF Next

\* Enqueue and dequeue change the chain and the node's lock_ptr together, and
\* nobody else's node; a thread that gives its node up has left the chain.
LEMMA ChainStep == KInv /\ [Next]_vars => ChainInv'
<1> SUFFICES ASSUME KInv, [Next]_vars PROVE ChainInv'
  OBVIOUS
<1>0. TypeOK /\ ChainInv /\ NodeInv
  BY DEF KInv
<1>1. CASE UNCHANGED vars
  BY <1>0, <1>1 DEF vars, ChainInv
<1>2. ASSUME NEW t \in Threads, WaitEnqueue(t) PROVE ChainInv'
  <2>1. hb(t) \in Buckets
    BY <1>2, CallBucket DEF WaitEnqueue, Goto
  <2>2. q[t].lock_ptr = NULL
    BY <1>0, <1>2 DEF NodeInv, WaitEnqueue, Goto
  <2>3. ~OnChain(chain[hb(t)], t) /\ IsInjective(chain[hb(t)])
        /\ chain[hb(t)] \in Seq(Threads)
    BY <1>0, <2>1, <2>2, KFutexAssumption DEF ChainInv, TypeOK
  <2>4. /\ IsInjective(<<t>> \o chain[hb(t)])
        /\ \A y \in Threads :
             OnChain(<<t>> \o chain[hb(t)], y) <=> y = t \/ OnChain(chain[hb(t)], y)
    BY <2>3, PushFront
  <2>5. chain' = [chain EXCEPT ![hb(t)] = <<t>> \o chain[hb(t)]]
    BY <1>2 DEF WaitEnqueue
  <2>6. q'[t].lock_ptr = hb(t) /\ \A u \in Threads : u # t => q'[u] = q[u]
    BY <1>0, <1>2 DEF WaitEnqueue, TypeOK
  <2>7. \A b \in Buckets : chain'[b] = IF b = hb(t) THEN <<t>> \o chain[hb(t)] ELSE chain[b]
    BY <1>0, <2>5 DEF TypeOK
  <2>8. \A b \in Buckets : IsInjective(chain'[b])
    BY <1>0, <2>4, <2>7 DEF ChainInv
  <2>9. ASSUME NEW b \in Buckets, NEW u \in Threads
        PROVE  q'[u].lock_ptr = b <=> OnChain(chain'[b], u)
    <3>1. q[u].lock_ptr = b <=> OnChain(chain[b], u)
      BY <1>0 DEF ChainInv
    <3>2. ~OnChain(chain[b], t)
      BY <1>0, <2>2, KFutexAssumption DEF ChainInv
    <3> QED
      BY <2>1, <2>4, <2>6, <2>7, <3>1, <3>2
  <2> QED
    BY <2>8, <2>9 DEF ChainInv
<1>3. ASSUME NEW t \in Threads, WalkDequeue(t) PROVE ChainInv'
  <2>1. /\ hb(t) \in Buckets /\ pos[t] \in 1..Len(chain[hb(t)])
        /\ Node(t) \in Threads /\ q[Node(t)].lock_ptr = hb(t)
    BY <1>3, WalkNode DEF WalkDequeue, Goto
  <2>2. IsInjective(chain[hb(t)]) /\ chain[hb(t)] \in Seq(Threads)
    BY <1>0, <2>1 DEF ChainInv, TypeOK
  <2> DEFINE r == RemoveAt(chain[hb(t)], pos[t])
  <2>3. /\ IsInjective(r)
        /\ \A y \in Threads : OnChain(r, y) <=> OnChain(chain[hb(t)], y) /\ y # Node(t)
    BY <2>1, <2>2, Unlink DEF Node
  <2>4. \A b \in Buckets : chain'[b] = IF b = hb(t) THEN r ELSE chain[b]
    BY <1>0, <1>3 DEF WalkDequeue, TypeOK
  <2> HIDE DEF r
  <2>5. q' = [q EXCEPT ![Node(t)] = [q[Node(t)] EXCEPT !.lock_ptr = NULL]]
    BY <1>3 DEF WalkDequeue
  <2>6. q[Node(t)] \in NodeType
    BY <1>0, <2>1 DEF TypeOK, NodeType
  <2>7. q'[Node(t)].lock_ptr = NULL /\ \A u \in Threads : u # Node(t) => q'[u] = q[u]
    BY <1>0, <2>1, <2>5, <2>6, NodeUpdates DEF TypeOK
  <2>8. \A b \in Buckets : IsInjective(chain'[b])
    BY <1>0, <2>3, <2>4 DEF ChainInv
  <2>9. ASSUME NEW b \in Buckets, NEW u \in Threads
        PROVE  q'[u].lock_ptr = b <=> OnChain(chain'[b], u)
    <3>1. q[u].lock_ptr = b <=> OnChain(chain[b], u)
      BY <1>0 DEF ChainInv
    <3>2. u = Node(t) => q[u].lock_ptr = hb(t)
      BY <2>1
    <3>3. CASE u = Node(t)
      <4>1. ~OnChain(chain'[b], u)
        BY <2>1, <2>3, <2>4, <3>1, <3>2, <3>3
      <4> QED
        BY <4>1, <2>7, <3>3, KFutexAssumption
    <3>4. CASE u # Node(t)
      BY <2>3, <2>4, <2>7, <3>1, <3>4
    <3> QED
      BY <3>3, <3>4
  <2> QED
    BY <2>8, <2>9 DEF ChainInv
<1>4. ASSUME NEW t \in Threads, WalkWakeup(t) PROVE ChainInv'
  <2>1. node[t] \in Threads
    BY <1>4 DEF KInv, TypeOK, CallInv, WalkWakeup, Goto
  <2>2. q' = [q EXCEPT ![node[t]] = [q[node[t]] EXCEPT !.wake_pending = 1]]
    BY <1>4 DEF WalkWakeup
  <2>3. q[node[t]] \in NodeType
    BY <1>0, <2>1 DEF TypeOK, NodeType
  <2>4. \A u \in Threads : q'[u].lock_ptr = q[u].lock_ptr
    BY <1>0, <2>1, <2>2, <2>3, NodeUpdates DEF TypeOK
  <2> QED
    BY <1>0, <1>4, <2>4 DEF WalkWakeup, ChainInv
<1>5. ASSUME NEW t \in Threads, q' = [q EXCEPT ![t] = NoNode], chain' = chain,
             pc[t] \notin {"w_count", "w_unlock", "schedule"} \/ q[t].wake_pending = 1
      PROVE ChainInv'
  <2>1. q[t].lock_ptr = NULL
    BY <1>0, <1>5 DEF NodeInv
  <2>2. \A u \in Threads : q'[u].lock_ptr = q[u].lock_ptr
    BY <1>0, <1>5, <2>1 DEF TypeOK, NoNode
  <2> QED
    BY <1>0, <1>5, <2>2 DEF ChainInv
<1>6. CASE UNCHANGED <<chain, q>>
  BY <1>0, <1>6 DEF ChainInv
<1>7. ASSUME NEW t \in Threads, Call(t) \/ WaitStep(t) \/ WakeStep(t)
      PROVE  ChainInv'
  <2>1. CASE Call(t)
    BY <1>5, <1>6, <2>1 DEF Call, CallWait, StoreAndCallWake, Goto
  <2>2. CASE WaitStep(t)
    BY <1>2, <1>5, <1>6, <2>2 DEF WaitStep, WaitLock, WaitCheck, WaitAgain, WaitCount,
       WaitUnlock, Schedule, Goto, Return
  <2>3. CASE WakeStep(t)
    BY <1>3, <1>4, <1>5, <1>6, <2>3 DEF WakeStep, WakeNobody, WakeSomebody, WakeLock,
       WalkSkip, WalkCount, WalkEnd, WakeUnlock, Goto, Return
  <2> QED
    BY <1>7, <2>1, <2>2, <2>3
<1> QED
  BY <1>1, <1>7 DEF Next

\* The count follows the chain one step behind, under the lock: no other thread
\* can be between the two steps in the same bucket.
LEMMA CountStep == KInv /\ [Next]_vars => CountInv'
<1> SUFFICES ASSUME KInv, [Next]_vars PROVE CountInv'
  OBVIOUS
<1>0. TypeOK /\ CountInv /\ SpinInv /\ ChainInv
  BY DEF KInv
<1>1. CASE UNCHANGED vars
  BY <1>0, <1>1 DEF vars, CountInv, hb
<1>2. ASSUME NEW t \in Threads, Call(t) \/ WaitStep(t) \/ WakeStep(t)
      PROVE  CountInv'
  <2>1. \A u \in Threads : u # t => pc'[u] = pc[u] /\ hb(u)' = hb(u)
    BY <1>0, <1>2, OthersKeep
  <2>2. ASSUME NEW u \in Threads, u # t, pc[u] \in {"w_count", "k_count"},
               pc[t] \in LockedPCs
        PROVE  hb(u) # hb(t)
    BY <1>0, <2>2 DEF SpinInv, BucketExclusion, LockedPCs
  <2>3. CASE /\ pc[t] \notin {"w_count", "k_count"}
             /\ pc'[t] \notin {"w_count", "k_count"}
             /\ UNCHANGED <<chain, waiters>>
    BY <1>0, <2>1, <2>3 DEF CountInv
  <2>4. ASSUME WaitEnqueue(t) PROVE CountInv'
    <3>1. /\ pc[t] = "w_enqueue" /\ pc'[t] = "w_count" /\ hb(t)' = hb(t)
          /\ waiters' = waiters /\ hb(t) \in Buckets
      BY <1>0, <2>4, CallBucket DEF WaitEnqueue, Goto, TypeOK, locals, hb
    <3>2. q[t].lock_ptr = NULL
      BY <3>1 DEF KInv, NodeInv
    <3>3. ~OnChain(chain[hb(t)], t) /\ IsInjective(chain[hb(t)])
          /\ chain[hb(t)] \in Seq(Threads)
      BY <1>0, <3>1, <3>2, KFutexAssumption DEF ChainInv, TypeOK
    <3>4. Len(chain'[hb(t)]) = Len(chain[hb(t)]) + 1
      BY <1>0, <2>4, <3>1, <3>3, PushFront DEF WaitEnqueue, TypeOK
    <3>5. \A b \in Buckets : b # hb(t) => chain'[b] = chain[b]
      BY <1>0, <2>4 DEF WaitEnqueue, TypeOK
    <3>6. \A u \in Threads : pc[u] \in {"w_count", "k_count"} => hb(u) # hb(t)
      BY <3>1, <2>2 DEF LockedPCs
    <3>7. waiters[hb(t)] = Len(chain[hb(t)])
      BY <1>0, <3>1, <3>6 DEF CountInv
    <3>8. \A u \in Threads : pc[u] \in {"w_count", "k_count"} => hb(u) \in Buckets
      BY CallBucket
    <3>9. ASSUME NEW b \in Buckets,
                 \A u \in Threads : pc'[u] \in {"w_count", "k_count"} => hb(u)' # b
          PROVE  waiters'[b] = Len(chain'[b])
      <4>1. b # hb(t)
        BY <3>1, <3>9
      <4>2. \A u \in Threads : pc[u] \in {"w_count", "k_count"} => hb(u) # b
        BY <2>1, <3>1, <3>9
      <4> QED
        BY <1>0, <3>1, <3>5, <4>1, <4>2 DEF CountInv
    <3>10. ASSUME NEW u \in Threads
           PROVE  /\ pc'[u] = "w_count" => waiters'[hb(u)'] + 1 = Len(chain'[hb(u)'])
                  /\ pc'[u] = "k_count" => waiters'[hb(u)'] = Len(chain'[hb(u)']) + 1
      <4>1. CASE u = t
        BY <3>1, <3>4, <3>7, <4>1
      <4>2. CASE u # t
        <5>1. pc'[u] = pc[u] /\ hb(u)' = hb(u)
          BY <2>1, <4>2
        <5>2. pc[u] \in {"w_count", "k_count"} => chain'[hb(u)] = chain[hb(u)]
          BY <3>5, <3>6, <3>8
        <5> QED
          BY <1>0, <3>1, <5>1, <5>2 DEF CountInv
      <4> QED
        BY <4>1, <4>2
    <3> QED
      BY <3>9, <3>10 DEF CountInv
  <2>5. ASSUME WalkDequeue(t) PROVE CountInv'
    <3>1. /\ pc[t] = "k_walk" /\ pc'[t] = "k_count" /\ hb(t)' = hb(t)
          /\ waiters' = waiters
      BY <1>0, <2>5 DEF WalkDequeue, Goto, TypeOK, hb
    <3>2. hb(t) \in Buckets /\ pos[t] \in 1..Len(chain[hb(t)])
      BY <2>5, <3>1, WalkNode DEF WalkDequeue
    <3>3. IsInjective(chain[hb(t)]) /\ chain[hb(t)] \in Seq(Threads)
      BY <1>0, <3>2 DEF ChainInv, TypeOK
    <3>4. Len(chain'[hb(t)]) = Len(chain[hb(t)]) - 1 /\ Len(chain[hb(t)]) \in Nat
      BY <1>0, <2>5, <3>2, <3>3, Unlink DEF WalkDequeue, TypeOK
    <3>5. \A b \in Buckets : b # hb(t) => chain'[b] = chain[b]
      BY <1>0, <2>5 DEF WalkDequeue, TypeOK
    <3>6. \A u \in Threads : pc[u] \in {"w_count", "k_count"} => hb(u) # hb(t)
      BY <3>1, <2>2 DEF LockedPCs
    <3>7. waiters[hb(t)] = Len(chain[hb(t)])
      BY <1>0, <3>2, <3>6 DEF CountInv
    <3>8. \A u \in Threads : pc[u] \in {"w_count", "k_count"} => hb(u) \in Buckets
      BY CallBucket
    <3>9. ASSUME NEW b \in Buckets,
                 \A u \in Threads : pc'[u] \in {"w_count", "k_count"} => hb(u)' # b
          PROVE  waiters'[b] = Len(chain'[b])
      <4>1. b # hb(t)
        BY <3>1, <3>9
      <4>2. \A u \in Threads : pc[u] \in {"w_count", "k_count"} => hb(u) # b
        BY <2>1, <3>1, <3>9
      <4> QED
        BY <1>0, <3>1, <3>5, <4>1, <4>2 DEF CountInv
    <3>10. ASSUME NEW u \in Threads
           PROVE  /\ pc'[u] = "w_count" => waiters'[hb(u)'] + 1 = Len(chain'[hb(u)'])
                  /\ pc'[u] = "k_count" => waiters'[hb(u)'] = Len(chain'[hb(u)']) + 1
      <4>1. CASE u = t
        BY <3>1, <3>2, <3>4, <3>7, <4>1
      <4>2. CASE u # t
        <5>1. pc'[u] = pc[u] /\ hb(u)' = hb(u)
          BY <2>1, <4>2
        <5>2. pc[u] \in {"w_count", "k_count"} => chain'[hb(u)] = chain[hb(u)]
          BY <3>5, <3>6, <3>8
        <5> QED
          BY <1>0, <3>1, <5>1, <5>2 DEF CountInv
      <4> QED
        BY <4>1, <4>2
    <3> QED
      BY <3>9, <3>10 DEF CountInv
  <2>6. ASSUME WaitCount(t) \/ WalkCount(t) PROVE CountInv'
    <3>1. /\ pc[t] \in {"w_count", "k_count"} /\ pc'[t] \notin {"w_count", "k_count"}
          /\ hb(t)' = hb(t) /\ chain' = chain /\ hb(t) \in Buckets
      BY <1>0, <2>6, CallBucket DEF WaitCount, WalkCount, Goto, TypeOK, locals, hb
    <3>2. waiters'[hb(t)] = Len(chain[hb(t)])
      <4>1. Len(chain[hb(t)]) \in Nat /\ waiters[hb(t)] \in Nat
        BY <1>0, <3>1 DEF TypeOK
      <4> QED
        BY <1>0, <2>6, <3>1, <4>1 DEF CountInv, WaitCount, WalkCount, Goto, TypeOK
    <3>3. \A b \in Buckets : b # hb(t) => waiters'[b] = waiters[b]
      BY <1>0, <2>6 DEF WaitCount, WalkCount, TypeOK
    <3>4. \A u \in Threads : u # t /\ pc[u] \in {"w_count", "k_count"} =>
            hb(u) # hb(t) /\ hb(u) \in Buckets
      BY <3>1, <2>2, CallBucket DEF LockedPCs
    <3> QED
      BY <1>0, <2>1, <3>1, <3>2, <3>3, <3>4 DEF CountInv
  <2> USE DEF TypeOK, Goto, Return, locals
  <2>7. CASE Call(t)
    BY <1>0, <2>3, <2>7 DEF Call, CallWait, StoreAndCallWake
  <2>8. CASE WaitStep(t)
    BY <1>0, <2>3, <2>4, <2>6, <2>8 DEF WaitStep, WaitLock, WaitCheck, WaitAgain,
       WaitUnlock, Schedule
  <2>9. CASE WakeStep(t)
    BY <1>0, <2>3, <2>5, <2>6, <2>9 DEF WakeStep, WakeNobody, WakeSomebody, WakeLock,
       WalkSkip, WalkWakeup, WalkEnd, WakeUnlock
  <2> QED
    BY <1>2, <2>7, <2>8, <2>9
<1> QED
  BY <1>1, <1>2 DEF Next

\* A waker takes a node off the chain before it wakes it, and wakes it once; so
\* the owner cannot leave kernel_futex_wait while anybody can reach its node.
LEMMA NodeStep == KInv /\ [Next]_vars => NodeInv'
<1> SUFFICES ASSUME KInv, [Next]_vars PROVE NodeInv'
  OBVIOUS
<1> DEFINE Asleep == {"w_count", "w_unlock", "schedule"}
<1>0. TypeOK /\ NodeInv /\ CallInv
  BY DEF KInv
<1>1. CASE UNCHANGED vars
  BY <1>0, <1>1 DEF vars, NodeInv
<1>2. ASSUME NEW t \in Threads, Call(t) \/ WaitStep(t) \/ WakeStep(t)
      PROVE  NodeInv'
  <2>1. \A u \in Threads : u # t => pc'[u] = pc[u] /\ node'[u] = node[u]
    BY <1>0, <1>2, OthersKeep
  <2>2. CASE UNCHANGED <<q, node>> /\ (pc[t] \in Asleep => pc'[t] \in Asleep)
    BY <1>0, <2>1, <2>2 DEF NodeInv
  <2>3. CASE /\ node' = node
             /\ \A u \in Threads : u # t => q'[u] = q[u]
             /\ q'[t].lock_ptr = NULL
             /\ pc[t] \notin Asleep \/ q[t].wake_pending = 1
    <3>1. \A u \in Threads : node[u] # t
      BY <1>0, <2>3 DEF NodeInv
    <3> QED
      BY <1>0, <2>1, <2>3, <3>1 DEF NodeInv
  <2>4. ASSUME WaitEnqueue(t) PROVE NodeInv'
    <3>1. pc[t] = "w_enqueue" /\ pc'[t] = "w_count" /\ node' = node
      BY <1>0, <2>4 DEF WaitEnqueue, Goto, TypeOK, locals
    <3>2. q'[t].wake_pending = 0 /\ \A u \in Threads : u # t => q'[u] = q[u]
      BY <1>0, <2>4 DEF WaitEnqueue, TypeOK
    <3>3. \A u \in Threads : node[u] # t
      BY <1>0, <3>1 DEF NodeInv
    <3> QED
      BY <1>0, <2>1, <3>1, <3>2, <3>3 DEF NodeInv
  <2>5. ASSUME WalkDequeue(t) PROVE NodeInv'
    <3>1. pc[t] = "k_walk" /\ pc'[t] = "k_count" /\ node'[t] = Node(t) /\ node[t] = NULL
      BY <1>0, <2>5 DEF WalkDequeue, Goto, TypeOK, CallInv
    <3>2. /\ Node(t) \in Threads /\ Node(t) # NULL /\ q[Node(t)].lock_ptr = hb(t)
          /\ hb(t) \in Buckets
      BY <2>5, <3>1, WalkNode DEF WalkDequeue
    <3>3. /\ pc[Node(t)] \in Asleep /\ q[Node(t)].wake_pending = 0 /\ Node(t) # t
          /\ \A u \in Threads : node[u] # Node(t)
      BY <1>0, <3>1, <3>2, KFutexAssumption DEF NodeInv
    <3>4. q[Node(t)] \in NodeType
      BY <1>0, <3>2 DEF TypeOK, NodeType
    <3>5. q' = [q EXCEPT ![Node(t)] = [q[Node(t)] EXCEPT !.lock_ptr = NULL]]
      BY <2>5 DEF WalkDequeue
    <3>6. /\ q'[Node(t)].lock_ptr = NULL /\ q'[Node(t)].wake_pending = 0
          /\ \A u \in Threads : u # Node(t) => q'[u] = q[u]
      BY <1>0, <3>2, <3>3, <3>4, <3>5, NodeUpdates DEF TypeOK
    <3> QED
      BY <1>0, <2>1, <3>1, <3>2, <3>3, <3>6 DEF NodeInv
  <2>6. ASSUME WalkWakeup(t) PROVE NodeInv'
    <3>1. pc[t] = "k_wakeup" /\ pc'[t] = "k_walk" /\ node'[t] = NULL
      BY <1>0, <2>6 DEF WalkWakeup, Goto, TypeOK
    <3>2. node[t] \in Threads /\ node[t] # NULL
      BY <1>0, <3>1, KFutexAssumption DEF TypeOK, CallInv
    <3>3. /\ q[node[t]].lock_ptr = NULL /\ pc[node[t]] \in Asleep /\ node[t] # t
          /\ \A u \in Threads : u # t => node[u] # node[t]
      BY <1>0, <3>1, <3>2 DEF NodeInv
    <3>4. q[node[t]] \in NodeType
      BY <1>0, <3>2 DEF TypeOK, NodeType
    <3>5. q' = [q EXCEPT ![node[t]] = [q[node[t]] EXCEPT !.wake_pending = 1]]
      BY <2>6 DEF WalkWakeup
    <3>6. /\ q'[node[t]].lock_ptr = NULL
          /\ \A u \in Threads : u # node[t] => q'[u] = q[u]
      BY <1>0, <3>2, <3>3, <3>4, <3>5, NodeUpdates DEF TypeOK
    <3>7. \A u \in Threads : node'[u] # node[t]
      BY <2>1, <3>1, <3>2, <3>3
    <3> QED
      BY <1>0, <2>1, <3>1, <3>2, <3>3, <3>6, <3>7, KFutexAssumption DEF NodeInv
  <2> USE DEF TypeOK, Goto, Return, locals, NoNode
  <2>7. CASE Call(t)
    BY <1>0, <2>2, <2>3, <2>7 DEF Call, CallWait, StoreAndCallWake
  <2>8. CASE WaitStep(t)
    <3>1. CASE WaitLock(t) \/ WaitCheck(t) \/ WaitCount(t) \/ WaitUnlock(t)
      BY <1>0, <2>2, <3>1 DEF WaitLock, WaitCheck, WaitCount, WaitUnlock
    <3>2. CASE WaitAgain(t) \/ Schedule(t)
      BY <1>0, <2>3, <3>2 DEF WaitAgain, Schedule
    <3> QED
      BY <2>4, <2>8, <3>1, <3>2 DEF WaitStep
  <2>9. CASE WakeStep(t)
    <3>1. CASE WakeSomebody(t) \/ WakeLock(t) \/ WalkSkip(t) \/ WalkCount(t) \/ WalkEnd(t)
      BY <1>0, <2>2, <3>1 DEF WakeSomebody, WakeLock, WalkSkip, WalkCount, WalkEnd
    <3>2. CASE WakeNobody(t) \/ WakeUnlock(t)
      BY <1>0, <2>3, <3>2 DEF WakeNobody, WakeUnlock
    <3> QED
      BY <2>5, <2>6, <2>9, <3>1, <3>2 DEF WakeStep
  <2> QED
    BY <1>2, <2>7, <2>8, <2>9
<1> QED
  BY <1>1, <1>2 DEF Next

\* The kernel starts with free, empty buckets and every thread in userspace.
LEMMA KInvInit == Init => KInv
<1> SUFFICES ASSUME Init PROVE KInv
  OBVIOUS
<1> USE KFutexAssumption DEF Init, NoNode
<1>1. TypeOK
  BY DEF TypeOK, TASK_RUNNING, TASK_INTERRUPTIBLE, WaitPCs, WakePCs
<1>2. CallInv /\ SpinInv /\ NodeInv
  BY DEF CallInv, SpinInv, BucketExclusion, LockedPCs, NodeInv
<1>3. ChainInv /\ CountInv
  BY DEF ChainInv, CountInv, OnChain, IsInjective
<1> QED
  BY <1>1, <1>2, <1>3 DEF KInv

\* The invariant holds in every reachable state of the kernel.
LEMMA KInvHolds == Spec => []KInv
<1>1. KInv /\ [Next]_vars => KInv'
  BY TypeStep, CallStep, SpinStep, ChainStep, CountStep, NodeStep DEF KInv
<1> QED
  BY <1>1, KInvInit, PTL DEF Spec

-----------------------------------------------------------------------------
\* The kernel's words, chains, counts and nodes are well typed in every
\* reachable state; in particular hb->waiters never goes below zero.
THEOREM KernelTypeCorrect == Spec => []TypeOK
<1>1. KInv => TypeOK
  BY DEF KInv
<1> QED
  BY <1>1, KInvHolds, PTL

\* The spinlock of a bucket excludes: one thread at a time walks or changes the
\* chain, whatever the hash function lets collide.
THEOREM SpinLockExcludes == Spec => []BucketExclusion
<1>1. KInv => BucketExclusion
  BY DEF KInv, SpinInv
<1> QED
  BY <1>1, KInvHolds, PTL

\* The futex_q on the stack of a waiter is never reached after its owner has
\* returned from kernel_futex_wait, nor woken twice.
THEOREM NodesNeverDangle == Spec => []NoDanglingNode
<1>1. KInv => NoDanglingNode
  <2> SUFFICES ASSUME KInv, NEW t \in Threads,
                      Queued(t) \/ (\E u \in Threads : node[u] = t)
               PROVE  /\ pc[t] \in {"w_count", "w_unlock", "schedule"}
                      /\ q[t].wake_pending = 0
    BY DEF NoDanglingNode
  <2>1. Queued(t) => q[t].lock_ptr # NULL
    BY KFutexAssumption DEF KInv, ChainInv, Queued, OnChain
  <2> QED
    BY <2>1 DEF KInv, NodeInv
<1> QED
  BY <1>1, KInvHolds, PTL

\* Whoever takes a free bucket lock finds the count, the chain and the nodes'
\* lock_ptr in agreement, for any number of threads, words and buckets.
THEOREM QueueStaysConsistent == Spec => []QueueConsistent
<1>1. KInv => QueueConsistent
  <2> SUFFICES ASSUME KInv, NEW b \in Buckets, lock[b] = 0
               PROVE  /\ waiters[b] = Len(chain[b])
                      /\ IsInjective(chain[b])
                      /\ \A t \in Threads :
                           q[t].lock_ptr = b <=> \E i \in DOMAIN chain[b] : chain[b][i] = t
    BY DEF QueueConsistent
  <2>1. \A t \in Threads : pc[t] \in {"w_count", "k_count"} => hb(t) # b
    BY DEF KInv, SpinInv, LockedPCs
  <2>2. waiters[b] = Len(chain[b])
    BY <2>1 DEF KInv, CountInv
  <2> QED
    BY <2>2 DEF KInv, ChainInv, OnChain
<1> QED
  BY <1>1, KInvHolds, PTL

-----------------------------------------------------------------------------
(* The walk of kernel_futex_wake *)

\* A walk never goes back: it has seen what lies before its position, and what
\* it left there waits on another word.
WalkPCs == {"k_walk", "k_count", "k_wakeup", "k_unlock"}
PassedOver(u) ==
  \A i \in DOMAIN chain[hb(u)] : i < pos[u] => uaddr[chain[hb(u)][i]] # uaddr[u]

\* A node is queued in the bucket of the word its thread waits on.
BucketInv == \A t \in Threads : q[t].lock_ptr # NULL => q[t].lock_ptr = hb(t)

\* What a call of wake knows: it wakes no more nodes than it was asked to, only
\* such as wait on its word, and stops at the end of the chain or of its count.
WalkInv ==
  \A u \in Threads :
    /\ pc[u] \in WakePCs => arg[u] \in Counts
    /\ pc[u] \notin WalkPCs => ret[u] = 0
    /\ pc[u] \in WalkPCs => ret[u] <= arg[u] /\ pos[u] >= 1 /\ PassedOver(u)
    /\ pc[u] \in {"k_count", "k_wakeup"} => ret[u] < arg[u] /\ uaddr[node[u]] = uaddr[u]
    /\ pc[u] = "k_unlock" => ~MoreToWake(u)

\* The nodes a walk has woken, the one in its hands and those still in the chain
\* are all of other threads.
Taken(u) == IF pc[u] \in {"k_count", "k_wakeup"} THEN 1 ELSE 0
RoomInv ==
  \A u \in Threads :
    pc[u] \in WalkPCs => ret[u] + Taken(u) + Len(chain[hb(u)]) < Cardinality(Threads)

\* kernel_futex_wake(uaddr, n) takes out waiters of its own word only, wakes at
\* most n, and ends with fewer only where none of them is queued any more.
WakePrecise ==
  \A u \in Threads :
    /\ node[u] # NULL => uaddr[node[u]] = uaddr[u]
    /\ pc[u] = "k_unlock" =>
         /\ ret[u] <= arg[u]
         /\ ret[u] < arg[u] => \A t \in Threads : Queued(t) => uaddr[t] # uaddr[u]

\* A wake for everybody ends with nobody queued on its word.
WakeAllLeavesNobody ==
  \A u, t \in Threads :
    pc[u] = "k_unlock" /\ arg[u] >= Cardinality(Threads) /\ Queued(t) => uaddr[t] # uaddr[u]

-----------------------------------------------------------------------------
\* Under the bucket lock nobody else touches the chain.
LEMMA ChainKept ==
  ASSUME KInv, NEW t \in Threads, Call(t) \/ WaitStep(t) \/ WakeStep(t),
         NEW u \in Threads, u # t, pc[u] \in LockedPCs
  PROVE  chain'[hb(u)] = chain[hb(u)]
<1>0. /\ chain \in [Buckets -> Seq(Threads)] /\ hb(u) \in Buckets /\ pc[u] # "user"
      /\ pc[t] \in LockedPCs => hb(t) # hb(u)
  BY CallBucket DEF KInv, TypeOK, SpinInv, BucketExclusion, LockedPCs
<1>1. CASE UNCHANGED chain
  BY <1>1
<1>2. CASE WaitEnqueue(t)
  BY <1>0, <1>2 DEF WaitEnqueue, Goto, LockedPCs
<1>3. CASE WalkDequeue(t)
  BY <1>0, <1>3 DEF WalkDequeue, Goto, LockedPCs
<1>4. CASE Call(t)
  BY <1>1, <1>4 DEF Call, CallWait, StoreAndCallWake
<1>5. CASE WaitStep(t)
  BY <1>1, <1>2, <1>5 DEF WaitStep, WaitLock, WaitCheck, WaitAgain, WaitCount, WaitUnlock, Schedule
<1>6. CASE WakeStep(t)
  BY <1>1, <1>3, <1>6 DEF WakeStep, WakeNobody, WakeSomebody, WakeLock, WalkSkip, WalkCount,
     WalkWakeup, WalkEnd, WakeUnlock
<1> QED
  BY <1>4, <1>5, <1>6

\* A queued thread, and one whose node a waker has in its hands, stays in its
\* call and on its word.
LEMMA WordKept ==
  ASSUME KInv, NEW t \in Threads, Call(t) \/ WaitStep(t) \/ WakeStep(t),
         NEW v \in Threads, q[v].lock_ptr # NULL \/ \E u \in Threads : node[u] = v
  PROVE  uaddr'[v] = uaddr[v]
<1>0. /\ TypeOK /\ uaddr \in [Threads -> Words \cup {NULL}]
      /\ pc \in [Threads -> {"user"} \cup WaitPCs \cup WakePCs]
      /\ pc[v] \in {"w_count", "w_unlock", "schedule"} /\ q[v].wake_pending = 0
  BY DEF KInv, TypeOK, NodeInv
<1>1. CASE v # t
  BY <1>0, <1>1, OthersKeep
<1>2. CASE v = t
  <2>1. CASE UNCHANGED uaddr
    BY <2>1
  <2>2. CASE Call(t)
    BY <1>0, <1>2, <2>2 DEF Call, CallWait, StoreAndCallWake, Goto
  <2>3. CASE WaitStep(t)
    BY <1>0, <1>2, <2>1, <2>3 DEF WaitStep, WaitLock, WaitCheck, WaitAgain, WaitEnqueue,
       WaitCount, WaitUnlock, Schedule, Goto, Return, locals
  <2>4. CASE WakeStep(t)
    BY <1>0, <1>2, <2>4 DEF WakeStep, WakeNobody, WakeSomebody, WakeLock, WalkSkip, WalkDequeue,
       WalkCount, WalkWakeup, WalkEnd, WakeUnlock, Goto, Return
  <2> QED
    BY <2>2, <2>3, <2>4
<1> QED
  BY <1>1, <1>2

\* The nodes of the chain of a bucket are of threads that are queued there.
LEMMA ChainNodes ==
  ASSUME KInv, NEW b \in Buckets
  PROVE  \A i \in DOMAIN chain[b] : chain[b][i] \in Threads /\ q[chain[b][i]].lock_ptr = b
<1>1. chain[b] \in Seq(Threads)
  BY DEF KInv, TypeOK
<1> TAKE i \in DOMAIN chain[b]
<1>2. chain[b][i] \in Threads
  BY <1>1, ElementOfSeq
<1>3. OnChain(chain[b], chain[b][i])
  BY DEF OnChain
<1> QED
  BY <1>2, <1>3 DEF KInv, ChainInv

\* What a walk knows does not change by what the others do meanwhile.
LEMMA WalkOthers ==
  ASSUME KInv, WalkInv, NEW t \in Threads, Call(t) \/ WaitStep(t) \/ WakeStep(t),
         NEW u \in Threads, u # t
  PROVE  /\ pc[u] \in WalkPCs => PassedOver(u)' /\ Len(chain[hb(u)])' = Len(chain[hb(u)])
         /\ pc[u] \in {"k_count", "k_wakeup"} => uaddr'[node'[u]] = uaddr'[u]
         /\ pc[u] = "k_unlock" => ~MoreToWake(u)'
<1>0. /\ pc'[u] = pc[u] /\ uaddr'[u] = uaddr[u] /\ arg'[u] = arg[u]
      /\ ret'[u] = ret[u] /\ pos'[u] = pos[u] /\ node'[u] = node[u] /\ hb(u)' = hb(u)
  BY OthersKeep DEF KInv
<1>1. ASSUME pc[u] \in WalkPCs PROVE chain'[hb(u)] = chain[hb(u)] /\ hb(u) \in Buckets
  BY <1>1, ChainKept, CallBucket DEF WalkPCs, LockedPCs
<1>2. ASSUME pc[u] \in WalkPCs PROVE PassedOver(u)'
  <2>1. \A i \in DOMAIN chain[hb(u)] : uaddr'[chain[hb(u)][i]] = uaddr[chain[hb(u)][i]]
    BY <1>1, <1>2, ChainNodes, WordKept, KFutexAssumption
  <2>2. PassedOver(u)
    BY <1>2 DEF WalkInv
  <2> QED
    BY <1>0, <1>1, <1>2, <2>1, <2>2 DEF PassedOver
<1>3. ASSUME pc[u] \in {"k_count", "k_wakeup"} PROVE uaddr'[node'[u]] = uaddr'[u]
  <2>1. node[u] \in Threads /\ uaddr[node[u]] = uaddr[u]
    BY <1>3 DEF KInv, CallInv, TypeOK, WalkInv
  <2> QED
    BY <1>0, <2>1, WordKept
<1>4. ASSUME pc[u] = "k_unlock" PROVE ~MoreToWake(u)'
  <2>1. ~MoreToWake(u)
    BY <1>4 DEF WalkInv
  <2> QED
    BY <1>0, <1>1, <1>4, <2>1 DEF MoreToWake, WalkPCs
<1> QED
  BY <1>0, <1>1, <1>2, <1>3, <1>4 DEF WalkPCs


\* The walk's own steps: it moves on over a node of another word, and stays
\* where it is while a node of its own word is taken out.
LEMMA WalkOwn ==
  ASSUME KInv, WalkInv, NEW t \in Threads, Call(t) \/ WaitStep(t) \/ WakeStep(t)
  PROVE  /\ pc'[t] \in WakePCs => arg'[t] \in Counts
         /\ pc'[t] \notin WalkPCs => ret'[t] = 0
         /\ pc'[t] \in WalkPCs => ret'[t] <= arg'[t] /\ pos'[t] >= 1 /\ PassedOver(t)'
         /\ pc'[t] \in {"k_count", "k_wakeup"} => ret'[t] < arg'[t] /\ uaddr'[node'[t]] = uaddr'[t]
         /\ pc'[t] = "k_unlock" => ~MoreToWake(t)'
<1>0. /\ pc \in [Threads -> {"user"} \cup WaitPCs \cup WakePCs] /\ ret \in [Threads -> Nat]
      /\ pos \in [Threads -> Nat] /\ node \in [Threads -> Threads \cup {NULL}]
      /\ arg \in [Threads -> AnyVal \cup Counts \cup {0}] /\ Counts \subseteq Nat \ {0}
      /\ chain \in [Buckets -> Seq(Threads)]
  BY KFutexAssumption DEF KInv, TypeOK
<1>1. /\ pc[t] \in WakePCs => arg[t] \in Counts
      /\ pc[t] \notin WalkPCs => ret[t] = 0
      /\ pc[t] \in WalkPCs => ret[t] <= arg[t] /\ pos[t] >= 1 /\ PassedOver(t)
      /\ pc[t] \in {"k_count", "k_wakeup"} => ret[t] < arg[t] /\ uaddr[node[t]] = uaddr[t]
      /\ pc[t] = "k_unlock" => ~MoreToWake(t)
  BY DEF WalkInv
<1>2. CASE Call(t)
  BY <1>0, <1>1, <1>2 DEF Call, CallWait, StoreAndCallWake, Goto, WakePCs, WalkPCs
<1>3. CASE WaitStep(t)
  BY <1>0, <1>1, <1>3 DEF WaitStep, WaitLock, WaitCheck, WaitAgain, WaitEnqueue, WaitCount,
     WaitUnlock, Schedule, Goto, Return, locals, WakePCs, WalkPCs
<1>4. CASE WakeNobody(t) \/ WakeSomebody(t) \/ WakeUnlock(t)
  BY <1>0, <1>1, <1>4 DEF WakeNobody, WakeSomebody, WakeUnlock, Goto, Return, locals, WakePCs, WalkPCs
<1>5. CASE WakeLock(t)
  <2>1. /\ pc[t] = "k_lock" /\ pc'[t] = "k_walk" /\ pos'[t] = 1 /\ ret' = ret /\ arg' = arg
        /\ chain' = chain /\ uaddr' = uaddr /\ hb(t)' = hb(t)
    BY <1>0, <1>5 DEF WakeLock, Goto, hb
  <2>2. DOMAIN chain[hb(t)] = 1..Len(chain[hb(t)]) /\ Len(chain[hb(t)]) \in Nat
    BY <1>0, <2>1, CallBucket
  <2>3. PassedOver(t)'
    BY <2>1, <2>2 DEF PassedOver
  <2>4. ret[t] = 0 /\ arg[t] \in Nat /\ arg[t] \in Counts
    BY <1>0, <1>1, <2>1 DEF WakePCs, WalkPCs
  <2> QED
    BY <1>0, <2>1, <2>3, <2>4
<1>6. CASE WalkSkip(t)
  <2>1. /\ pc[t] = "k_walk" /\ pc'[t] = "k_walk" /\ pos'[t] = pos[t] + 1 /\ ret' = ret /\ arg' = arg
        /\ chain' = chain /\ uaddr' = uaddr /\ hb(t)' = hb(t) /\ uaddr[Node(t)] # uaddr[t]
        /\ MoreToWake(t)
    BY <1>0, <1>6 DEF WalkSkip, Goto, hb
  <2>2. DOMAIN chain[hb(t)] = 1..Len(chain[hb(t)]) /\ Len(chain[hb(t)]) \in Nat /\ pos[t] \in Nat
    BY <1>0, <2>1, CallBucket
  <2>3. PassedOver(t)'
    <3>1. ASSUME NEW i \in DOMAIN chain[hb(t)], i < pos[t] + 1 PROVE i < pos[t] \/ i = pos[t]
      BY <2>2, <3>1
    <3>2. PassedOver(t)
      BY <1>1, <2>1 DEF WalkPCs
    <3> QED
      BY <2>1, <3>1, <3>2 DEF PassedOver, Node
  <2> QED
    BY <1>0, <1>1, <2>1, <2>2, <2>3 DEF WakePCs, WalkPCs
<1>7. CASE WalkDequeue(t)
  <2>1. /\ pc[t] = "k_walk" /\ pc'[t] = "k_count" /\ pos' = pos /\ ret' = ret /\ arg' = arg
        /\ uaddr' = uaddr /\ hb(t)' = hb(t) /\ uaddr[Node(t)] = uaddr[t] /\ MoreToWake(t)
        /\ node'[t] = Node(t)
    BY <1>0, <1>7 DEF WalkDequeue, Goto, hb
  <2>2. hb(t) \in Buckets /\ pos[t] \in 1..Len(chain[hb(t)])
    BY <2>1, WalkNode
  <2>3. chain[hb(t)] \in Seq(Threads) /\ IsInjective(chain[hb(t)])
    BY <1>0, <2>2 DEF KInv, ChainInv
  <2>4. chain'[hb(t)] = RemoveAt(chain[hb(t)], pos[t])
    BY <1>0, <1>7, <2>2 DEF WalkDequeue
  <2>5. \A i \in DOMAIN chain'[hb(t)] :
          i < pos[t] => i \in DOMAIN chain[hb(t)] /\ chain'[hb(t)][i] = chain[hb(t)][i]
    BY <2>2, <2>3, <2>4, Unlink
  <2>6. PassedOver(t)'
    BY <1>1, <2>1, <2>5 DEF PassedOver, WalkPCs
  <2>7. ret[t] < arg[t]
    BY <2>1 DEF MoreToWake
  <2> QED
    BY <1>0, <1>1, <2>1, <2>6, <2>7 DEF WakePCs, WalkPCs
<1>8. CASE WalkCount(t)
  <2>1. /\ pc[t] = "k_count" /\ pc'[t] = "k_wakeup" /\ pos' = pos /\ ret' = ret /\ arg' = arg
        /\ uaddr' = uaddr /\ hb(t)' = hb(t) /\ node' = node /\ chain' = chain
    BY <1>0, <1>8 DEF WalkCount, Goto, hb, locals
  <2> QED
    BY <1>0, <1>1, <2>1 DEF WakePCs, WalkPCs, PassedOver
<1>9. CASE WalkWakeup(t)
  <2>1. /\ pc[t] = "k_wakeup" /\ pc'[t] = "k_walk" /\ pos' = pos /\ ret'[t] = ret[t] + 1 /\ arg' = arg
        /\ uaddr' = uaddr /\ hb(t)' = hb(t) /\ chain' = chain
    BY <1>0, <1>9 DEF WalkWakeup, Goto, hb
  <2>2. ret'[t] <= arg'[t]
    <3>1. ret[t] < arg[t] /\ ret[t] \in Nat /\ arg[t] \in Nat
      BY <1>0, <1>1, <2>1 DEF WakePCs
    <3> QED
      BY <2>1, <3>1
  <2> QED
    BY <1>0, <1>1, <2>1, <2>2 DEF WakePCs, WalkPCs, PassedOver
<1>10. CASE WalkEnd(t)
  <2>1. /\ pc[t] = "k_walk" /\ pc'[t] = "k_unlock" /\ pos' = pos /\ ret' = ret /\ arg' = arg
        /\ uaddr' = uaddr /\ hb(t)' = hb(t) /\ chain' = chain /\ ~MoreToWake(t)
    BY <1>0, <1>10 DEF WalkEnd, Goto, hb, locals
  <2> QED
    BY <1>0, <1>1, <2>1 DEF WakePCs, WalkPCs, PassedOver, MoreToWake
<1>11. CASE WakeStep(t)
  BY <1>4, <1>5, <1>6, <1>7, <1>8, <1>9, <1>10, <1>11 DEF WakeStep
<1> QED
  BY <1>2, <1>3, <1>11

\* The walk keeps what it knows through every step.
LEMMA WalkStep == KInv /\ WalkInv /\ [Next]_vars => WalkInv'
<1> SUFFICES ASSUME KInv, WalkInv, [Next]_vars PROVE WalkInv'
  OBVIOUS
<1>1. CASE UNCHANGED vars
  BY <1>1 DEF vars, WalkInv, PassedOver, MoreToWake, hb
<1>2. ASSUME NEW t \in Threads, Call(t) \/ WaitStep(t) \/ WakeStep(t) PROVE WalkInv'
  <2>1. ASSUME NEW u \in Threads, u # t
        PROVE  /\ pc'[u] = pc[u] /\ uaddr'[u] = uaddr[u] /\ arg'[u] = arg[u]
               /\ ret'[u] = ret[u] /\ pos'[u] = pos[u]
    BY <1>2, <2>1, OthersKeep DEF KInv
  <2>2. ASSUME NEW u \in Threads, u # t
        PROVE  /\ pc[u] \in WalkPCs => PassedOver(u)'
               /\ pc[u] \in {"k_count", "k_wakeup"} => uaddr'[node'[u]] = uaddr'[u]
               /\ pc[u] = "k_unlock" => ~MoreToWake(u)'
    BY <1>2, <2>2, WalkOthers
  <2> QED
    BY <1>2, <2>1, <2>2, WalkOwn DEF WalkInv
<1> QED
  BY <1>1, <1>2 DEF Next

\* A chain that does not hold the walker is shorter than the number of threads.
LEMMA ChainIsShort ==
  ASSUME IsFiniteSet(Threads), KInv, NEW t \in Threads, pc[t] = "k_lock"
  PROVE  /\ Len(chain[hb(t)]) \in Nat /\ Cardinality(Threads) \in Nat
         /\ Len(chain[hb(t)]) < Cardinality(Threads)
<1>1. hb(t) \in Buckets /\ chain[hb(t)] \in Seq(Threads) /\ IsInjective(chain[hb(t)])
  BY CallBucket DEF KInv, TypeOK, ChainInv
<1>2. q[t].lock_ptr = NULL
  BY DEF KInv, NodeInv
<1> DEFINE s == chain[hb(t)]
<1>3. \A i \in DOMAIN s : s[i] \in Threads \ {t}
  BY <1>1, <1>2, ChainNodes, KFutexAssumption
<1>4. Len(s) \in Nat /\ DOMAIN s = 1..Len(s) /\ s = [i \in 1..Len(s) |-> s[i]]
  BY <1>1
<1>5. s \in Injection(1..Len(s), Threads \ {t})
  BY <1>1, <1>3, <1>4 DEF Injection, IsInjective
<1>6. IsFiniteSet(Threads \ {t}) /\ Cardinality(Threads \ {t}) = Cardinality(Threads) - 1
  BY FS_RemoveElement
<1>7. Cardinality(1..Len(s)) <= Cardinality(Threads \ {t})
  BY <1>5, <1>6, FS_Injection
<1>8. Cardinality(1..Len(s)) = Len(s)
  BY <1>4, FS_Interval
<1> QED
  BY <1>4, <1>6, <1>7, <1>8, FS_CardinalityType


\* A node woken is one less in the chain.
LEMMA RoomStep ==
  ASSUME IsFiniteSet(Threads), KInv, WalkInv, RoomInv, [Next]_vars PROVE RoomInv'
<1>0. /\ pc \in [Threads -> {"user"} \cup WaitPCs \cup WakePCs] /\ ret \in [Threads -> Nat]
      /\ chain \in [Buckets -> Seq(Threads)] /\ Cardinality(Threads) \in Nat
  BY FS_CardinalityType DEF KInv, TypeOK
<1>1. CASE UNCHANGED vars
  BY <1>1 DEF vars, RoomInv, Taken, hb
<1>2. ASSUME NEW t \in Threads, Call(t) \/ WaitStep(t) \/ WakeStep(t) PROVE RoomInv'
  <2> DEFINE Room(u) == ret[u] + Taken(u) + Len(chain[hb(u)]) < Cardinality(Threads)
  <2>1. ASSUME NEW u \in Threads, u # t, pc'[u] \in WalkPCs PROVE Room(u)'
    <3>1. pc'[u] = pc[u] /\ ret'[u] = ret[u]
      BY <1>2, <2>1, OthersKeep DEF KInv
    <3>2. Len(chain[hb(u)])' = Len(chain[hb(u)])
      BY <1>2, <2>1, <3>1, WalkOthers
    <3> QED
      BY <2>1, <3>1, <3>2 DEF RoomInv, Taken
  <2>2. ASSUME pc'[t] \in WalkPCs PROVE Room(t)'
    <3> DEFINE n == Len(chain[hb(t)])
    <3>1. ASSUME pc[t] \in WalkPCs PROVE n \in Nat /\ ret[t] \in Nat /\ hb(t) \in Buckets /\ Room(t)
      BY <1>0, <3>1, CallBucket DEF RoomInv, WalkPCs
    <3>2. CASE WakeLock(t)
      <4>1. /\ pc[t] = "k_lock" /\ pc'[t] = "k_walk" /\ ret' = ret /\ chain' = chain /\ hb(t)' = hb(t)
        BY <1>0, <3>2 DEF WakeLock, Goto, hb
      <4>2. ret[t] = 0
        BY <4>1 DEF WalkInv, WalkPCs
      <4> QED
        BY <4>1, <4>2, ChainIsShort DEF Taken
    <3>3. CASE WalkSkip(t) \/ WalkEnd(t)
      <4>1. /\ pc[t] = "k_walk" /\ pc'[t] \in {"k_walk", "k_unlock"} /\ ret' = ret
            /\ chain' = chain /\ hb(t)' = hb(t)
        BY <1>0, <3>3 DEF WalkSkip, WalkEnd, Goto, hb, locals
      <4> QED
        BY <3>1, <4>1 DEF Taken, WalkPCs
    <3>4. CASE WalkDequeue(t)
      <4>1. /\ pc[t] = "k_walk" /\ pc'[t] = "k_count" /\ ret' = ret /\ hb(t)' = hb(t) /\ MoreToWake(t)
            /\ chain' = [chain EXCEPT ![hb(t)] = RemoveAt(@, pos[t])]
        BY <1>0, <3>4 DEF WalkDequeue, Goto, hb
      <4>2. /\ hb(t) \in Buckets /\ pos[t] \in 1..Len(chain[hb(t)])
            /\ chain[hb(t)] \in Seq(Threads) /\ IsInjective(chain[hb(t)])
        BY <1>0, <4>1, WalkNode DEF KInv, ChainInv
      <4>3. Len(chain'[hb(t)]) = n - 1
        BY <1>0, <4>1, <4>2, Unlink
      <4>4. n \in Nat /\ ret[t] \in Nat /\ Room(t)
        BY <3>1, <4>1 DEF WalkPCs
      <4> QED
        BY <4>1, <4>3, <4>4 DEF Taken
    <3>5. CASE WalkCount(t)
      <4>1. /\ pc[t] = "k_count" /\ pc'[t] = "k_wakeup" /\ ret' = ret /\ chain' = chain /\ hb(t)' = hb(t)
        BY <1>0, <3>5 DEF WalkCount, Goto, hb, locals
      <4> QED
        BY <3>1, <4>1 DEF Taken, WalkPCs
    <3>6. CASE WalkWakeup(t)
      <4>1. /\ pc[t] = "k_wakeup" /\ pc'[t] = "k_walk" /\ ret'[t] = ret[t] + 1 /\ chain' = chain
            /\ hb(t)' = hb(t)
        BY <1>0, <3>6 DEF WalkWakeup, Goto, hb
      <4>2. n \in Nat /\ ret[t] \in Nat /\ Room(t)
        BY <3>1, <4>1 DEF WalkPCs
      <4> QED
        BY <4>1, <4>2 DEF Taken
    <3>7. CASE Call(t)
      BY <1>0, <2>2, <3>7 DEF Call, CallWait, StoreAndCallWake, Goto, WalkPCs
    <3>8. CASE WaitStep(t)
      BY <1>0, <2>2, <3>8 DEF WaitStep, WaitLock, WaitCheck, WaitAgain, WaitEnqueue, WaitCount,
         WaitUnlock, Schedule, Goto, Return, WalkPCs
    <3>9. CASE WakeNobody(t) \/ WakeSomebody(t) \/ WakeUnlock(t)
      BY <1>0, <2>2, <3>9 DEF WakeNobody, WakeSomebody, WakeUnlock, Goto, Return, WalkPCs
    <3> QED
      BY <1>2, <3>2, <3>3, <3>4, <3>5, <3>6, <3>7, <3>8, <3>9 DEF WakeStep
  <2> QED
    BY <2>1, <2>2 DEF RoomInv
<1> QED
  BY <1>1, <1>2 DEF Next

\* Only the enqueue sets lock_ptr, to the bucket of the word, and the word stays.
LEMMA BucketStep == KInv /\ BucketInv /\ [Next]_vars => BucketInv'
<1> SUFFICES ASSUME KInv, BucketInv, [Next]_vars PROVE BucketInv'
  OBVIOUS
<1>0. /\ q \in [Threads -> NodeType] /\ node \in [Threads -> Threads \cup {NULL}]
  BY DEF KInv, TypeOK, NodeType
<1>1. CASE UNCHANGED vars
  BY <1>1 DEF vars, BucketInv, hb
<1>2. ASSUME NEW t \in Threads, Call(t) \/ WaitStep(t) \/ WakeStep(t) PROVE BucketInv'
  <2>1. CASE WaitEnqueue(t)
    <3>1. /\ \A v \in Threads : v # t => q'[v] = q[v]
          /\ q'[t].lock_ptr = hb(t) /\ uaddr' = uaddr
      BY <1>0, <2>1 DEF WaitEnqueue, locals
    <3> QED
      BY <3>1 DEF BucketInv, hb
  <2>2. CASE ~WaitEnqueue(t)
    <3>1. ASSUME NEW v \in Threads PROVE q'[v].lock_ptr \in {q[v].lock_ptr, NULL}
      <4>1. CASE q' = q \/ q' = [q EXCEPT ![t] = NoNode]
        BY <1>0, <4>1 DEF NoNode
      <4>2. CASE WalkDequeue(t)
        <5>1. Node(t) \in Threads
          BY <4>2, WalkNode DEF WalkDequeue, Goto
        <5>2. q' = [q EXCEPT ![Node(t)] = [@ EXCEPT !.lock_ptr = NULL]]
          BY <4>2 DEF WalkDequeue
        <5> QED
          BY <1>0, <5>1, <5>2, NodeUpdates
      <4>3. CASE WalkWakeup(t)
        <5>1. node[t] \in Threads
          BY <1>0, <4>3 DEF KInv, CallInv, WalkWakeup, Goto
        <5>2. q' = [q EXCEPT ![node[t]] = [@ EXCEPT !.wake_pending = 1]]
          BY <4>3 DEF WalkWakeup
        <5> QED
          BY <1>0, <5>1, <5>2, NodeUpdates
      <4>4. CASE Call(t)
        BY <4>1, <4>4 DEF Call, CallWait, StoreAndCallWake
      <4>5. CASE WaitStep(t)
        BY <2>2, <4>1, <4>5 DEF WaitStep, WaitLock, WaitCheck, WaitAgain, WaitCount, WaitUnlock,
           Schedule, Return
      <4>6. CASE WakeStep(t)
        BY <4>1, <4>2, <4>3, <4>6 DEF WakeStep, WakeNobody, WakeSomebody, WakeLock, WalkSkip,
           WalkCount, WalkEnd, WakeUnlock, Return, locals
      <4> QED
        BY <1>2, <4>4, <4>5, <4>6
    <3>2. ASSUME NEW v \in Threads, q'[v].lock_ptr # NULL PROVE q'[v].lock_ptr = hb(v)'
      <4>1. q'[v].lock_ptr = q[v].lock_ptr
        BY <3>1, <3>2
      <4>2. uaddr'[v] = uaddr[v]
        BY <1>2, <3>2, <4>1, WordKept
      <4> QED
        BY <3>2, <4>1, <4>2 DEF BucketInv, hb
    <3> QED
      BY <3>2 DEF BucketInv
  <2> QED
    BY <2>1, <2>2
<1> QED
  BY <1>1, <1>2 DEF Next

\* When the walk ends before its count, it has passed over every queued thread,
\* and passed over none of its own word.
LEMMA WalkEnded ==
  ASSUME KInv, BucketInv, WalkInv, NEW u \in Threads, pc[u] = "k_unlock", ret[u] < arg[u],
         NEW t \in Threads, Queued(t)
  PROVE  uaddr[t] # uaddr[u]
<1> SUFFICES ASSUME uaddr[t] = uaddr[u] PROVE FALSE
  OBVIOUS
<1>1. hb(u) \in Buckets /\ chain[hb(u)] \in Seq(Threads) /\ pos[u] \in Nat
  BY CallBucket DEF KInv, TypeOK
<1>2. PICK b \in Buckets : \E i \in DOMAIN chain[b] : chain[b][i] = t
  BY DEF Queued
<1>3. q[t].lock_ptr = b
  BY <1>2, ChainNodes
<1>4. b = hb(u)
  BY <1>3, KFutexAssumption DEF BucketInv, hb
<1>5. PICK i \in DOMAIN chain[hb(u)] : chain[hb(u)][i] = t
  BY <1>2, <1>4
<1>6. i < pos[u]
  BY <1>1 DEF WalkInv, MoreToWake
<1> QED
  BY <1>5, <1>6 DEF WalkInv, WalkPCs, PassedOver


\* What every call of wake keeps to, in every reachable state.
LEMMA WalkHolds == Spec => [](KInv /\ BucketInv /\ WalkInv)
<1>1. Init => BucketInv /\ WalkInv
  BY DEF Init, NoNode, BucketInv, WalkInv, WakePCs, WalkPCs
<1>2. KInv /\ BucketInv /\ WalkInv /\ [Next]_vars => BucketInv' /\ WalkInv'
  BY BucketStep, WalkStep
<1> QED
  BY <1>1, <1>2, KInvHolds, PTL DEF Spec

\* kernel_futex_wake(uaddr, n) wakes waiters of its own word only, at most n of
\* them, and fewer only if it leaves none of them queued: walking the chain while
\* taking nodes out of it skips nobody (k_futex.h:227-249).
THEOREM WakeKeepsItsPromise == Spec => []WakePrecise
<1>1. KInv /\ BucketInv /\ WalkInv => WakePrecise
  <2> SUFFICES ASSUME KInv, BucketInv, WalkInv, NEW u \in Threads
               PROVE  /\ node[u] # NULL => uaddr[node[u]] = uaddr[u]
                      /\ pc[u] = "k_unlock" =>
                           /\ ret[u] <= arg[u]
                           /\ ret[u] < arg[u] => \A t \in Threads : Queued(t) => uaddr[t] # uaddr[u]
    BY DEF WakePrecise
  <2>1. node[u] # NULL => uaddr[node[u]] = uaddr[u]
    BY DEF KInv, CallInv, WalkInv
  <2>2. pc[u] = "k_unlock" => ret[u] <= arg[u]
    BY DEF WalkInv, WalkPCs
  <2> QED
    BY <2>1, <2>2, WalkEnded
<1> QED
  BY <1>1, WalkHolds, PTL

\* A wake for as many as there are threads (INT_MAX in the callers) lets go of the
\* bucket lock with nobody left who waits on its word.
THEOREM WakeAllSkipsNobody ==
  ASSUME IsFiniteSet(Threads) PROVE Spec => []WakeAllLeavesNobody
<1>1. Init => RoomInv
  BY DEF Init, RoomInv, WalkPCs
<1>2. KInv /\ WalkInv /\ RoomInv /\ [Next]_vars => RoomInv'
  BY RoomStep
<1>3. KInv /\ BucketInv /\ WalkInv /\ RoomInv => WakeAllLeavesNobody
  <2> SUFFICES ASSUME KInv, BucketInv, WalkInv, RoomInv, NEW u \in Threads, NEW t \in Threads,
                      pc[u] = "k_unlock", arg[u] >= Cardinality(Threads), Queued(t)
               PROVE  uaddr[t] # uaddr[u]
    BY DEF WakeAllLeavesNobody
  <2>1. ret[u] < arg[u]
    <3>1. ret[u] + Taken(u) + Len(chain[hb(u)]) < Cardinality(Threads) /\ Taken(u) = 0
      BY DEF RoomInv, WalkPCs, Taken
    <3>2. arg[u] \in Nat /\ ret[u] \in Nat /\ Cardinality(Threads) \in Nat
      BY FS_CardinalityType, KFutexAssumption DEF KInv, TypeOK, WalkInv, WakePCs
    <3>3. chain[hb(u)] \in Seq(Threads)
      BY CallBucket DEF KInv, TypeOK
    <3>4. Len(chain[hb(u)]) \in Nat
      BY <3>3
    <3> QED
      BY <3>1, <3>2, <3>4
  <2> QED
    BY <2>1, WalkEnded
<1> QED
  BY <1>1, <1>2, <1>3, WalkHolds, PTL DEF Spec

=============================================================================
