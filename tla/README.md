# Verification of the condition-variable and coroutine teaching code

This directory holds TLA+ modules for the C and C++ code under `src/codes/`,
TLC configurations that check them on small instances, and TLAPS proofs. The
repository is a set of notes with code: a condition variable rebuilt from the
kernel up (`pseudo_cond_var`), and demonstrations of C++ coroutines
(`coroutine`).

## 1. Inventory

| Part | State | Operations | Hard about it |
|---|---|---|---|
| `nptl/three_states_lock_t.h` | one 32-bit word: two lock bits, the rest is payload | lock, unlock | CAS races, sleep/wake handshake with unlock |
| `nptl/pthread_mutex.h` | the word without payload | init, lock, unlock, trylock | as above |
| `kernel/syscall.h` | none | `futex_syscall` dispatch, empty stubs | - |
| `kernel/k_futex.h` | buckets (spinlock, chain, waiter count), stack-allocated `futex_q` nodes | `kernel_futex_wait`, `kernel_futex_wake`, `schedule`, `wake_up_process` | unlocked fast path, lifetime of nodes, unlink during a walk |
| `kernel/k_sched.h` | none (empty primitives) | - | - |
| `nptl/pthread_cond.h` | two groups (`g_signals`, `g_refs`, `g_size`), `wseq`, `g1_start`, `g1_orig_size`, `wrefs` | init, wait, signal, broadcast, destroy | group switch against delayed waiters, quiescing under a lock, stolen signals, destroy against the last waiters |
| `std/mutex`, `std/condition_variable` | ownership flag; the predicate loop | RAII lock, wait, notify | the flag against the real owner |
| `coroutine/worker.hpp` | task queue, threads, stop requests | start, submit, stop, join, run | stop against queued tasks |
| `coroutine/symmetric_resume.cpp`, `coro.hpp` | coroutine frames, `done_`, `worker_finished_`, two global flags | awaiters on two threads | who resumes the task, use of destroyed frames, termination |
| `coroutine/symmetric_trans.cpp` | coroutine frames | symmetric transfer | stack depth |
| `coroutine/generator.cpp` | one frame and its value | two consumers and main resume it | resume of a finished coroutine |
| `coroutine/log.hpp` | `g_stack_depth` | `TRACK_RESUME`, log lines | the depth is that of nested resumes |
| the HTML page, `*.md`, `sync_remote.sh` | - | text, git | not behaviour |

How they call each other: `std::condition_variable` and `std::mutex` wrap
`pthread_cond_t` and `pthread_mutex_t`; the mutex is a three-state lock, and so
is the inner lock inside `g1_orig_size`; both the lock and the condition
variable sleep through `futex_syscall`. The source keeps two handlers for that
call: `syscall.h` has empty stubs, `k_futex.h` has the real algorithm, which
nothing includes. The coroutine programs use the host's standard library and,
in one build, the worker pool.

What makes each part correct:

* lock: mutual exclusion, the payload belongs to the holder, a sleeper is woken;
* kernel futex: check and enqueue are one step for a waker, a node is never used
  after its thread left, a wake of all reaches all;
* condition variable: a signal releases somebody who was blocked, a broadcast
  everybody; no sleeper of an old group on a reused slot; signalers do not hang,
  and destroy does not as long as no signal is lost; nothing is touched after
  destroy;
* worker, coroutines: every submitted task runs or is discarded as documented;
  the task is resumed once for each suspension, never after its frame is gone.

`PROJECT.json` lists the hazards line by line with the property that covers each.

## 2. Modules

| Module | Models | Built on |
|---|---|---|
| `Futex` | `futex_syscall` as userspace sees it: atomic compare-and-sleep, wake one, wake all. `Blocking = FALSE` gives the stubs | - |
| `AbstractLock` | what a three-state lock promises: one owner, who alone changes the payload | - |
| `ThreeStateLock` | the lock, the mutex and the payload update of the inner lock | `Futex`; implements `AbstractLock` |
| `ThreeStateLockProofs` | the theorems about it | `ThreeStateLock` |
| `KFutex` | the kernel side, step by step | - |
| `KFutexProofs` | the theorems about it | `KFutex` |
| `PthreadCond` | the condition variable | `Futex`; its two locks are `AbstractLock` |
| `PthreadCondProofs` | the theorems about it | `PthreadCond` |
| `StdSync` | `std::mutex`, `std::unique_lock`, `std::condition_variable` and a client | `ThreeStateLock` |
| `StdSyncProofs` | the theorems about it | `StdSync`, `ThreeStateLockProofs` |
| `Worker` | the worker pool of the coroutine programs | - |
| `AwaitLoop` | what the loop of `make_task_impl` promises, whatever `co_await` does | - |
| `SymmetricResume` | the threaded build of `symmetric_resume.cpp` | `Worker`; implements `AwaitLoop` |
| `SymmetricResumeProofs` | the theorems about the pool and the program on it | `SymmetricResume` |
| `SyncTask` | its two single-threaded builds and `symmetric_trans.cpp` | implements `AwaitLoop` |
| `SyncTaskProofs` | the theorems about them | `SyncTask` |
| `Generator` | `generator.cpp` | - |
| `GeneratorProofs` | the theorems about it | `Generator` |
| `CoroutineProofs` | the theorems about all four programs, as `MCCoroutine` composes them | `MCCoroutine` and the three proof modules above |
| `MC...` | instances for TLC; `MCCoroutine` also composes the coroutine programs | |

### ThreeStateLock
`word` is the lock word, split into the lock bits `st` and the upper bits `hi`;
`expected` is the local of that name, `pc` the place in the function. `LockLoad`
is the first load, `Fast...` the outcomes of the fast path, `Slow...` those of
the slow path's CAS, `LockFutexWait` and `LockReload` the system call and the
load after it, `Unlock` and `UnlockWake` the two halves of
`three_states_unlock`. `TryLock` is used by the mutex only; as it is a CAS of a
free word it is sound with a payload too and is left enabled there. The
`Payload...` actions belong to the inner lock (`pthread_cond.h:205-210`). A weak
CAS may fail for no reason when `WeakCas` holds.

### StdSync
`locks[t]` are the `unique_lock` objects of a thread's scope, each with `m_` and
`owns_`; `at` is the thread's place in the wrappers, while `pc` is its place in
the lock below. `lock` and `lock_return`, `unlock` and `unlock_return` are the
two halves of a member function: the call of the mutex and the assignment of
the flag. `Destroy` ends the scope, the object moved to first. The client pushes
an item and notifies, or waits for one with the predicate loop and takes it, as
in `cv.md`. `pthread_cond_t` is taken by its contract here (a waiter is
registered before the mutex is released; it wakes when notified or for no
reason); notifying happens under the mutex. `by` is a history variable.

What the run shows about `std/mutex:25`: the constructor locks and leaves
`owns_` false, so a scope that only constructs, or constructs and waits, leaves
the mutex locked. `OnlyConstructorLeaks` says that this is the only leak; a
thread that calls `lock()` itself is released by the destructor. A thread that
has leaked its lock does nothing more in the model; in the code its next `lock()`
would wait for itself.

### KFutex
A `futex_q` is named by the thread on whose stack it lies. `chain`, `waiters`
and `lock` are the bucket; `q` holds `lock_ptr`, the task state and
`wake_pending`. The position `pp` of a wake is an index into the chain: after a
dequeue the next node is at the same index. Userspace is any thread that waits
with some value, or stores to a word and then wakes. The header does not compile
as it stands and no file includes it, so it is read at source level.

### PthreadCond
`cond` is the struct with the code's encoding: counts in units of 2 or 8, flags
in the low bits; `U32` is the number of `uint32_t` values. Each atomic access is
one action. `WaitSeq` to `Relock` follow the stages of `pthread_cond_wait`,
`Undo...` are the repair of a stolen signal, `CallWake` to `WakeG1` are signal
and broadcast, `CheckG2` to `SwitchGroups` are `quiesce_and_switch_g1`.
`InsideLock` says whether signalers hold the mutex during the call: `cv.md`
discusses both placements. Two history variables serve the properties only:
`credit` is the number of blocked waiters that the calls so far still have to
release (a signal adds one, a broadcast all, never more than are blocked), and
`repaired` says that some waiter has put a signal back.

The contract of `destroy` (`MayDestroy`) is the usual one: no other call runs or
follows, and every waiter still blocked has been signaled, as far as the calls
made tell the client. After finding 3 that can be wrong: a signal was made for
each blocked thread and one was lost. `destroy` may then be called and never
returns, so `DestroyReturns` leaves out the case that a waiter has put a signal
back and somebody is still blocked.

### Worker
`tasks` is `tasks_`, `mtx` the owner of `tasks_mtx_`, `stopped[w]` the stop
token of a thread, `submitting` the threads between the push and the
`notify_one` of `submit`. `LoopTest` to `TaskReturns` are `run`; the wait with a
stop token is `WaitTest`, `PredTest`, `Sleep` and `Relock`, with the sleep as the
standard library defines it (release and sleep are one step, a requested stop
prevents it) and spurious wakeups. `stop` is one step per `request_stop`. Main
starts, submits, stops, joins and starts again; running tasks submit as well. As
the programs do, main calls `join` only after `stop`, and destroys the pool only
after `join`. `started` and `doomed` are history variables for the properties.

### SymmetricResume
The threaded build (`SYMMETRIC_EXTRA`), composed with `Worker`: a step that calls
the pool is a conjunction with the pool's action, so every interleaving with the
worker's loop, its sleep and its wakeups is there. `at` is where each thread is;
the code of the task (`MakeSingle` to `CoReturn`) runs on whatever thread resumed
it, main or the worker. A job is a number, and `job` says what it does: resume a
single task and then store `worker_finished_`, or resume the task.
`AwaiterExchange` and `FinalExchange` are the two racing exchanges. The polling
loop before the first of them, of at most 50 turns, may end at any moment, so it
needs no step of its own.

### SyncTask
One thread; the state is a stack with an activation for each `resume()` that has
not returned. `Call` pushes (`TRACK_RESUME`), `Transfer` replaces the last
activation (a handle returned from `await_suspend`), `Return` pops. `build` tells
the three programs apart. In the build "resume" the task goes on inside the
final awaiter and destroys the single task's frame below it; `FramesAlive`
speaks of the code that will still *use* the frame.

### Generator
`co` is the state of the coroutine, `i` and `val` are in its frame, `mtx` is the
owner of `mtx_generator`, a mutex of the host. A resume is two steps (entering,
and reaching the next `co_yield` or the end), so that overlapping resumes would
show. `ResumesSuspended` looks at the coroutine where a resume is the next step:
a consumer that has the mutex, and main once all rounds are done. `Sizes` is the relation between the numbers of consumers, rounds and values
that the program fixes; `MCCoroutine` assumes it.

`MCCoroutine` puts the last three together for TLC: a behaviour is one build of
the task programs or the generator program. The four builds share the variables
of the task and the promises, and with them the refinement `ImplementsLoop`.

### What is abstracted
All accesses are sequentially consistent; memory orders are not modelled.
`wseq` and `g1_start` do not wrap (64 bits in the code). A weak CAS of the
condition variable that fails for no reason brings its thread back to a state it
was in before, so it is left out there.

## 3. Runs

| Run | Instance | Shows |
|---|---|---|
| `std` | 3 threads, 1 item, weak CAS, blocking futex | mutual exclusion, the lock bits tell whether it is held, the flag of `unique_lock` is honest, a wait finds its item, only the constructor leaks |
| `inner` | 3 threads, 2 payloads, futex stubs, fair | types, refinement of `AbstractLock`; somebody always acquires |
| `lost_lock_wakeup` | 3 threads, strong CAS | **violated**: a thread sleeps in a state that gives no wakeup |
| `kfutex` | 3 threads, 2 words in 1 bucket (one changes its value), wake 1 or all, fair | bucket lock, node lifetime, agreement of count, chain and `lock_ptr`; dequeued waiters return; a wake of all skips nobody |
| `kfutex_missed` | 2 threads, 1 word | **violated**: a wake misses a waiter that has enqueued |
| `cond` | 2 waiters, 2 signalers outside the lock, 3 waits | groups stay consistent, no stale sleeper |
| `cond_signals` | 3 waiters, 2 signalers outside the lock, 4 waits, `MaxBusy` 2 | signals are lost only after a repair |
| `cond_live` | 2 waiters, 2 callers with all calls, 3 waits, `MaxBusy` 2, fair | broadcast releases all, quiescing ends, destroy returns (unless a repair has left somebody blocked) and leaves nobody behind |
| `lost_signal` | 3 waiters, 1 signaler inside the lock, 5 waits, `MaxBusy` 2 | **violated**: a signal is lost |
| `worker` | 2 workers, 4 tasks, fair | no `front()` of an empty queue; tasks begin once and in order; tasks of a running pool begin; `join` after `stop` returns |
| `worker_stop` | 1 worker, 1 task | **violated**: a task queued at the call of `stop` runs |
| `coroutines` | 3 awaited tasks, 1 worker; 2 consumers, 2 rounds, 4 values; fair | frames are alive when used, the task runs on one thread, nothing is left when the pool stops, all builds implement the loop, depth of the stack, the generator is resumed only when suspended and its values are seen in order, all programs end |

Why the bounds are enough. Two threads race over a lock, a third sleeps behind
them. For more threads, tasks, values and words, and for a payload over the
blocking futex, there are the theorems of section 4: they state every safety
property of the passing runs. `MaxItems` 1 lets two woken waiters meet one item. The
coroutine programs are checked with the very numbers in their `main`; each of
the three iterations can go either way in the race over `done_` as long as the
task is on main, and must suspend once it is on the only worker. Two words in one bucket are what the
walk of a wake can meet. For the condition variable the interesting case is a
slot that is reused: slot 0 is a group again after two switches, that is with
the third wait, so all runs with three or more waits reach the repair. Two
signalers overlap between unlock and wake. Two bounds limit the behaviour of
`PthreadCond`: `MaxWaits`, the number of waits, and `MaxBusy`, the number of
other threads that may be in the middle of something when a client *begins* a
call (once begun, calls interleave freely). `MaxBusy` is at least the number of
other threads, and so no restriction, in `cond`; it makes room for a third waiter
in `cond_signals` and `lost_signal`, and for the second caller in `cond_live`. A
thread that sleeps is not busy, so a call can begin while a signaler is between
its unlock and its wake, a second one sleeps in the quiescing wait and the
waiters sleep with their references. The number of signals is
not bounded. `cond_live` stays below the three waiters and five waits of finding
3, so its liveness properties are checked without a lost signal. `DestroyReturns`
alone was also checked beyond them (the instance of `lost_signal` with `signal`
and `destroy`, fair, 1.3 million states): there it holds, and without its condition
on repairs it fails. `BroadcastWakesAll` and `QuiesceEnds` are not checked at that
size. In `Worker` the bound is `MaxTasks`, the number of submits; four
tasks leave two in the queue behind two busy workers, and restarts are not
bounded.

`CHECK_DEADLOCK FALSE` is used where a state without successors is a legal end:
all threads asleep with nobody left to wake them (a waiter that is never
signaled), the waits used up, a mutex leaked by `unique_lock`, or a program that
has returned. Losing a wakeup is checked by the named
properties instead.

### Fairness
Weak fairness of the steps of a thread inside a call: the operating system keeps
running runnable threads. Nothing makes a thread start a call. A holder of the
three-state lock is assumed to unlock. For the three-state lock no strong
fairness is assumed: the property of `inner` is that *somebody* gets it. `Worker` assumes strong fairness of
acquiring `tasks_mtx_`: it is a `std::mutex` of the host, held for a few steps
that never block, so a thread that keeps waiting finds it free again and again;
without that assumption two busy workers could shut out a third for ever.
`Worker` also assumes that tasks return. `coroutines` assumes the same of the
pool's mutex, and that both threads keep running: their waiting loops yield. The
programs with one thread, and the generator, need only that some step follows
while one is possible.

### The four findings
1. `three_states_lock_t.h:39`. After a failed CAS of the slow path the thread
   waits with whatever it has just loaded. If that is `locked_no_waiter`, the
   holder's unlock sees no waiters and wakes nobody. `cv.md:186` ties suspension
   to `locked_waiters`. The locks of `PthreadCond` are therefore the *abstract*
   lock: its liveness runs say what holds if locks are granted.
2. `k_futex.h:198`. The count that the fast path of wake reads is raised after
   the check and the enqueue; the comments at lines 160-162 and 218-220 say the
   opposite order and that no wakeup is missed.
3. `pthread_cond.h:127-141`. A waiter W1 consumes its own group's signal and is
   delayed. Two group switches later its slot is G1 again, W1 believes it stole,
   and adds a signal. Another waiter leaves on it, `g_size` stays one too high,
   and the next signal is posted to a G1 without waiters while a thread of G2
   sleeps. The client has by then signaled as often as there were threads to let
   go; if it calls `pthread_cond_destroy`, that sleeps for ever on `wrefs`, in which
   the thread is still counted (lines 63-66). `OnlyRepairLoses` says that this is the only way to lose one: checked in
   run `cond_signals`, and proved for every instance (`SignalsAreOnlyLostByRepair`).
4. `worker.hpp:39`. `stop` never touches the queue. A worker that has not been
   asked to stop yet, or that is past the check at line 61, still takes a task
   that was queued at the call; what is left runs after the next `start`. The
   comment at line 37 says these tasks are discarded.

## 4. Proofs

The theorems hold for every value of the constants that satisfies the
assumptions named in the modules, and any further hypothesis is in the theorem's
statement. In each module an inductive invariant is built from parts; a lemma
says that a step preserves a part, action by action, and the last section
combines them. `PROJECT.json` lists the theorems with the properties they state.

### ThreeStateLockProofs
For every set of threads and payloads:

* `TypeCorrect`: `TypeOK` is inductive by itself.
* `LockIsExclusive`, `WordTellsHeld`: mutual exclusion is not inductive, because
  an acquiring CAS knows only the word. `LockInv` joins it with
  `LockedIffHeld`: an acquiring CAS expects "unlocked", hence nobody holds the
  lock before it; only the holder can unlock. `LockInvStep` has one case per
  action.
* `LockRefines`: with `LockInv` the holder is unique, so the mapped `owner` is
  well defined (`OwnerLemma`), and each step is an acquire, an update, a release
  or a stutter (`RefinementStep`).

### StdSyncProofs
Every step of the wrappers is a step of the lock or leaves it alone
(`StdStepsLock`), so `LockInv` is reused and gives `StdMutexIsExclusive` and
`StdWordTellsHeld`. `StdInv` adds the types; for each thread, how its place in
the wrappers, its place in the lock, the flags of its `unique_lock` objects and
the way it came by the mutex fit together (`Consistent`); and that there is an
item where one is about to be taken. The theorems are `StdTypeCorrect`,
`FlagsAreHonest`, `LeaksAreTheConstructors` and `PredicateHolds`: the item the
predicate saw is still there when it is taken, because the mutex is held from
the test on.

### KFutexProofs
`KernelTypeCorrect`, `SpinLockExcludes`, `NodesNeverDangle` and
`QueueStaysConsistent`, for any number of threads, words and buckets. `KInv`
joins types with: the locals of a call (`CallInv`), the bucket's spinlock
(`SpinInv`), the chain (no node twice, and a node is in the chain of the bucket
its `lock_ptr` names, at every moment and not only while the lock is free:
`ChainInv`), the waiter count, which is off by one while a lock holder is between
the step that moves the chain and the one that moves the count (`CountInv`), and
the life of a node: while it is queued, or in the hands of one waker, its thread
is still inside the call (`NodeInv`). None of these is inductive alone: the count
needs the lock, and the node's life needs the chain.

`WakeKeepsItsPromise` and `WakeAllSkipsNobody` are about the walk of
`kernel_futex_wake`, which takes nodes out of the chain it walks. What lies before
`pp` waits on other words (`WalkInv`); that lasts because nobody else touches the
chain under the lock (`ChainKept`), and because a queued thread stays on its word
(`WordKept`) and in its word's bucket (`BucketInv`). So the walk wakes at most n
waiters, of its own word only, and fewer only if none of them stays queued. That a
wake of `INT_MAX` never ends on its count takes a finite set of threads and one more
part (`RoomInv`): woken nodes and queued ones are together fewer than the threads.
TLC checked these parts on the instance of `kfutex`. They say nothing of the fast
path, which reads the count without the lock (finding 2).

### SymmetricResumeProofs
The first part is the pool alone, for any numbers of workers and tasks:
`WorkerTypeCorrect`; `FrontIsNeverEmpty` (`PoolInv`: who holds the mutex, and that
what the wait has found still holds when it has returned); `TasksAreFifo`
(`FifoInv`: what is queued and what has begun lies below the next number).
The second part is the program on the pool. `ResumeIsPoolClient` shows that it
uses the pool as `Worker` says, so the results of the first part carry over.
`ResumeInv` then says what each place of main and of the worker implies for the
promises, the jobs in the pool and the other thread: before main resumes the
task, while the task runs on main and the worker's single task is on one side of
its exchange or the other, and once the task is on its way to the worker
(`BeginInv`, `MainInv`, `AwayInv`). From it follow `ResumeTypeCorrect`,
`TaskStaysOnOneThread`, `SingleFramesOutliveUse`, `TaskOutlivesItsJobs`, and
`ResumeImplementsLoop`, the refinement of `AwaitLoop`, step by step.

### SyncTaskProofs
For any positive number of awaited tasks: `SyncTypeCorrect`, `FramesOutliveUse`,
`FinalResumeNeverRuns`, `StackStaysShallow` and `SyncImplementsLoop`. `SInv`
describes the stack in each build (`TopInv`, `TransInv`, `ReadyInv`, `NestedInv`)
and which frames exist then (`FrameInv`). The bound on the depth is not inductive
without the shapes: it must be known which activation runs when one more is
pushed.

### GeneratorProofs
From `Sizes`, the relation between the constants that the program's `main`
fixes (as many values as the consumers look up in all):
`GeneratorTypeCorrect`, `GeneratorIsSuspended` and `ValuesComeInOrder`. `GInv`
says that a consumer is in its round exactly while it has `mtx_generator` and
that main goes on when all are done (`LockInv`), and counts the yields by the
rounds done (`YieldInv`); the order of the values and "never resumed at the end"
both rest on that count. For main the count says that with all rounds done the
coroutine has yielded its last value and is suspended there, so the resume at
`generator.cpp:86` is not one too many; a loop that is one value short would make
it one.

### CoroutineProofs
The same properties for the four programs as `MCCoroutine` composes them:
`ProgramsTypeCorrect`, `ProgramsFramesAlive`, `ProgramsFinalResumeIsDead`,
`ProgramsStackDepth`, `ProgramsResumeSuspended`, `ProgramsValuesInOrder`,
`ProgramsTaskOwned`, `ProgramsImplementLoop`. A behaviour chooses one program and
keeps it (`OneProgram`), and its steps are those of that program's module
(`SameSyncNext`, `SameGenNext`), so each theorem follows from the one above it.

### PthreadCondProofs
For any numbers of waiters, signalers and waits, and any number `U32` of word
values that is a multiple of 8 (`CondAssumption`, which also says that the set of
threads is finite):

* `WaiterSteps` and `SignalerSteps` say once what every step changes and are used
  by all later lemmas. The lemma `CondTypeCorrect` gives the types. A sum that the
  code takes in a `uint32_t` is in range whatever it wraps to, so the types do not
  say that nothing wraps; `CountsNeverWrap` below does.
* `DestroyedIsUntouched`, if `8 * |Waiters|` fits a word (`FewWaiters`):
  `wrefs` is 8 for each waiter between its two updates, plus the flag of `destroy`;
  once `destroy` has begun no waiter has its first update ahead, and the count
  that `destroy` has in hand is never below the current one (`DestroyInv`).
* `GroupsStaySmall`, `GroupsStayConsistent`, `NobodySleepsOnAnOldGroup`, if
  `24 * |Waiters|` fits a word (`FewThreads`: 178 million threads in the code).
  `CondInv` joins: what the counters and sizes say between and during a switch
  (`GroupInv`), to which group a waiter's position belongs (`PositionInv`), the
  closed flag (`ClosedInv`), that `g_refs` counts the holders of a reference
  (`RefsInv`), that after quiescing nobody sleeps on the closed slot or is about
  to (`BlockInv`), and the size of the groups (`MemberInv`, `SizeInv`).

The last part is what makes the rest unconditional. `g1_orig_size` has room for 30
bits, and nothing in the code checks that a group fits. A position of G2 is held
by a waiter or was given up for a signal; signals appear on G2's slot only from
waiters of older groups that put one back, each at most once; so a group has at
most three positions per thread. No bound on the number of waits is needed.

* `CountsNeverWrap`, also from `FewThreads`: the types, and for each addition,
  subtraction and shift that the code makes in a `uint32_t` that it is the one of
  the integers (`CountsExact`, an action property): on `wrefs`, the references and
  the signals of a group, the group sizes, `g1_orig_size` and `g1_start`. This
  holds after repairs too. `DestroyInv` and `RefsInv` bound what the counters
  count; for the signals of G1, `G1Bound` adds up the signals on its slot, those
  G1 is still to be given and the waiters that may yet put one back: at most four
  per thread. The switch starts G1 with the positions and the signals of the
  new group, which `SizeInv` bounds together by three per thread, and a thread can
  put back one; later each step only moves signals between the three terms or takes
  one away.

All parts were checked by TLC on the instances of `cond` and `lost_signal` before
they were proved; the runs list only the properties they imply.

* `SignalsAreOnlyLostByRepair`, from the same `FewThreads`: when everything has
  come to rest and no waiter has ever put a signal back, every call has let go as
  many threads as it owed.

No count of the code says this, so the invariant (`LostInv`) is an account of the
signals from the call to the waiter that leaves on one. `Reached` are the waiters
of G1 and of groups before it that have not ended their wait, `Signaling` the
calls of signal that still have theirs to give, `Undoing` the waiters of older
groups that have taken a signal of this G1 and still have to put it back.

| Part | Says | Without it |
|---|---|---|
| `CallInv` | a call in progress keeps its name, and only broadcast is at the places of its own branch | a call could give what another owes |
| `StayInv` | `credit` is at most the number of blocked threads; nobody sleeps with its wait ended | the account would begin wrong |
| `FlagInv` | the closed flag is on G1 only while a signaler closes it, and what a waiter has read of it is still true | a waiter could leave an open G1 without a signal |
| `CleanInv` | no signals on the slot of G2 or of the G2 to come, and each position of G2 has its waiter | a new G1 would begin with signals of the last, or be owed more than it has waiters |
| `GivenInv` | signals on G1 and those still to give are at most its waiters, and these exceed them by `Undoing` at most | `g_size` would not say who is left to wake |
| `OwedInv` | `credit` and what G1 holds back are covered by `Reached` and `Signaling` | a call could return too early |
| `WakeInv` | while somebody sleeps on G1, each signal there has a thread that is about to take it or to wake a waiter for it | a signal could lie beside a sleeper |

At rest the account closes (`NothingOwedAtRest`): all waiters of G1 sleep, so it
has no signal; nobody is undoing, so what G1 is still to be given is exactly its
waiters; no call is under way, so nothing beyond that is owed. The last four parts
hold until the first repair only: after one, TLC finds `GivenInv` violated, and
finding 3 is what follows from that. TLC checked `LostInv` on the instances of
`cond`, `cond_signals` and `lost_signal`, and on one with all three calls, before
the proof was begun.

### Only model-checked
* Liveness (`~>`, `<>`) and everything that rests on fairness or `ENABLED`: the
  prover does not handle it. That is every property of waking, returning and
  ending, in all the modules.
* The four violations, which are behaviours.

## 5. What could follow

Composition of the three-state lock with `KFutex` below it: both are modelled, but
the lock runs over the contract in `Futex`, which finding 2 shows the kernel side
does not keep for a waker that reads the count too early.

## 6. Not modelled

* Log formatting, the HTML page, the notes and the sync script: no behaviour to
  check.
* Memory orders: the state machines are sequentially consistent.
* `k_sched.h`: its primitives are empty in the source.
* `unhandled_exception` and `std::terminate` in the coroutine programs: nothing
  they call throws.
* The destructor of a worker pool that was not joined: no program does that.
