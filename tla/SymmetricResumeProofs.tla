------------------------ MODULE SymmetricResumeProofs ------------------------
(***************************************************************************)
(* Proofs about the worker pool, for any number of workers and of tasks,   *)
(* and about the threaded build of symmetric_resume.cpp over that pool,    *)
(* for any number of iterations. What concerns the pool alone rests on     *)
(* WorkerAssumption only and never on ResumeAssumption, which says that    *)
(* the program has one worker.                                             *)
(***************************************************************************)
EXTENDS SymmetricResume, SequenceTheorems, TLAPS

(***************************************************************************)
(* THE WORKER POOL                                                         *)
(***************************************************************************)

\* Every step of the pool keeps the types: the queue holds numbers of submitted
\* tasks and the mutex is a worker's or nobody's between two steps.
LEMMA TypeStep == TypeOK /\ [Next]_vars => TypeOK'
<1> SUFFICES ASSUME TypeOK, [Next]_vars PROVE TypeOK'
  OBVIOUS
<1> USE WorkerAssumption
<1> USE DEF TypeOK, Threads, WorkerPCs, MainPCs, Goto, client
<1>1. CASE UNCHANGED vars
  BY <1>1 DEF vars
<1>2. CASE start
  BY <1>2 DEF start
<1>3. CASE stop
  <2>1. ToSet(tasks) \subseteq 1..MaxTasks
    BY DEF ToSet
  <2> QED
    BY <1>3, <2>1 DEF stop
<1>4. CASE join \/ notify_all \/ join_return
  BY <1>4, ZenonT(40) DEF join, notify_all, join_return, WakeAll
<1>5. ASSUME NEW w \in Workers, request_stop(w) PROVE TypeOK'
  BY <1>5 DEF request_stop, WakeAll
<1>6. ASSUME NEW t \in Threads, submit(t) PROVE TypeOK'
  <2>1. next \in 1..MaxTasks
    BY <1>6 DEF submit
  <2>2. Append(tasks, next) \in Seq(1..MaxTasks)
    BY <2>1
  <2> QED
    BY <1>6, <2>1, <2>2 DEF submit
<1>7. ASSUME NEW t \in Threads, notify_one(t) PROVE TypeOK'
  BY <1>7 DEF notify_one, Asleep
<1>8. ASSUME NEW w \in Workers, run(w) \/ SpuriousWakeup(w) PROVE TypeOK'
  <2>1. CASE LoopTest(w) \/ Lock(w) \/ WaitTest(w) \/ PredTest(w) \/ SpuriousWakeup(w)
    BY <2>1, ZenonT(40) DEF LoopTest, Lock, WaitTest, PredTest, SpuriousWakeup
  <2>2. CASE Sleep(w) \/ Relock(w) \/ StopCheck(w)
    BY <2>2, ZenonT(40) DEF Sleep, Relock, StopCheck
  <2>3. CASE Pop(w)
    <3>1. Head(tasks) \in 1..MaxTasks /\ Tail(tasks) \in Seq(1..MaxTasks)
      BY <2>3 DEF Pop
    <3>2. PICK k \in 1..MaxTasks : /\ running' = [running EXCEPT ![w] = k]
                                  /\ started' = started \cup {k}
      BY <2>3, <3>1 DEF Pop
    <3>3. running' \in [Workers -> 0..MaxTasks] /\ started' \subseteq 1..MaxTasks
      BY <3>2
    <3>4. pc' \in [Threads -> WorkerPCs \cup MainPCs]
      BY <2>3 DEF Pop
    <3> QED
      BY <2>3, <3>1, <3>3, <3>4 DEF Pop
  <2>4. CASE TaskReturns(w)
    BY <2>4 DEF TaskReturns
  <2> QED
    BY <1>8, <2>1, <2>2, <2>3, <2>4 DEF run
<1> QED
  BY <1>1, <1>2, <1>3, <1>4, <1>5, <1>6, <1>7, <1>8 DEF Next, MainStep

\* The pool starts well typed.
LEMMA TypeInit == Init => TypeOK
  BY WorkerAssumption DEF Init, TypeOK, Threads, WorkerPCs, MainPCs

\* The pool's queue, mutex and counters are well typed in every reachable state.
THEOREM WorkerTypeCorrect == Spec => []TypeOK
  BY TypeInit, TypeStep, PTL DEF Spec

-----------------------------------------------------------------------------
\* Where a worker is while it holds tasks_mtx_.
HolderPCs == {"wait", "pred", "sleep", "check", "pop"}

\* The mutex is owned by the worker whose program counter says so, and a pool
\* that is not started (or has been joined) has no worker threads.
MutexInv ==
  /\ \A w \in Workers : pc[w] \in HolderPCs <=> mtx = w
  /\ pc[Main] = "idle" => \A w \in Workers : pc[w] = "none"

\* What the wait has found still holds when it has returned: a worker past the
\* wait has been told to stop or has a task to take.
WaitInv ==
  \A w \in Workers : /\ pc[w] = "check" => stopped[w] \/ tasks # <<>>
                     /\ pc[w] = "pop" => tasks # <<>>

PoolInv == TypeOK /\ MutexInv /\ WaitInv

\* PopFindsTask alone is not inductive: that nobody else empties the queue
\* between the predicate of cv_.wait and tasks_.front() follows from the mutex,
\* and that the stop test in between cannot lead to the pop without a task
\* follows from what the wait returned for.
LEMMA PoolInvStep == PoolInv /\ [Next]_vars => PoolInv'
<1> SUFFICES ASSUME PoolInv, [Next]_vars PROVE PoolInv'
  OBVIOUS
<1>T. TypeOK /\ TypeOK'
  BY TypeStep DEF PoolInv
<1> SUFFICES MutexInv' /\ WaitInv'
  BY <1>T DEF PoolInv
<1> USE WorkerAssumption, <1>T
<1> USE DEF PoolInv, MutexInv, WaitInv, HolderPCs, TypeOK, Threads, Goto, client
<1>1. CASE UNCHANGED vars
  BY <1>1 DEF vars
<1>2. CASE start
  BY <1>2 DEF start
<1>3. CASE stop \/ join
  BY <1>3 DEF stop, join
<1>4. CASE notify_all
  BY <1>4 DEF notify_all, WakeAll
<1>5. CASE join_return
  BY <1>5 DEF join_return
<1>6. ASSUME NEW w \in Workers, request_stop(w) PROVE MutexInv' /\ WaitInv'
  BY <1>6 DEF request_stop, WakeAll
<1>7. ASSUME NEW t \in Threads, submit(t) PROVE MutexInv' /\ WaitInv'
  <2>1. tasks' # <<>>
    BY <1>7 DEF submit
  <2> QED
    BY <1>7, <2>1, SMTT(30) DEF submit
<1>8. ASSUME NEW t \in Threads, notify_one(t) PROVE MutexInv' /\ WaitInv'
  BY <1>8 DEF notify_one, Asleep
<1>9. ASSUME NEW w \in Workers, run(w) \/ SpuriousWakeup(w)
      PROVE MutexInv' /\ WaitInv'
  <2>1. CASE LoopTest(w) \/ SpuriousWakeup(w)
    BY <2>1 DEF LoopTest, SpuriousWakeup
  <2>2. CASE Lock(w) \/ Relock(w)
    BY <2>2 DEF Lock, Relock
  <2>3. CASE WaitTest(w)
    BY <2>3 DEF WaitTest
  <2>4. CASE PredTest(w)
    BY <2>4 DEF PredTest
  <2>5. CASE Sleep(w)
    BY <2>5 DEF Sleep
  <2>6. CASE StopCheck(w)
    BY <2>6 DEF StopCheck
  <2>7. CASE Pop(w)
    BY <2>7 DEF Pop
  <2>8. CASE TaskReturns(w)
    BY <2>8 DEF TaskReturns
  <2> QED
    BY <1>9, <2>1, <2>2, <2>3, <2>4, <2>5, <2>6, <2>7, <2>8 DEF run
<1> QED
  BY <1>1, <1>2, <1>3, <1>4, <1>5, <1>6, <1>7, <1>8, <1>9 DEF Next, MainStep

\* The constructor leaves the mutex free and no thread running.
LEMMA PoolInvInit == Init => PoolInv
  BY TypeInit, WorkerAssumption
     DEF Init, PoolInv, MutexInv, WaitInv, HolderPCs, Threads

\* A worker that reaches tasks_.front() finds a task there, however stops,
\* restarts, submits and wakeups interleave.
THEOREM FrontIsNeverEmpty == Spec => []PopFindsTask
<1>1. PoolInv => PopFindsTask
  BY DEF PoolInv, WaitInv, PopFindsTask
<1> QED
  BY <1>1, PoolInvInit, PoolInvStep, PTL DEF Spec

-----------------------------------------------------------------------------
\* Every number handed out so far is below the counter: the queue and the
\* started tasks are below the next task's number.
FifoInv ==
  /\ TypeOK
  /\ FirstInFirstOut
  /\ \A n \in DOMAIN tasks : tasks[n] < next
  /\ \A k \in started : k < next

\* Only submit, pop and nothing else move the queue: submit appends a number
\* above all others, and the pop takes the smallest of those queued.
LEMMA FifoInvStep == FifoInv /\ [Next]_vars => FifoInv'
<1> SUFFICES ASSUME FifoInv, [Next]_vars PROVE FifoInv'
  OBVIOUS
<1>T. TypeOK /\ TypeOK'
  BY TypeStep DEF FifoInv
<1>Q. tasks \in Seq(1..MaxTasks) /\ next \in Nat /\ started \subseteq Nat
  BY <1>T, WorkerAssumption DEF TypeOK
<1>1. CASE UNCHANGED <<tasks, next, started>>
  BY <1>1, <1>T DEF FifoInv, FirstInFirstOut
<1>2. ASSUME NEW t \in Threads, submit(t) PROVE FifoInv'
  <2>1. /\ tasks' = Append(tasks, next) /\ next' = next + 1
        /\ started' = started
    BY <1>2 DEF submit
  <2>2. /\ DOMAIN tasks' = 1..(Len(tasks) + 1)
        /\ \A n \in DOMAIN tasks : tasks'[n] = tasks[n]
        /\ tasks'[Len(tasks) + 1] = next
    BY <2>1, <1>Q
  <2>3. \A n \in DOMAIN tasks' : n \in DOMAIN tasks \/ n = Len(tasks) + 1
    BY <2>2, <1>Q
  <2>4. \A n \in DOMAIN tasks : n \in Nat /\ n < Len(tasks) + 1 /\ tasks[n] \in Nat
    <3> TAKE n \in DOMAIN tasks
    <3>1. n \in 1..Len(tasks) /\ Len(tasks) \in Nat
      BY <1>Q
    <3>2. tasks[n] \in 1..MaxTasks
      BY <1>Q, <3>1, ElementOfSeq
    <3> QED
      BY <3>1, <3>2
  <2> QED
    BY <2>1, <2>2, <2>3, <2>4, <1>Q, <1>T DEF FifoInv, FirstInFirstOut
<1>3. ASSUME NEW w \in Workers, Pop(w) PROVE FifoInv'
  <2>1. /\ tasks # <<>> /\ tasks' = Tail(tasks) /\ next' = next
        /\ started' = started \cup {tasks[1]}
    BY <1>3, <1>Q DEF Pop, client
  <2>2. 1 \in DOMAIN tasks
    BY <2>1, <1>Q
  <2>3. \A n \in DOMAIN tasks' :
          n + 1 \in DOMAIN tasks /\ 1 < n + 1 /\ tasks'[n] = tasks[n + 1] /\ n \in Nat
    BY <2>1, <1>Q
  <2> QED
    BY <2>1, <2>2, <2>3, <1>T DEF FifoInv, FirstInFirstOut
<1>4. \/ UNCHANGED <<tasks, next, started>>
      \/ \E t \in Threads : submit(t)
      \/ \E w \in Workers : Pop(w)
  BY DEF Next, MainStep, run, vars, client, start, stop, join, request_stop,
         notify_all, join_return, notify_one, LoopTest, Lock, WaitTest, PredTest,
         Sleep, SpuriousWakeup, Relock, StopCheck, TaskReturns
<1> QED
  BY <1>1, <1>2, <1>3, <1>4

\* Tasks are begun in the order of their submit calls and at most once, for any
\* number of workers, tasks, stops and restarts.
THEOREM TasksAreFifo == Spec => []FirstInFirstOut
<1>1. Init => FifoInv
  BY TypeInit DEF Init, FifoInv, FirstInFirstOut
<1>2. FifoInv => FirstInFirstOut
  BY DEF FifoInv
<1> QED
  BY <1>1, <1>2, FifoInvStep, PTL DEF Spec

(***************************************************************************)
(* THE PROGRAM                                                             *)
(***************************************************************************)

\* The program uses the pool by its functions only: every step of it is a step
\* of the pool or leaves the pool alone.
LEMMA ResumeStepsPool == [ResumeNext]_allvars => [Next]_vars
<1> SUFFICES ASSUME [ResumeNext]_allvars PROVE [Next]_vars
  OBVIOUS
<1>1. CASE UNCHANGED allvars
  BY <1>1 DEF allvars
<1>2. CASE MainProgram
  BY <1>2 DEF MainProgram, MainBegins, MainBack, MainStops, MainInPool, MainReturns, Next
<1>3. ASSUME NEW t \in Threads, TaskStep(t) PROVE Next \/ UNCHANGED vars
  BY <1>3 DEF TaskStep, MakeSingle, SubmitSingle, SubmitNotifies, AwaiterExchange,
     Suspend, WaitFinished, EndIteration, FinishTask, CoReturn, Next
<1>4. ASSUME NEW w \in Workers, PoolStep(w) \/ (SpuriousWakeup(w) /\ UNCHANGED program)
      PROVE Next
  BY <1>4 DEF PoolStep, Next, run
<1>5. ASSUME NEW w \in Workers, JobStep(w) PROVE Next \/ UNCHANGED vars
  <2>1. w \in Threads
    BY DEF Threads
  <2> QED
    BY <1>5, <2>1 DEF JobStep, BeginJob, FinalExchange, WaitSuspended, HandBack,
       HandBackNotifies, Unwind, Publish, ResumeTask, EndJob, Next, run
<1> QED
  BY <1>1, <1>2, <1>3, <1>4, <1>5 DEF ResumeNext

-----------------------------------------------------------------------------
(* The inductive invariant *)

\* One job is queued, and it does x.
Queued(x) ==
  Len(tasks) = 1 /\ tasks[1] \in 1..Len(job) /\ job[tasks[1]] = x

Between(w) == at[w] \in {"pool", "job_done"}

\* The worker has nothing to do.
Idle(w) == Between(w) /\ tasks = <<>>

\* The worker has the single task of this iteration in hand, at one of places.
Working(w, places) == at[w] \in places /\ tasks = <<>> /\ Single(w) = i

\* The single task of this iteration is queued or taken, and has not exchanged.
ToRun(w) == (Between(w) /\ Queued(i)) \/ Working(w, {"final"})

Unrun == frame[i] = "suspended"
Ran == frame[i] = "final"

\* Jobs are numbered by the pool, and the worker is in a job exactly while it
\* runs one of them.
JobInv ==
  /\ Len(job) + 1 = next
  /\ \A w \in Workers : /\ at[w] = "pool" <=> pc[w] # "run"
                        /\ pc[w] = "run" => running[w] \in 1..Len(job)
                        /\ at[w] \notin MainPlaces
  /\ at[Main] \in TaskPlaces \cup MainPlaces

\* The single tasks of earlier iterations are destroyed, those of later ones
\* not made; their promises are untouched.
LoopInv ==
  \A k \in Singles :
    /\ k < i => frame[k] = "destroyed"
    /\ k > i \/ (k = i /\ (task = "initial" \/ \E t \in Threads : at[t] = "loop")) =>
         frame[k] = "none" /\ ~done_[k] /\ ~worker_finished_[k]

\* Before main has resumed the task.
BeginInv(w) ==
  (at[Main] = "begin" <=> task = "initial") /\
  (at[Main] = "begin" => /\ at[w] = "pool" /\ tasks = <<>> /\ i = 1
                         /\ ~g_task_suspended /\ ~g_task_finished)

\* While the task runs on main. The race over done_ is in the middle part: the
\* worker's single task is queued, about to exchange, or past its exchange.
MainInv(w) ==
  at[Main] \in TaskPlaces =>
    /\ task = "running" /\ ~g_task_suspended
    /\ g_task_finished <=> at[Main] = "return"
    /\ at[Main] = "loop" => Idle(w)
    /\ at[Main] = "return" => Idle(w) /\ i = Count + 1
    /\ at[Main] \notin {"loop", "return"} => i <= Count
    /\ at[Main] = "submit" => Idle(w) /\ Unrun /\ ~done_[i] /\ ~worker_finished_[i]
    /\ at[Main] \in {"notify", "exchange"} =>
         \/ ToRun(w) /\ Unrun /\ ~done_[i] /\ ~worker_finished_[i]
         \/ Working(w, {"unwind", "publish"}) /\ Ran /\ done_[i] /\ ~worker_finished_[i]
         \/ Idle(w) /\ Ran /\ done_[i] /\ worker_finished_[i]
    /\ at[Main] = "suspend" =>
         /\ done_[i]
         /\ \/ ToRun(w) /\ Unrun
            \/ Working(w, {"wait_suspended"}) /\ Ran
    /\ at[Main] = "wait_finished" =>
         /\ done_[i] /\ Ran
         /\ \/ Working(w, {"unwind", "publish"}) /\ ~worker_finished_[i]
            \/ Idle(w)
    /\ at[Main] = "resumed" => Idle(w) /\ Ran

\* Once main is out of the task: the task is suspended and on its way to the
\* worker, or runs there, or is over.
AwayInv(w) ==
  at[Main] \in {"back", "wait_task", "stop", "returned"} =>
    /\ g_task_suspended <=> at[Main] # "back"
    /\ g_task_finished <=> at[w] = "return" \/ task \in {"final", "destroyed"}
    /\ at[Main] \in {"stop", "returned"} => g_task_finished
    /\ at[Main] = "returned" <=> task = "destroyed"
    /\ task = "suspended" =>
         /\ i <= Count /\ done_[i]
         /\ \/ ToRun(w) /\ Unrun
            \/ Working(w, {"wait_suspended"}) /\ Ran
            \/ Working(w, {"hand_back"}) /\ Ran /\ g_task_suspended
            \/ /\ at[w] \in {"hand_notify", "unwind", "publish"}
               /\ Single(w) = i /\ Queued(0) /\ Ran /\ g_task_suspended
            \/ Between(w) /\ Queued(0) /\ Ran /\ g_task_suspended
            \/ at[w] = "resume_task" /\ tasks = <<>> /\ Ran /\ g_task_suspended
    /\ task = "running" =>
         /\ at[w] \in TaskPlaces \ {"wait_finished"} /\ g_task_suspended
         /\ at[w] \in {"loop", "submit", "resumed", "return"} => tasks = <<>>
         /\ at[w] \in {"notify", "exchange", "suspend"} => Queued(i)
         /\ at[w] \in {"submit", "notify", "exchange", "suspend"} => Unrun
         /\ at[w] \in {"submit", "notify", "exchange"} => ~done_[i]
         /\ at[w] = "suspend" => done_[i]
         /\ at[w] = "resumed" => Ran
         /\ at[w] = "return" => i = Count + 1
         /\ at[w] \notin {"loop", "return"} => i <= Count
    /\ task \in {"final", "destroyed"} => Idle(w) /\ i = Count + 1
    /\ task = "destroyed" => at[w] = "pool"

ResumeInv ==
  /\ PoolInv
  /\ ResumeTypeOK
  /\ JobInv
  /\ LoopInv
  /\ \A w \in Workers : BeginInv(w) /\ MainInv(w) /\ AwayInv(w)

-----------------------------------------------------------------------------
(* What the steps do to the queue and to the job in hand *)

\* A step that moves neither the queue nor the jobs leaves what is queued.
LEMMA QueueStays ==
  ASSUME UNCHANGED <<tasks, job>>, NEW x PROVE Queued(x)' <=> Queued(x)
  BY DEF Queued

\* A submit to the empty queue leaves just the new job in it, and the jobs
\* submitted before keep their numbers.
LEMMA SubmitQueues ==
  ASSUME TypeOK, JobInv, job \in Seq(0..Count), tasks = <<>>,
         NEW t, submit(t), NEW x \in 0..Count, job' = Append(job, x)
  PROVE  /\ Queued(x)' /\ tasks' # <<>> /\ running' = running
         /\ Len(job)' + 1 = next'
         /\ \A n \in 1..Len(job) : job'[n] = job[n] /\ n \in 1..Len(job')
<1>1. tasks' = <<next>> /\ next' = next + 1 /\ next = Len(job) + 1 /\ running' = running
  BY DEF submit, JobInv
<1>2. /\ Len(job') = Len(job) + 1 /\ job'[Len(job) + 1] = x /\ Len(job) \in Nat
      /\ \A n \in 1..Len(job) : job'[n] = job[n] /\ n \in 1..Len(job')
  OBVIOUS
<1>3. Len(tasks') = 1 /\ tasks'[1] = next /\ tasks' # <<>>
  BY <1>1
<1> QED
  BY <1>1, <1>2, <1>3 DEF Queued

\* The worker that pops the only queued job has it in hand, and the queue is
\* empty.
LEMMA PopTakes ==
  ASSUME TypeOK, NEW w \in Workers, Pop(w), NEW x, Queued(x), UNCHANGED job
  PROVE  /\ tasks' = <<>> /\ Single(w)' = x /\ job[Head(tasks)] = x
         /\ running'[w] \in 1..Len(job)
<1>1. /\ tasks \in Seq(1..MaxTasks) /\ Len(tasks) = 1 /\ job[tasks[1]] = x
      /\ tasks[1] \in 1..Len(job)
  BY DEF TypeOK, Queued
<1>2. Head(tasks) = tasks[1] /\ Len(Tail(tasks)) = 0
  BY <1>1
<1>3. Tail(tasks) = <<>>
  <2>1. tasks \in Seq(1..MaxTasks) /\ tasks # <<>>
    BY <1>1
  <2> QED
    BY <1>2, <2>1, EmptySeq, HeadTailProperties
<1> QED
  BY <1>1, <1>2, <1>3 DEF Pop, Single, TypeOK

-----------------------------------------------------------------------------
(* What the invariant says of a thread from where it is *)

\* A thread in the task has the task for itself; it submits to an empty queue
\* and stays within the loop's bound.
LEMMA InTaskFacts ==
  ASSUME ResumeInv, NEW t \in Threads, InTask(t)
  PROVE  /\ task = "running" /\ (\A u \in Threads : InTask(u) => u = t)
         /\ at[t] \notin {"loop", "return"} => i <= Count
         /\ at[t] \in {"loop", "submit", "resumed", "return"} => tasks = <<>>
         /\ at[t] \in {"submit", "notify", "exchange", "wait_finished", "resumed"} =>
              frame[i] \in {"suspended", "final"}
         /\ at[t] = "resumed" => Ran
<1>1. PICK w \in Workers : Workers = {w} /\ Threads = {w, Main} /\ w # Main
  BY WorkerAssumption, ResumeAssumption DEF Threads
<1>2. BeginInv(w) /\ MainInv(w) /\ AwayInv(w) /\ JobInv
  BY DEF ResumeInv
<1>3. task \in {"initial", "running", "suspended", "final", "destroyed"}
  BY DEF ResumeInv, ResumeTypeOK
<1>4. CASE at[Main] \in TaskPlaces
  <2>1. at[w] \notin TaskPlaces
    BY <1>2, <1>4 DEF MainInv, Idle, ToRun, Working, Between, TaskPlaces
  <2>2. t = Main
    BY <1>1, <2>1 DEF InTask
  <2> QED
    BY <1>1, <1>2, <1>4, <2>1, <2>2
       DEF MainInv, InTask, Idle, Unrun, Ran
<1>5. CASE at[Main] \notin TaskPlaces
  <2>1. t = w /\ at[w] \in TaskPlaces
    BY <1>1, <1>5 DEF InTask
  <2>2. at[Main] \in {"back", "wait_task", "stop", "returned"}
    BY <1>2, <1>5, <2>1 DEF BeginInv, JobInv, MainPlaces, TaskPlaces
  <2>3. task = "running"
    BY <1>2, <1>3, <2>1, <2>2
       DEF AwayInv, BeginInv, Idle, ToRun, Working, Between, TaskPlaces
  <2> QED
    BY <1>1, <1>2, <1>5, <2>1, <2>2, <2>3 DEF AwayInv, InTask, Unrun, Ran
<1> QED
  BY <1>4, <1>5

\* A worker in the job of a single task has this iteration's: nobody is at the
\* head of the loop, its frame is there, and its task is not yet resumed by
\* anybody else when it is handed back.
LEMMA InSingleFacts ==
  ASSUME ResumeInv, NEW w \in Workers, at[w] \in SinglePlaces
  PROVE  /\ Single(w) = i /\ i <= Count /\ task \in {"running", "suspended"}
         /\ \A u \in Threads : at[u] # "loop"
         /\ frame[i] \in {"suspended", "final"}
         /\ at[w] = "hand_back" => tasks = <<>>
         /\ at[w] = "final" => Unrun
<1>1. Workers = {w} /\ Threads = {w, Main} /\ w # Main
  BY WorkerAssumption, ResumeAssumption DEF Threads
<1>2. BeginInv(w) /\ MainInv(w) /\ AwayInv(w) /\ JobInv
  BY DEF ResumeInv
<1>3. task \in {"initial", "running", "suspended", "final", "destroyed"}
  BY DEF ResumeInv, ResumeTypeOK
<1>4. at[w] \notin TaskPlaces /\ at[w] # "loop" /\ ~Between(w) /\ at[w] # "resume_task"
  BY DEF SinglePlaces, TaskPlaces, Between
<1>5. CASE at[Main] \in TaskPlaces
  <2>1. at[Main] \in {"notify", "exchange", "suspend", "wait_finished"}
    BY <1>2, <1>4, <1>5 DEF MainInv, Idle, TaskPlaces
  <2>2. task = "running" /\ i <= Count
    BY <1>2, <1>5, <2>1 DEF MainInv
  <2>3. Single(w) = i /\ (Unrun \/ Ran) /\ at[w] # "hand_back"
        /\ (at[w] = "final" => Unrun)
    BY <1>2, <1>4, <1>5, <2>1 DEF MainInv, Idle, Working, ToRun
  <2> QED
    BY <1>1, <1>4, <2>1, <2>2, <2>3 DEF Unrun, Ran
<1>6. CASE at[Main] \notin TaskPlaces
  <2>1. at[Main] \in {"back", "wait_task", "stop", "returned"}
    BY <1>2, <1>4, <1>6 DEF BeginInv, JobInv, MainPlaces, TaskPlaces, SinglePlaces
  <2>2. task = "suspended"
    BY <1>2, <1>3, <1>4, <2>1 DEF AwayInv, BeginInv, Idle
  <2>3. i <= Count /\ Single(w) = i /\ (Unrun \/ Ran) /\ (at[w] = "hand_back" => tasks = <<>>)
        /\ (at[w] = "final" => Unrun)
    BY <1>2, <1>4, <2>1, <2>2 DEF AwayInv, ToRun, Working
  <2> QED
    BY <1>1, <1>4, <2>1, <2>2, <2>3 DEF Unrun, Ran
<1> QED
  BY <1>5, <1>6

\* A job that waits for the worker is the single task of this iteration, not yet
\* run, or the task, suspended with main out of it.
LEMMA QueuedFacts ==
  ASSUME ResumeInv, NEW w \in Workers, at[w] = "pool", tasks # <<>>
  PROVE  /\ i \in 1..Count
         /\ \/ Queued(i) /\ Unrun
            \/ Queued(0) /\ Ran /\ task = "suspended" /\ g_task_suspended
<1>1. BeginInv(w) /\ MainInv(w) /\ AwayInv(w) /\ JobInv
  BY DEF ResumeInv
<1>2. /\ task \in {"initial", "running", "suspended", "final", "destroyed"}
      /\ i \in 1..(Count + 1) /\ Count \in Nat
  BY ResumeAssumption DEF ResumeInv, ResumeTypeOK
<1>3. CASE at[Main] \in TaskPlaces
  <2>1. at[Main] \in {"notify", "exchange", "suspend", "wait_finished"}
    BY <1>1, <1>3 DEF MainInv, Idle, TaskPlaces
  <2>2. i <= Count
    BY <1>1, <1>3, <2>1 DEF MainInv
  <2>3. Queued(i) /\ Unrun
    BY <1>1, <1>3, <2>1 DEF MainInv, Idle, Working, ToRun
  <2> QED
    BY <1>2, <2>2, <2>3
<1>4. CASE at[Main] \notin TaskPlaces
  <2>1. at[Main] \in {"back", "wait_task", "stop", "returned"}
    BY <1>1, <1>4 DEF BeginInv, JobInv, MainPlaces
  <2>2. task = "suspended"
    BY <1>1, <1>2, <2>1 DEF AwayInv, BeginInv, Idle, TaskPlaces
  <2>3. /\ i <= Count
        /\ \/ Queued(i) /\ Unrun
           \/ Queued(0) /\ Ran /\ g_task_suspended
    BY <1>1, <2>1, <2>2 DEF AwayInv, ToRun, Working
  <2> QED
    BY <1>2, <2>2, <2>3
<1> QED
  BY <1>3, <1>4

-----------------------------------------------------------------------------
(* Each part of the invariant is kept by every step *)

\* The types are kept: the loop variable stays within its bound because only a
\* thread inside an iteration ends one.
LEMMA ResumeTypeStep == ResumeInv /\ [ResumeNext]_allvars => ResumeTypeOK'
<1> SUFFICES ASSUME ResumeInv, [ResumeNext]_allvars PROVE ResumeTypeOK'
  OBVIOUS
<1>T. TypeOK'
  BY ResumeStepsPool, TypeStep DEF ResumeInv, PoolInv
<1>R. ResumeTypeOK /\ Count \in Nat /\ Main \in Threads /\ Workers \subseteq Threads
  BY ResumeAssumption DEF ResumeInv, Threads
<1> DEFINE Places == TaskPlaces \cup SinglePlaces \cup MainPlaces \cup WorkerPlaces
<1>P. /\ {"loop", "submit", "notify", "exchange", "suspend", "wait_finished",
          "resumed", "return"} \subseteq Places
      /\ {"final", "wait_suspended", "hand_back", "hand_notify", "unwind", "publish",
          "begin", "back", "wait_task", "stop", "returned"} \subseteq Places
      /\ {"pool", "resume_task", "job_done"} \subseteq Places
  BY DEF TaskPlaces, SinglePlaces, MainPlaces, WorkerPlaces
<1>S. \A t \in Threads : \A p \in Places : [at EXCEPT ![t] = p] \in [Threads -> Places]
  BY <1>R DEF ResumeTypeOK
<1> HIDE DEF Places
<1> DEFINE Rest == /\ job' \in Seq(0..Count)
                   /\ i' \in 1..(Count + 1)
                   /\ task' \in {"initial", "running", "suspended", "final", "destroyed"}
                   /\ frame' \in [Singles -> {"none", "suspended", "final", "destroyed"}]
                   /\ done_' \in [Singles -> BOOLEAN]
                   /\ worker_finished_' \in [Singles -> BOOLEAN]
                   /\ g_task_suspended' \in BOOLEAN /\ g_task_finished' \in BOOLEAN
<1>G. SUFFICES at' \in [Threads -> Places] /\ Rest
  BY <1>T DEF ResumeTypeOK, Places
<1>O. ASSUME UNCHANGED <<job, coros>> PROVE Rest
  BY <1>O, <1>R DEF ResumeTypeOK, coros, promises, flags
<1>1. CASE UNCHANGED program
  BY <1>1, <1>O, <1>R DEF program, ResumeTypeOK, Places
<1>2. CASE MainBegins \/ MainBack \/ MainStops \/ MainReturns
  <2>1. at' \in [Threads -> Places]
    BY <1>2, <1>P, <1>S, <1>R DEF MainBegins, MainBack, MainStops, MainReturns, Step
  <2>2. Rest
    BY <1>2, <1>R DEF MainBegins, MainBack, MainStops, MainReturns, ResumeTypeOK,
       coros, promises, flags
  <2> QED
    BY <2>1, <2>2
<1>3. ASSUME NEW t \in Threads, TaskStep(t) PROVE at' \in [Threads -> Places] /\ Rest
  <2>1. at' \in [Threads -> Places]
    <3>1. PICK p \in Places : at' = [at EXCEPT ![t] = p]
      BY <1>3, <1>P DEF TaskStep, MakeSingle, SubmitSingle, SubmitNotifies,
         AwaiterExchange, Suspend, WaitFinished, EndIteration, FinishTask, CoReturn,
         Step, Resumer
    <3> QED
      BY <3>1, <1>S
  <2>2. CASE MakeSingle(t)
    BY <2>1, <2>2, <1>R DEF MakeSingle, ResumeTypeOK, flags
  <2>3. CASE SubmitSingle(t)
    <3>1. i \in 0..Count
      BY <2>3, <1>R, InTaskFacts DEF SubmitSingle, Step, InTask, TaskPlaces, ResumeTypeOK
    <3> QED
      BY <2>1, <2>3, <3>1, <1>R DEF SubmitSingle, ResumeTypeOK, coros, promises, flags
  <2>4. CASE SubmitNotifies(t) \/ WaitFinished(t)
    BY <2>1, <2>4, <1>O DEF SubmitNotifies, WaitFinished
  <2>5. CASE AwaiterExchange(t)
    BY <2>1, <2>5, <1>R DEF AwaiterExchange, ResumeTypeOK, flags
  <2>6. CASE Suspend(t) \/ CoReturn(t) \/ FinishTask(t)
    BY <2>1, <2>6, <1>R DEF Suspend, CoReturn, FinishTask, ResumeTypeOK, promises, flags
  <2>7. CASE EndIteration(t)
    <3>1. i + 1 \in 1..(Count + 1)
      BY <2>7, <1>R, InTaskFacts DEF EndIteration, Step, InTask, TaskPlaces, ResumeTypeOK
    <3> QED
      BY <2>1, <2>7, <3>1, <1>R DEF EndIteration, ResumeTypeOK, flags
  <2> QED
    BY <1>3, <2>2, <2>3, <2>4, <2>5, <2>6, <2>7 DEF TaskStep
<1>4. ASSUME NEW w \in Workers, JobStep(w) PROVE at' \in [Threads -> Places] /\ Rest
  <2>1. at' \in [Threads -> Places]
    <3>1. PICK p \in Places : at' = [at EXCEPT ![w] = p]
      BY <1>4, <1>P DEF JobStep, BeginJob, FinalExchange, WaitSuspended, HandBack,
         HandBackNotifies, Unwind, Publish, ResumeTask, EndJob, Step
    <3> QED
      BY <3>1, <1>S, <1>R
  <2>2. CASE BeginJob(w) \/ WaitSuspended(w) \/ HandBackNotifies(w) \/ Unwind(w) \/ EndJob(w)
    BY <2>1, <2>2, <1>O
       DEF BeginJob, WaitSuspended, HandBackNotifies, Unwind, EndJob
  <2>3. CASE HandBack(w)
    <3>1. 0 \in 0..Count
      BY <1>R
    <3> QED
      BY <2>1, <2>3, <3>1, <1>R DEF HandBack, ResumeTypeOK, coros, promises, flags
  <2>4. CASE FinalExchange(w)
    BY <2>1, <2>4, <1>R DEF FinalExchange, ResumeTypeOK, flags
  <2>5. CASE Publish(w) \/ ResumeTask(w)
    BY <2>1, <2>5, <1>R DEF Publish, ResumeTask, ResumeTypeOK, promises, flags
  <2> QED
    BY <1>4, <2>2, <2>3, <2>4, <2>5 DEF JobStep
<1> QED
  BY <1>1, <1>2, <1>3, <1>4
     DEF ResumeNext, MainProgram, MainInPool, PoolStep, allvars, program

\* A worker is in a job exactly while the pool says so, and what it runs is a job
\* that was submitted.
LEMMA JobInvStep == ResumeInv /\ [ResumeNext]_allvars => JobInv'
<1> SUFFICES ASSUME ResumeInv, [ResumeNext]_allvars PROVE JobInv'
  OBVIOUS
<1>1. PICK w \in Workers : Workers = {w} /\ Threads = {w, Main} /\ w # Main
  BY WorkerAssumption, ResumeAssumption DEF Threads
<1>2. JobInv /\ TypeOK /\ job \in Seq(0..Count)
  BY DEF ResumeInv, PoolInv, ResumeTypeOK
<1>3. pc \in [Threads -> WorkerPCs \cup MainPCs] /\ running \in [Workers -> 0..MaxTasks]
  BY <1>2 DEF TypeOK
<1>4. at \in [Threads -> TaskPlaces \cup SinglePlaces \cup MainPlaces \cup WorkerPlaces]
  BY DEF ResumeInv, ResumeTypeOK
<1>5. pc[Main] = "idle" => pc[w] = "none"
  BY DEF ResumeInv, PoolInv, MutexInv
<1>6. /\ Len(job) + 1 = next /\ at[Main] \in TaskPlaces \cup MainPlaces
      /\ at[w] = "pool" <=> pc[w] # "run"
      /\ pc[w] = "run" => running[w] \in 1..Len(job)
      /\ at[w] \notin MainPlaces
  BY <1>2 DEF JobInv
<1>7. ASSUME Len(job)' + 1 = next', at'[Main] \in TaskPlaces \cup MainPlaces,
             at'[w] = "pool" <=> pc'[w] # "run",
             pc'[w] = "run" => running'[w] \in 1..Len(job'),
             at'[w] \notin MainPlaces
      PROVE  JobInv'
  BY <1>1, <1>7 DEF JobInv
<1>8. CASE UNCHANGED <<job, next, pc, running, at>>
  BY <1>6, <1>7, <1>8
<1>9. CASE MainProgram
  <2>1. CASE MainBegins
    BY <1>1, <1>3, <1>4, <1>5, <1>6, <1>7, <2>1
       DEF MainBegins, start, Step, MainPlaces, TaskPlaces
  <2>2. CASE MainBack \/ MainStops \/ MainReturns
    BY <1>1, <1>3, <1>4, <1>6, <1>7, <2>2
       DEF MainBack, MainStops, MainReturns, stop, Step, MainPlaces, vars
  <2>3. CASE MainInPool
    <3>1. UNCHANGED <<job, next, running, at>>
      BY <2>3 DEF MainInPool, MainStep, request_stop, notify_all, join_return, join,
         client, program
    <3>2. pc'[w] = "run" <=> pc[w] = "run"
      BY <1>1, <1>3, <2>3 DEF MainInPool, MainStep, request_stop, notify_all,
         join_return, join, WakeAll
    <3> QED
      BY <3>1, <3>2, <1>6, <1>7
  <2> QED
    BY <1>9, <2>1, <2>2, <2>3 DEF MainProgram
<1>10. ASSUME NEW t \in Threads, TaskStep(t) PROVE JobInv'
  <2>1. at[t] \in TaskPlaces
    BY <1>10 DEF TaskStep, MakeSingle, SubmitSingle, SubmitNotifies,
         AwaiterExchange, Suspend, WaitFinished, EndIteration, FinishTask, CoReturn,
         Step, TaskPlaces
  <2>2. PICK p \in TaskPlaces \cup {Resumer(t)} : at' = [at EXCEPT ![t] = p]
    BY <1>10 DEF TaskStep, MakeSingle, SubmitSingle, SubmitNotifies,
         AwaiterExchange, Suspend, WaitFinished, EndIteration, FinishTask, CoReturn,
         Step, TaskPlaces
  <2>3. /\ at'[Main] \in TaskPlaces \cup MainPlaces
        /\ (at'[w] = "pool" <=> at[w] = "pool") /\ at'[w] \notin MainPlaces
    <3>1. CASE t = Main
      BY <1>1, <1>4, <1>6, <2>1, <2>2, <3>1 DEF Resumer, TaskPlaces, MainPlaces
    <3>2. CASE t = w
      BY <1>1, <1>4, <1>6, <2>1, <2>2, <3>2 DEF Resumer, TaskPlaces, MainPlaces
    <3> QED
      BY <1>1, <3>1, <3>2
  <2>4. CASE SubmitSingle(t)
    <3>1. tasks = <<>> /\ i \in 0..Count
      BY <1>10, <2>4, InTaskFacts, ResumeAssumption
         DEF SubmitSingle, Step, InTask, TaskPlaces, ResumeInv, ResumeTypeOK
    <3>2. /\ Len(job)' + 1 = next' /\ running' = running
          /\ \A n \in 1..Len(job) : n \in 1..Len(job')
      BY <1>2, <2>4, <3>1, SubmitQueues DEF SubmitSingle
    <3>3. pc' = pc
      BY <2>4 DEF SubmitSingle, submit
    <3> QED
      BY <1>6, <1>7, <2>3, <3>2, <3>3
  <2>5. CASE SubmitNotifies(t)
    <3>1. pc'[w] = "run" <=> pc[w] = "run"
      BY <1>1, <1>3, <2>5 DEF SubmitNotifies, notify_one, Asleep
    <3> QED
      BY <1>6, <1>7, <2>3, <2>5, <3>1 DEF SubmitNotifies, notify_one
  <2>6. CASE UNCHANGED <<vars, job>>
    BY <1>6, <1>7, <2>3, <2>6 DEF vars
  <2> QED
    BY <1>10, <2>4, <2>5, <2>6 DEF TaskStep, MakeSingle, AwaiterExchange, Suspend,
       WaitFinished, EndIteration, FinishTask, CoReturn
<1>11. CASE JobStep(w)
  <2>1. at'[Main] = at[Main]
    BY <1>1, <1>4, <1>11 DEF JobStep, BeginJob, FinalExchange, WaitSuspended, HandBack,
         HandBackNotifies, Unwind, Publish, ResumeTask, EndJob, Step
  <2>2. CASE BeginJob(w)
    <3>1. at[w] = "pool" /\ tasks # <<>> /\ Pop(w) /\ UNCHANGED job
      BY <2>2 DEF BeginJob, Step, Pop
    <3>2. running'[w] \in 1..Len(job)
      BY <1>2, <3>1, QueuedFacts, PopTakes
    <3>3. pc'[w] = "run" /\ next' = next
      BY <1>1, <1>3, <3>1 DEF Pop, Goto, client
    <3>4. at'[w] \in {"resume_task", "final"}
      BY <1>1, <1>4, <2>2 DEF BeginJob, Step
    <3> QED
      BY <1>6, <1>7, <2>1, <3>1, <3>2, <3>3, <3>4 DEF MainPlaces
  <2>3. CASE HandBack(w)
    <3>1. tasks = <<>> /\ 0 \in 0..Count
      BY <2>3, InSingleFacts, ResumeAssumption DEF HandBack, Step, SinglePlaces
    <3>2. /\ Len(job)' + 1 = next' /\ running' = running
          /\ \A n \in 1..Len(job) : n \in 1..Len(job')
      BY <1>2, <2>3, <3>1, SubmitQueues DEF HandBack
    <3>3. pc' = pc /\ at[w] # "pool" /\ at'[w] = "hand_notify"
      BY <1>1, <1>4, <2>3 DEF HandBack, submit, Step
    <3> QED
      BY <1>6, <1>7, <2>1, <3>2, <3>3 DEF MainPlaces
  <2>4. CASE HandBackNotifies(w)
    <3>1. pc'[w] = "run" <=> pc[w] = "run"
      BY <1>1, <1>3, <2>4 DEF HandBackNotifies, notify_one, Asleep
    <3>2. at[w] # "pool" /\ at'[w] = "unwind"
      BY <1>1, <1>4, <2>4 DEF HandBackNotifies, Step
    <3> QED
      BY <1>6, <1>7, <2>1, <2>4, <3>1, <3>2 DEF HandBackNotifies, notify_one, MainPlaces
  <2>5. CASE EndJob(w)
    <3>1. at'[w] = "pool" /\ pc'[w] = "loop" /\ UNCHANGED <<job, next>>
      BY <1>1, <1>3, <1>4, <2>5 DEF EndJob, Step, TaskReturns, Goto, client
    <3> QED
      BY <1>6, <1>7, <2>1, <3>1 DEF MainPlaces
  <2>6. CASE FinalExchange(w) \/ WaitSuspended(w) \/ Unwind(w) \/ Publish(w) \/ ResumeTask(w)
    <3>1. UNCHANGED <<job, pc, next, running>>
      BY <2>6 DEF FinalExchange, WaitSuspended, Unwind, Publish, ResumeTask, vars
    <3>2. at[w] # "pool" /\ at'[w] # "pool" /\ at'[w] \notin MainPlaces
      BY <1>1, <1>4, <2>6 DEF FinalExchange, WaitSuspended, Unwind, Publish, ResumeTask,
         Step, MainPlaces
    <3> QED
      BY <1>6, <1>7, <2>1, <3>1, <3>2
  <2> QED
    BY <1>11, <2>2, <2>3, <2>4, <2>5, <2>6 DEF JobStep
<1>12. CASE PoolStep(w) \/ (SpuriousWakeup(w) /\ UNCHANGED program)
  <2>1. UNCHANGED <<job, at, next, running>>
    BY <1>12 DEF PoolStep, LoopTest, Lock, WaitTest, PredTest, Sleep, Relock, StopCheck,
       SpuriousWakeup, client, program
  <2>2. pc'[w] = "run" <=> pc[w] = "run"
    BY <1>1, <1>3, <1>12 DEF PoolStep, LoopTest, Lock, WaitTest, PredTest, Sleep, Relock,
       StopCheck, SpuriousWakeup, Goto
  <2> QED
    BY <1>6, <1>7, <2>1, <2>2
<1>13. CASE UNCHANGED allvars
  BY <1>8, <1>13 DEF allvars, vars, program
<1> QED
  BY <1>1, <1>9, <1>10, <1>11, <1>12, <1>13 DEF ResumeNext

\* A step touches the frame and the promise of this iteration's single task
\* only, and nobody touches them before the iteration makes it.
LEMMA LoopInvStep == ResumeInv /\ [ResumeNext]_allvars => LoopInv'
<1> SUFFICES ASSUME ResumeInv, [ResumeNext]_allvars PROVE LoopInv'
  OBVIOUS
<1>1. PICK w \in Workers : Workers = {w} /\ Threads = {w, Main} /\ w # Main
  BY WorkerAssumption, ResumeAssumption DEF Threads
<1>2. LoopInv /\ ResumeTypeOK /\ BeginInv(w)
  BY DEF ResumeInv
<1>3. /\ at \in [Threads -> TaskPlaces \cup SinglePlaces \cup MainPlaces \cup WorkerPlaces]
      /\ i \in Int /\ Singles \subseteq Int
      /\ DOMAIN frame = Singles /\ DOMAIN done_ = Singles /\ DOMAIN worker_finished_ = Singles
  BY <1>2, ResumeAssumption DEF ResumeTypeOK, Singles
<1> DEFINE Fresh == task = "initial" \/ \E t \in Threads : at[t] = "loop"
           Clean(k) == frame[k] = "none" /\ ~done_[k] /\ ~worker_finished_[k]
<1>4. \A k \in Singles : /\ k < i => frame[k] = "destroyed"
                         /\ k > i \/ (k = i /\ Fresh) => Clean(k)
  BY <1>2 DEF LoopInv
<1>5. ASSUME UNCHANGED <<i, promises>>, Fresh' => Fresh PROVE LoopInv'
  BY <1>4, <1>5 DEF LoopInv, promises
<1>6. ASSUME i' = i, ~Fresh',
             \A k \in Singles : k # i =>
               frame'[k] = frame[k] /\ done_'[k] = done_[k]
               /\ worker_finished_'[k] = worker_finished_[k]
      PROVE  LoopInv'
  BY <1>3, <1>4, <1>6 DEF LoopInv
<1>7. ASSUME NEW t \in Threads, InTask(t), NEW p, at' = [at EXCEPT ![t] = p],
             p # "loop", task' # "initial"
      PROVE  ~Fresh'
  <2>1. \A u \in Threads : u # t => at[u] # "loop"
    BY <1>7, InTaskFacts DEF InTask, TaskPlaces
  <2> QED
    BY <1>3, <1>7, <2>1
<1>8. ASSUME at[w] \in SinglePlaces, NEW p, at' = [at EXCEPT ![w] = p],
             p # "loop", UNCHANGED task
      PROVE  ~Fresh' /\ Single(w) = i
  <2>1. /\ Single(w) = i /\ task \in {"running", "suspended"}
        /\ \A u \in Threads : at[u] # "loop"
    BY <1>8, InSingleFacts
  <2> QED
    BY <1>1, <1>3, <1>8, <2>1
<1>9. CASE UNCHANGED <<at, coros>>
  BY <1>5, <1>9 DEF coros
<1>10. CASE MainBegins
  BY <1>2, <1>5, <1>10 DEF MainBegins, BeginInv, Step
<1>11. CASE MainBack \/ MainStops \/ MainReturns
  <2>1. PICK p : at' = [at EXCEPT ![Main] = p] /\ p # "loop"
    BY <1>11 DEF MainBack, MainStops, MainReturns, Step
  <2>2. UNCHANGED <<i, promises>> /\ (UNCHANGED task \/ task' = "destroyed")
    BY <1>11 DEF MainBack, MainStops, MainReturns, coros
  <2>3. Fresh' => Fresh
    BY <1>1, <1>3, <2>1, <2>2
  <2> QED
    BY <1>5, <2>2, <2>3
<1>12. ASSUME NEW t \in Threads, TaskStep(t) PROVE LoopInv'
  <2>1. InTask(t)
    BY <1>12 DEF TaskStep, MakeSingle, SubmitSingle, SubmitNotifies, AwaiterExchange,
       Suspend, WaitFinished, EndIteration, FinishTask, CoReturn, Step, InTask, TaskPlaces
  <2>2. task = "running" /\ \A u \in Threads : at[u] = "loop" => u = t
    BY <2>1, InTaskFacts DEF InTask, TaskPlaces
  <2>3. CASE MakeSingle(t)
    <3>1. ~Fresh'
      BY <1>7, <2>1, <2>2, <2>3 DEF MakeSingle, Step
    <3> QED
      BY <1>3, <1>6, <2>3, <3>1 DEF MakeSingle
  <2>4. CASE AwaiterExchange(t)
    <3>1. PICK p \in {"wait_finished", "suspend"} : at' = [at EXCEPT ![t] = p]
      BY <2>4 DEF AwaiterExchange, Step
    <3>2. ~Fresh'
      BY <1>7, <2>1, <2>2, <2>4, <3>1 DEF AwaiterExchange
    <3> QED
      BY <1>3, <1>6, <2>4, <3>2 DEF AwaiterExchange
  <2>5. CASE EndIteration(t)
    <3>1. /\ i' = i + 1 /\ frame' = [frame EXCEPT ![i] = "destroyed"]
          /\ UNCHANGED <<done_, worker_finished_>>
      BY <2>5 DEF EndIteration
    <3> QED
      BY <1>3, <1>4, <3>1 DEF LoopInv
  <2>6. CASE SubmitSingle(t) \/ SubmitNotifies(t) \/ Suspend(t) \/ WaitFinished(t)
             \/ FinishTask(t) \/ CoReturn(t)
    <3>1. PICK p : at' = [at EXCEPT ![t] = p] /\ p # "loop"
      BY <2>6 DEF SubmitSingle, SubmitNotifies, Suspend, WaitFinished, FinishTask,
         CoReturn, Step, Resumer
    <3>2. task' # "initial" /\ UNCHANGED <<i, promises>>
      BY <2>2, <2>6 DEF SubmitSingle, SubmitNotifies, Suspend, WaitFinished, FinishTask,
         CoReturn, coros
    <3>3. ~Fresh'
      BY <1>7, <2>1, <3>1, <3>2
    <3> QED
      BY <1>5, <3>2, <3>3
  <2> QED
    BY <1>12, <2>3, <2>4, <2>5, <2>6 DEF TaskStep
<1>13. CASE JobStep(w)
  <2>1. CASE FinalExchange(w)
    <3>1. PICK p \in {"wait_suspended", "unwind"} : at' = [at EXCEPT ![w] = p]
      BY <2>1 DEF FinalExchange, Step
    <3>2. at[w] \in SinglePlaces /\ UNCHANGED task
      BY <2>1 DEF FinalExchange, Step, SinglePlaces
    <3>3. ~Fresh' /\ Single(w) = i
      BY <1>8, <3>1, <3>2
    <3> QED
      BY <1>3, <1>6, <2>1, <3>3 DEF FinalExchange
  <2>2. CASE Publish(w)
    <3>1. at' = [at EXCEPT ![w] = "job_done"] /\ at[w] \in SinglePlaces /\ UNCHANGED task
      BY <2>2 DEF Publish, Step, SinglePlaces
    <3>2. ~Fresh' /\ Single(w) = i
      BY <1>8, <3>1
    <3> QED
      BY <1>3, <1>6, <2>2, <3>2 DEF Publish
  <2>3. CASE BeginJob(w) \/ WaitSuspended(w) \/ HandBack(w) \/ HandBackNotifies(w)
             \/ Unwind(w) \/ ResumeTask(w) \/ EndJob(w)
    <3>1. PICK p : at' = [at EXCEPT ![w] = p] /\ p # "loop"
      BY <2>3 DEF BeginJob, WaitSuspended, HandBack, HandBackNotifies, Unwind,
         ResumeTask, EndJob, Step
    <3>2. UNCHANGED <<i, promises>> /\ (UNCHANGED task \/ task' = "running")
      BY <2>3 DEF BeginJob, WaitSuspended, HandBack, HandBackNotifies, Unwind,
         ResumeTask, EndJob, coros
    <3>3. Fresh' => Fresh
      BY <1>1, <1>3, <3>1, <3>2
    <3> QED
      BY <1>5, <3>2, <3>3
  <2> QED
    BY <1>13, <2>1, <2>2, <2>3 DEF JobStep
<1> QED
  BY <1>1, <1>9, <1>10, <1>11, <1>12, <1>13
     DEF ResumeNext, MainProgram, MainInPool, PoolStep, program, allvars

-----------------------------------------------------------------------------
(* The phases: before, while and after the task runs on main *)

Phases(w) == BeginInv(w) /\ MainInv(w) /\ AwayInv(w)

\* What is not about the queue or the program changes no phase.
LEMMA PhasesStay ==
  ASSUME NEW w \in Workers, Phases(w),
         UNCHANGED <<at, coros, tasks, job, running>>
  PROVE  Phases(w)'
  BY DEF Phases, BeginInv, MainInv, AwayInv, Idle, ToRun, Working, Between, Unrun, Ran,
     Queued, Single, coros, promises, flags

\* main: the task begins once, and afterwards main waits for it.
LEMMA PhasesMain ==
  ASSUME ResumeInv, NEW w \in Workers,
         MainBegins \/ MainBack \/ MainStops \/ MainReturns
  PROVE  Phases(w)'
<1>1. Workers = {w} /\ Threads = {w, Main} /\ w # Main
  BY WorkerAssumption, ResumeAssumption DEF Threads
<1>2. BeginInv(w) /\ MainInv(w) /\ AwayInv(w)
  BY DEF ResumeInv
<1>3. at \in [Threads -> TaskPlaces \cup SinglePlaces \cup MainPlaces \cup WorkerPlaces]
  BY DEF ResumeInv, ResumeTypeOK
<1>4. /\ UNCHANGED <<tasks, job, running, i, promises>>
      /\ (Queued(i))' <=> Queued(i)
      /\ (Queued(0))' <=> Queued(0)
      /\ Single(w)' = Single(w)
  BY DEF MainBegins, MainBack, MainStops, MainReturns, start, stop, vars, coros, Queued,
     Single
<1>5. CASE MainBegins
  <2>1. at'[Main] = "loop" /\ at'[w] = "pool" /\ task' = "running" /\ tasks = <<>>
        /\ UNCHANGED flags /\ ~g_task_suspended /\ ~g_task_finished
    BY <1>1, <1>2, <1>3, <1>5 DEF MainBegins, Step, BeginInv
  <2> QED
    BY <1>4, <2>1 DEF Phases, BeginInv, MainInv, AwayInv, Idle, Between, flags
<1>6. CASE MainBack
  <2>1. at[Main] = "back" /\ at'[Main] = "wait_task" /\ at'[w] = at[w] /\ g_task_suspended'
        /\ UNCHANGED <<task, g_task_finished>>
    BY <1>1, <1>3, <1>6 DEF MainBack, Step
  <2> QED
    BY <1>2, <1>4, <2>1 DEF Phases, BeginInv, MainInv, AwayInv, Idle, Between, ToRun,
       Working, Unrun, Ran, promises, TaskPlaces
<1>7. CASE MainStops
  <2>1. at[Main] = "wait_task" /\ at'[Main] = "stop" /\ at'[w] = at[w] /\ g_task_finished
        /\ UNCHANGED <<task, flags>>
    BY <1>1, <1>3, <1>7 DEF MainStops, Step, coros
  <2> QED
    BY <1>2, <1>4, <2>1 DEF Phases, BeginInv, MainInv, AwayInv, Idle, Between, ToRun,
       Working, Unrun, Ran, promises, flags, TaskPlaces
<1>8. CASE MainReturns
  <2>1. /\ at[Main] = "stop" /\ at'[Main] = "returned" /\ at'[w] = at[w]
        /\ task' = "destroyed" /\ UNCHANGED flags
    BY <1>1, <1>3, <1>8 DEF MainReturns, Step
  <2>2. at[w] = "pool"
    BY <1>8 DEF MainReturns, ResumeInv, PoolInv, MutexInv, JobInv
  <2>3. task \in {"final", "destroyed"}
    BY <1>2, <2>1, <2>2 DEF AwayInv
  <2> QED
    BY <1>2, <1>4, <2>1, <2>2, <2>3 DEF Phases, BeginInv, MainInv, AwayInv, Idle, Between,
       promises, flags, TaskPlaces
<1> QED
  BY <1>5, <1>6, <1>7, <1>8

\* The task on main: the iteration hands its single task to an idle worker, and
\* the awaiter either finds that the single task has exchanged or leaves done_
\* set for it and gets out of the task.
LEMMA PhasesTaskOnMain ==
  ASSUME ResumeInv, NEW w \in Workers, TaskStep(Main)
  PROVE  Phases(w)'
<1>1. Workers = {w} /\ Threads = {w, Main} /\ w # Main
  BY WorkerAssumption, ResumeAssumption DEF Threads
<1>2. BeginInv(w) /\ MainInv(w) /\ AwayInv(w) /\ LoopInv /\ JobInv
  BY DEF ResumeInv
<1>3. /\ at \in [Threads -> TaskPlaces \cup SinglePlaces \cup MainPlaces \cup WorkerPlaces]
      /\ DOMAIN frame = Singles /\ DOMAIN done_ = Singles /\ DOMAIN worker_finished_ = Singles
      /\ i \in 1..(Count + 1) /\ Count \in Nat
  BY ResumeAssumption DEF ResumeInv, ResumeTypeOK
<1>4. ASSUME UNCHANGED <<tasks, job, running, i>>
      PROVE  /\ (Queued(i))' <=> Queued(i)
             /\ Single(w)' = Single(w)
  BY <1>4 DEF Queued, Single
<1>5. InTask(Main)
  BY DEF TaskStep, MakeSingle, SubmitSingle, SubmitNotifies, AwaiterExchange, Suspend,
     WaitFinished, EndIteration, FinishTask, CoReturn, Step, InTask, TaskPlaces
<1>6. /\ task = "running" /\ ~g_task_suspended
      /\ g_task_finished <=> at[Main] = "return"
      /\ at[Main] \notin {"loop", "return"} => i <= Count
  BY <1>2, <1>5 DEF InTask, MainInv
<1>7. ASSUME NEW p \in TaskPlaces, at' = [at EXCEPT ![Main] = p], UNCHANGED <<task, flags>>,
             (MainInv(w))'
      PROVE  Phases(w)'
  <2>1. at'[Main] = p
    BY <1>1, <1>3, <1>7
  <2>2. p \notin {"begin", "back", "wait_task", "stop", "returned"}
    BY DEF TaskPlaces
  <2> QED
    BY <1>6, <1>7, <2>1, <2>2 DEF Phases, BeginInv, AwayInv
<1>8. CASE MakeSingle(Main)
  <2>1. /\ at[Main] = "loop" /\ at' = [at EXCEPT ![Main] = "submit"] /\ i <= Count
        /\ frame' = [frame EXCEPT ![i] = "suspended"]
        /\ UNCHANGED <<tasks, job, running, i, task, done_, worker_finished_, flags>>
    BY <1>8 DEF MakeSingle, Step, vars
  <2>2. i \in Singles /\ ~done_[i] /\ ~worker_finished_[i]
    BY <1>1, <1>2, <1>3, <2>1 DEF LoopInv, Singles
  <2>3. frame'[i] = "suspended" /\ at'[Main] = "submit" /\ at'[w] = at[w]
    BY <1>1, <1>3, <2>1, <2>2
  <2>4. Idle(w)
    BY <1>2, <2>1 DEF MainInv, TaskPlaces
  <2>5. (MainInv(w))'
    BY <1>6, <2>1, <2>2, <2>3, <2>4 DEF MainInv, Idle, Between, Unrun, flags
  <2> QED
    BY <1>7, <2>1, <2>5 DEF TaskPlaces
<1>9. CASE SubmitSingle(Main)
  <2>1. /\ at[Main] = "submit" /\ at' = [at EXCEPT ![Main] = "notify"]
        /\ submit(Main) /\ job' = Append(job, i)
        /\ UNCHANGED <<i, task, promises, flags>>
    BY <1>9 DEF SubmitSingle, Step, coros
  <2>2. Idle(w) /\ Unrun /\ ~done_[i] /\ ~worker_finished_[i] /\ tasks = <<>>
    BY <1>2, <2>1 DEF MainInv, TaskPlaces, Idle
  <2>3. Queued(i)'
    <3> DEFINE x == i
    <3>1. x \in 0..Count /\ x' = x
      BY <1>3, <1>6, <2>1
    <3> HIDE DEF x
    <3>2. job' = Append(job, x)
      BY <2>1 DEF x
    <3>3. Queued(x)'
      BY <2>1, <2>2, <3>1, <3>2, SubmitQueues DEF ResumeInv, ResumeTypeOK
    <3> QED
      BY <3>3 DEF x
  <2>4. at'[Main] = "notify" /\ at'[w] = at[w]
    BY <1>1, <1>3, <2>1
  <2>5. (MainInv(w))'
    BY <1>6, <2>1, <2>2, <2>3, <2>4 DEF MainInv, Idle, Between, ToRun, Unrun, flags, promises
  <2> QED
    BY <1>7, <2>1, <2>5 DEF TaskPlaces
<1>10. CASE SubmitNotifies(Main)
  <2>1. /\ at[Main] = "notify" /\ at' = [at EXCEPT ![Main] = "exchange"]
        /\ UNCHANGED <<tasks, job, running, i, task, promises, flags>>
    BY <1>10 DEF SubmitNotifies, notify_one, Step, coros
  <2>2. at'[Main] = "exchange" /\ at'[w] = at[w]
    BY <1>1, <1>3, <2>1
  <2>3. (MainInv(w))'
    BY <1>2, <1>4, <1>6, <2>1, <2>2
       DEF MainInv, Idle, Between, ToRun, Working, Unrun, Ran, flags, promises, TaskPlaces
  <2> QED
    BY <1>7, <2>1, <2>3 DEF TaskPlaces
<1>11. CASE AwaiterExchange(Main)
  <2>1. /\ at[Main] = "exchange"
        /\ at' = [at EXCEPT ![Main] = IF done_[i] THEN "wait_finished" ELSE "suspend"]
        /\ done_' = [done_ EXCEPT ![i] = TRUE]
        /\ UNCHANGED <<tasks, job, running, i, task, frame, worker_finished_, flags>>
    BY <1>11 DEF AwaiterExchange, Step, vars
  <2>2. i \in Singles /\ done_'[i]
    BY <1>3, <1>6, <2>1 DEF Singles
  <2>3. CASE done_[i]
    <3>1. at' = [at EXCEPT ![Main] = "wait_finished"]
      BY <2>1, <2>3
    <3>2. at'[Main] = "wait_finished" /\ at'[w] = at[w]
      BY <1>1, <1>3, <3>1
    <3>3. (MainInv(w))'
      BY <1>2, <1>4, <1>6, <2>1, <2>2, <2>3, <3>2
         DEF MainInv, Idle, Between, ToRun, Working, Unrun, Ran, flags, TaskPlaces
    <3> QED
      BY <1>7, <2>1, <3>1, <3>3 DEF TaskPlaces
  <2>4. CASE ~done_[i]
    <3>1. at' = [at EXCEPT ![Main] = "suspend"]
      BY <2>1, <2>4
    <3>2. at'[Main] = "suspend" /\ at'[w] = at[w]
      BY <1>1, <1>3, <3>1
    <3>3. (MainInv(w))'
      BY <1>2, <1>4, <1>6, <2>1, <2>2, <2>4, <3>2
         DEF MainInv, Idle, Between, ToRun, Working, Unrun, Ran, flags, TaskPlaces
    <3> QED
      BY <1>7, <2>1, <3>1, <3>3 DEF TaskPlaces
  <2> QED
    BY <2>3, <2>4
<1>12. CASE Suspend(Main)
  <2>1. /\ at[Main] = "suspend" /\ at' = [at EXCEPT ![Main] = "back"] /\ task' = "suspended"
        /\ UNCHANGED <<tasks, job, running, i, promises, flags>>
    BY <1>12 DEF Suspend, Step, Resumer, vars
  <2>2. at'[Main] = "back" /\ at'[w] = at[w]
    BY <1>1, <1>3, <2>1
  <2>3. (AwayInv(w))'
    BY <1>2, <1>4, <1>6, <2>1, <2>2
       DEF MainInv, AwayInv, Between, ToRun, Working, Unrun, Ran, flags, promises, TaskPlaces
  <2> QED
    BY <2>1, <2>2, <2>3 DEF Phases, BeginInv, MainInv, TaskPlaces
<1>13. CASE WaitFinished(Main)
  <2>1. /\ at[Main] = "wait_finished" /\ at' = [at EXCEPT ![Main] = "resumed"]
        /\ worker_finished_[i]
        /\ UNCHANGED <<tasks, job, running, i, task, promises, flags>>
    BY <1>13 DEF WaitFinished, Step, vars, coros
  <2>2. at'[Main] = "resumed" /\ at'[w] = at[w]
    BY <1>1, <1>3, <2>1
  <2>3. (MainInv(w))'
    BY <1>2, <1>4, <1>6, <2>1, <2>2
       DEF MainInv, Idle, Between, ToRun, Working, Unrun, Ran, flags, promises, TaskPlaces
  <2> QED
    BY <1>7, <2>1, <2>3 DEF TaskPlaces
<1>14. CASE EndIteration(Main)
  <2>1. /\ at[Main] = "resumed" /\ at' = [at EXCEPT ![Main] = "loop"]
        /\ UNCHANGED <<tasks, task, flags>>
    BY <1>14 DEF EndIteration, Step, vars
  <2>2. at'[Main] = "loop" /\ at'[w] = at[w]
    BY <1>1, <1>3, <2>1
  <2>3. (MainInv(w))'
    BY <1>2, <1>6, <2>1, <2>2 DEF MainInv, Idle, Between, flags, TaskPlaces
  <2> QED
    BY <1>7, <2>1, <2>3 DEF TaskPlaces
<1>15. CASE FinishTask(Main)
  <2>1. /\ at[Main] = "loop" /\ at' = [at EXCEPT ![Main] = "return"] /\ i > Count
        /\ g_task_finished' /\ UNCHANGED <<tasks, i, task, g_task_suspended>>
    BY <1>15 DEF FinishTask, Step, vars
  <2>2. at'[Main] = "return" /\ at'[w] = at[w]
    BY <1>1, <1>3, <2>1
  <2>3. (MainInv(w))'
    BY <1>2, <1>3, <1>6, <2>1, <2>2 DEF MainInv, Idle, Between, TaskPlaces
  <2> QED
    BY <1>6, <2>1, <2>2, <2>3 DEF Phases, BeginInv, AwayInv
<1>16. CASE CoReturn(Main)
  <2>1. /\ at[Main] = "return" /\ at' = [at EXCEPT ![Main] = "back"] /\ task' = "final"
        /\ UNCHANGED <<tasks, i, flags>>
    BY <1>16 DEF CoReturn, Step, Resumer, vars
  <2>2. at'[Main] = "back" /\ at'[w] = at[w]
    BY <1>1, <1>3, <2>1
  <2>3. (AwayInv(w))'
    BY <1>2, <1>6, <2>1, <2>2 DEF MainInv, AwayInv, Idle, Between, flags, TaskPlaces
  <2> QED
    BY <2>1, <2>2, <2>3 DEF Phases, BeginInv, MainInv, TaskPlaces
<1> QED
  BY <1>8, <1>9, <1>10, <1>11, <1>12, <1>13, <1>14, <1>15, <1>16 DEF TaskStep

\* The task on the worker: it runs there with main out of it, so that each
\* single task stays queued until the awaiter has suspended the task again.
LEMMA PhasesTaskOnWorker ==
  ASSUME ResumeInv, NEW w \in Workers, TaskStep(w)
  PROVE  Phases(w)'
<1>1. Workers = {w} /\ Threads = {w, Main} /\ w # Main
  BY WorkerAssumption, ResumeAssumption DEF Threads
<1>2. BeginInv(w) /\ MainInv(w) /\ AwayInv(w) /\ LoopInv /\ JobInv
  BY DEF ResumeInv
<1>3. /\ at \in [Threads -> TaskPlaces \cup SinglePlaces \cup MainPlaces \cup WorkerPlaces]
      /\ DOMAIN frame = Singles /\ DOMAIN done_ = Singles /\ DOMAIN worker_finished_ = Singles
      /\ i \in 1..(Count + 1) /\ Count \in Nat
  BY ResumeAssumption DEF ResumeInv, ResumeTypeOK
<1>4. ASSUME UNCHANGED <<tasks, job, running, i>>
      PROVE  (Queued(i))' <=> Queued(i)
  BY <1>4 DEF Queued
<1>5. InTask(w)
  BY DEF TaskStep, MakeSingle, SubmitSingle, SubmitNotifies, AwaiterExchange, Suspend,
     WaitFinished, EndIteration, FinishTask, CoReturn, Step, InTask, TaskPlaces
<1>6. /\ task = "running" /\ at[Main] \notin TaskPlaces
      /\ at[w] \notin {"loop", "return"} => i <= Count
  BY <1>1, <1>5, InTaskFacts DEF InTask
<1>7. at[Main] \in {"back", "wait_task", "stop", "returned"}
  BY <1>2, <1>6 DEF BeginInv, JobInv, MainPlaces
<1>8. /\ at[w] # "wait_finished" /\ g_task_suspended /\ at[Main] # "back" /\ at[Main] # "returned"
      /\ at[w] \in {"loop", "submit", "resumed", "return"} => tasks = <<>>
      /\ at[w] \in {"notify", "exchange", "suspend"} => Queued(i)
      /\ at[w] \in {"submit", "notify", "exchange", "suspend"} => Unrun
      /\ at[w] \in {"submit", "notify", "exchange"} => ~done_[i]
      /\ at[w] = "suspend" => done_[i]
      /\ at[w] = "resumed" => Ran
      /\ at[w] = "return" => i = Count + 1
      /\ g_task_finished <=> at[w] = "return"
      /\ at[Main] = "stop" => g_task_finished
  BY <1>2, <1>5, <1>6, <1>7 DEF AwayInv, InTask
<1>9. ASSUME at'[Main] = at[Main], task' # "initial", (AwayInv(w))' PROVE Phases(w)'
  BY <1>6, <1>7, <1>9 DEF Phases, BeginInv, MainInv
<1>10. CASE MakeSingle(w)
  <2>1. /\ at[w] = "loop" /\ at' = [at EXCEPT ![w] = "submit"] /\ i <= Count
        /\ frame' = [frame EXCEPT ![i] = "suspended"]
        /\ UNCHANGED <<tasks, i, task, done_, worker_finished_, flags>>
    BY <1>10 DEF MakeSingle, Step, vars
  <2>2. i \in Singles /\ ~done_[i]
    BY <1>1, <1>2, <1>3, <2>1 DEF LoopInv, Singles
  <2>3. frame'[i] = "suspended" /\ at'[Main] = at[Main] /\ at'[w] = "submit"
    BY <1>1, <1>3, <2>1, <2>2
  <2>4. (AwayInv(w))'
    BY <1>6, <1>7, <1>8, <2>1, <2>2, <2>3 DEF AwayInv, Unrun, flags, TaskPlaces
  <2> QED
    BY <1>6, <1>9, <2>1, <2>3, <2>4
<1>11. CASE SubmitSingle(w)
  <2>1. /\ at[w] = "submit" /\ at' = [at EXCEPT ![w] = "notify"]
        /\ submit(w) /\ job' = Append(job, i)
        /\ UNCHANGED <<i, task, promises, flags>>
    BY <1>11 DEF SubmitSingle, Step, coros
  <2>2. Queued(i)'
    <3> DEFINE x == i
    <3>1. x \in 0..Count /\ x' = x
      BY <1>3, <1>6, <2>1
    <3> HIDE DEF x
    <3>2. job' = Append(job, x)
      BY <2>1 DEF x
    <3>3. Queued(x)'
      BY <1>8, <2>1, <3>1, <3>2, SubmitQueues DEF ResumeInv, ResumeTypeOK
    <3> QED
      BY <3>3 DEF x
  <2>3. at'[Main] = at[Main] /\ at'[w] = "notify"
    BY <1>1, <1>3, <2>1
  <2>4. (AwayInv(w))'
    BY <1>6, <1>7, <1>8, <2>1, <2>2, <2>3 DEF AwayInv, Unrun, flags, promises, TaskPlaces
  <2> QED
    BY <1>6, <1>9, <2>1, <2>3, <2>4
<1>12. CASE SubmitNotifies(w)
  <2>1. /\ at[w] = "notify" /\ at' = [at EXCEPT ![w] = "exchange"]
        /\ UNCHANGED <<tasks, job, running, i, task, promises, flags>>
    BY <1>12 DEF SubmitNotifies, notify_one, Step, coros
  <2>2. at'[Main] = at[Main] /\ at'[w] = "exchange"
    BY <1>1, <1>3, <2>1
  <2>3. (AwayInv(w))'
    BY <1>4, <1>6, <1>7, <1>8, <2>1, <2>2 DEF AwayInv, Unrun, flags, promises, TaskPlaces
  <2> QED
    BY <1>6, <1>9, <2>1, <2>2, <2>3
<1>13. CASE AwaiterExchange(w)
  <2>1. at[w] = "exchange" /\ ~done_[i] /\ i \in Singles
    BY <1>3, <1>6, <1>8, <1>13 DEF AwaiterExchange, Step, Singles
  <2>2. /\ at' = [at EXCEPT ![w] = "suspend"]
        /\ done_' = [done_ EXCEPT ![i] = TRUE]
        /\ UNCHANGED <<tasks, job, running, i, task, frame, flags>>
    BY <1>13, <2>1 DEF AwaiterExchange, Step, vars
  <2>3. at'[Main] = at[Main] /\ at'[w] = "suspend" /\ done_'[i]
    BY <1>1, <1>3, <2>1, <2>2
  <2>4. (AwayInv(w))'
    BY <1>4, <1>6, <1>7, <1>8, <2>1, <2>2, <2>3 DEF AwayInv, Unrun, flags, TaskPlaces
  <2> QED
    BY <1>6, <1>9, <2>2, <2>3, <2>4
<1>14. CASE Suspend(w)
  <2>1. /\ at[w] = "suspend" /\ at' = [at EXCEPT ![w] = "job_done"] /\ task' = "suspended"
        /\ UNCHANGED <<tasks, job, running, i, promises, flags>>
    BY <1>1, <1>14 DEF Suspend, Step, Resumer, vars
  <2>2. at'[Main] = at[Main] /\ at'[w] = "job_done"
    BY <1>1, <1>3, <2>1
  <2>3. (AwayInv(w))'
    BY <1>4, <1>6, <1>7, <1>8, <2>1, <2>2
       DEF AwayInv, ToRun, Between, Unrun, flags, promises, TaskPlaces
  <2> QED
    BY <1>9, <2>1, <2>2, <2>3
<1>15. CASE WaitFinished(w)
  BY <1>8, <1>15 DEF WaitFinished, Step
<1>16. CASE EndIteration(w)
  <2>1. /\ at[w] = "resumed" /\ at' = [at EXCEPT ![w] = "loop"]
        /\ UNCHANGED <<tasks, task, flags>>
    BY <1>16 DEF EndIteration, Step, vars
  <2>2. at'[Main] = at[Main] /\ at'[w] = "loop"
    BY <1>1, <1>3, <2>1
  <2>3. (AwayInv(w))'
    BY <1>6, <1>7, <1>8, <2>1, <2>2 DEF AwayInv, flags, TaskPlaces
  <2> QED
    BY <1>6, <1>9, <2>1, <2>2, <2>3
<1>17. CASE FinishTask(w)
  <2>1. /\ at[w] = "loop" /\ at' = [at EXCEPT ![w] = "return"] /\ i > Count
        /\ g_task_finished' /\ UNCHANGED <<tasks, i, task, g_task_suspended>>
    BY <1>17 DEF FinishTask, Step, vars
  <2>2. at'[Main] = at[Main] /\ at'[w] = "return"
    BY <1>1, <1>3, <2>1
  <2>3. (AwayInv(w))'
    BY <1>3, <1>6, <1>7, <1>8, <2>1, <2>2 DEF AwayInv, TaskPlaces
  <2> QED
    BY <1>6, <1>9, <2>1, <2>2, <2>3
<1>18. CASE CoReturn(w)
  <2>1. /\ at[w] = "return" /\ at' = [at EXCEPT ![w] = "job_done"] /\ task' = "final"
        /\ UNCHANGED <<tasks, i, flags>>
    BY <1>1, <1>18 DEF CoReturn, Step, Resumer, vars
  <2>2. at'[Main] = at[Main] /\ at'[w] = "job_done"
    BY <1>1, <1>3, <2>1
  <2>3. (AwayInv(w))'
    BY <1>6, <1>7, <1>8, <2>1, <2>2 DEF AwayInv, Idle, Between, flags, TaskPlaces
  <2> QED
    BY <1>9, <2>1, <2>2, <2>3
<1> QED
  BY <1>10, <1>11, <1>12, <1>13, <1>14, <1>15, <1>16, <1>17, <1>18 DEF TaskStep

\* The worker: a single task that finds done_ set knows that the awaiter is on
\* its way out of the task, and hands the task to the queue once it is out.
LEMMA PhasesJob ==
  ASSUME ResumeInv, NEW w \in Workers, JobStep(w)
  PROVE  Phases(w)'
<1>1. Workers = {w} /\ Threads = {w, Main} /\ w # Main
  BY WorkerAssumption, ResumeAssumption DEF Threads
<1>2. BeginInv(w) /\ MainInv(w) /\ AwayInv(w) /\ JobInv /\ TypeOK
  BY DEF ResumeInv, PoolInv
<1>3. /\ at \in [Threads -> TaskPlaces \cup SinglePlaces \cup MainPlaces \cup WorkerPlaces]
      /\ DOMAIN frame = Singles /\ DOMAIN done_ = Singles /\ DOMAIN worker_finished_ = Singles
      /\ i \in 1..(Count + 1) /\ Count \in Nat /\ job \in Seq(0..Count)
  BY ResumeAssumption DEF ResumeInv, ResumeTypeOK
<1>4. ASSUME UNCHANGED <<tasks, job, running, i>>
      PROVE  /\ (Queued(i))' <=> Queued(i)
             /\ (Queued(0))' <=> Queued(0)
             /\ Single(w)' = Single(w)
  BY <1>4 DEF Queued, Single
<1>5. at'[Main] = at[Main] /\ UNCHANGED <<i, flags>>
  BY <1>1, <1>3 DEF JobStep, BeginJob, FinalExchange, WaitSuspended, HandBack,
     HandBackNotifies, Unwind, Publish, ResumeTask, EndJob, Step, coros
<1>6. /\ at[w] \in SinglePlaces \cup {"pool", "job_done", "resume_task"}
      /\ at[Main] = "begin" => at[w] = "pool" /\ tasks = <<>>
  BY <1>2 DEF JobStep, BeginJob, FinalExchange, WaitSuspended, HandBack,
     HandBackNotifies, Unwind, Publish, ResumeTask, EndJob, Step, SinglePlaces, BeginInv
<1>7. at[Main] = "begin" \/ at[Main] \in TaskPlaces
      \/ at[Main] \in {"back", "wait_task", "stop", "returned"}
  BY <1>2 DEF JobInv, MainPlaces
<1>8. CASE BeginJob(w)
  <2>1. /\ at[w] = "pool" /\ tasks # <<>> /\ Pop(w)
        /\ at' = [at EXCEPT ![w] = IF job[Head(tasks)] = 0 THEN "resume_task" ELSE "final"]
        /\ UNCHANGED <<job, task, promises>>
    BY <1>8 DEF BeginJob, Step, Pop, coros
  <2>2. i \in 1..Count /\ ( \/ Queued(i) /\ Unrun
                            \/ Queued(0) /\ Ran /\ task = "suspended" /\ g_task_suspended )
    BY <2>1, QueuedFacts
  <2>3. ASSUME Queued(i), Unrun PROVE Phases(w)'
    <3> DEFINE x == i
    <3>1. x # 0 /\ x' = x /\ Queued(x)
      BY <1>5, <2>2, <2>3
    <3> HIDE DEF x
    <3>2. tasks' = <<>> /\ Single(w)' = x /\ job[Head(tasks)] = x
      BY <1>2, <2>1, <3>1, PopTakes
    <3>3. at'[w] = "final" /\ Single(w)' = i' /\ i # 0
      BY <1>1, <1>3, <2>1, <3>1, <3>2 DEF x
    <3>4. ~Queued(0)
      BY <2>3, <3>3 DEF Queued
    <3>5. tasks' = <<>>
      BY <3>2
    <3> QED
      BY <1>2, <1>5, <1>6, <2>1, <2>3, <3>3, <3>4, <3>5
         DEF Phases, BeginInv, MainInv, AwayInv, Idle, Between, ToRun, Working, Unrun, Ran,
         TaskPlaces, promises, flags
  <2>4. ASSUME Queued(0), Ran, task = "suspended", g_task_suspended PROVE Phases(w)'
    <3>1. tasks' = <<>> /\ job[Head(tasks)] = 0
      BY <1>2, <2>1, <2>4, PopTakes
    <3>2. at'[w] = "resume_task"
      BY <1>1, <1>3, <2>1, <3>1
    <3>3. at[Main] \notin TaskPlaces
      BY <1>2, <2>4 DEF MainInv
    <3> QED
      BY <1>2, <1>5, <1>6, <1>7, <2>1, <2>4, <3>1, <3>2, <3>3
         DEF Phases, BeginInv, MainInv, AwayInv, Idle, Between, ToRun, Working, Unrun, Ran,
         TaskPlaces, promises, flags
  <2> QED
    BY <2>2, <2>3, <2>4
<1>9. CASE FinalExchange(w)
  <2>1. at[w] = "final" /\ Single(w) = i /\ i \in Singles
    BY <1>3, <1>9, InSingleFacts DEF FinalExchange, Step, SinglePlaces, Singles
  <2>2. /\ at' = [at EXCEPT ![w] = IF done_[i] THEN "wait_suspended" ELSE "unwind"]
        /\ frame' = [frame EXCEPT ![i] = "final"] /\ done_' = [done_ EXCEPT ![i] = TRUE]
        /\ UNCHANGED <<tasks, job, running, task, worker_finished_>>
    BY <1>9, <2>1 DEF FinalExchange, Step, vars
  <2>3. frame'[i] = "final" /\ done_'[i] /\ Single(w)' = i
    BY <1>3, <1>4, <1>5, <2>1, <2>2
  <2>4. CASE done_[i]
    <3>1. at'[w] = "wait_suspended"
      BY <1>1, <1>3, <2>2, <2>4
    <3> QED
      BY <1>2, <1>5, <1>6, <1>7, <2>1, <2>2, <2>3, <2>4, <3>1
         DEF Phases, BeginInv, MainInv, AwayInv, Idle, Between, ToRun, Working, Unrun, Ran,
         TaskPlaces, flags
  <2>5. CASE ~done_[i]
    <3>1. at'[w] = "unwind"
      BY <1>1, <1>3, <2>2, <2>5
    <3> QED
      BY <1>2, <1>5, <1>6, <1>7, <2>1, <2>2, <2>3, <2>5, <3>1
         DEF Phases, BeginInv, MainInv, AwayInv, Idle, Between, ToRun, Working, Unrun, Ran,
         TaskPlaces, flags
  <2> QED
    BY <2>4, <2>5
<1>10. CASE WaitSuspended(w)
  <2>1. /\ at[w] = "wait_suspended" /\ at' = [at EXCEPT ![w] = "hand_back"] /\ g_task_suspended
        /\ UNCHANGED <<tasks, job, running, task, promises>>
    BY <1>10 DEF WaitSuspended, Step, vars, coros
  <2>2. at'[w] = "hand_back"
    BY <1>1, <1>3, <2>1
  <2> QED
    BY <1>2, <1>4, <1>5, <1>6, <1>7, <2>1, <2>2
       DEF Phases, BeginInv, MainInv, AwayInv, Idle, Between, ToRun, Working, Unrun, Ran,
       TaskPlaces, flags, promises
<1>11. CASE HandBack(w)
  <2>1. /\ at[w] = "hand_back" /\ at' = [at EXCEPT ![w] = "hand_notify"]
        /\ submit(w) /\ job' = Append(job, 0) /\ UNCHANGED <<task, promises>>
    BY <1>11 DEF HandBack, Step, coros
  <2>2. tasks = <<>> /\ Single(w) = i
    BY <2>1, InSingleFacts DEF SinglePlaces
  <2>3. pc[w] = "run" /\ running[w] \in 1..Len(job)
    BY <1>2, <2>1 DEF JobInv
  <2>4. /\ Queued(0)' /\ running' = running
        /\ \A n \in 1..Len(job) : job'[n] = job[n]
    BY <1>2, <1>3, <2>1, <2>2, SubmitQueues
  <2>5. Single(w)' = i
    BY <2>2, <2>3, <2>4 DEF Single
  <2>6. at'[w] = "hand_notify"
    BY <1>1, <1>3, <2>1
  <2> QED
    BY <1>2, <1>5, <1>6, <1>7, <2>1, <2>2, <2>4, <2>5, <2>6
       DEF Phases, BeginInv, MainInv, AwayInv, Idle, Between, ToRun, Working, Unrun, Ran,
       TaskPlaces, flags, promises
<1>12. CASE HandBackNotifies(w)
  <2>1. /\ at[w] = "hand_notify" /\ at' = [at EXCEPT ![w] = "unwind"]
        /\ UNCHANGED <<tasks, job, running, task, promises>>
    BY <1>12 DEF HandBackNotifies, notify_one, Step, coros
  <2>2. at'[w] = "unwind"
    BY <1>1, <1>3, <2>1
  <2> QED
    BY <1>2, <1>4, <1>5, <1>6, <1>7, <2>1, <2>2
       DEF Phases, BeginInv, MainInv, AwayInv, Idle, Between, ToRun, Working, Unrun, Ran,
       TaskPlaces, flags, promises
<1>13. CASE Unwind(w)
  <2>1. /\ at[w] = "unwind" /\ at' = [at EXCEPT ![w] = "publish"]
        /\ UNCHANGED <<tasks, job, running, task, promises>>
    BY <1>13 DEF Unwind, Step, coros, vars
  <2>2. at'[w] = "publish"
    BY <1>1, <1>3, <2>1
  <2> QED
    BY <1>2, <1>4, <1>5, <1>6, <1>7, <2>1, <2>2
       DEF Phases, BeginInv, MainInv, AwayInv, Idle, Between, ToRun, Working, Unrun, Ran,
       TaskPlaces, flags, promises
<1>14. CASE Publish(w)
  <2>1. at[w] = "publish" /\ Single(w) = i /\ i \in Singles
    BY <1>3, <1>14, InSingleFacts DEF Publish, Step, SinglePlaces, Singles
  <2>2. /\ at' = [at EXCEPT ![w] = "job_done"]
        /\ worker_finished_' = [worker_finished_ EXCEPT ![i] = TRUE]
        /\ UNCHANGED <<tasks, job, running, task, frame, done_>>
    BY <1>14, <2>1 DEF Publish, Step, vars
  <2>3. at'[w] = "job_done" /\ worker_finished_'[i]
    BY <1>1, <1>3, <2>1, <2>2
  <2> QED
    BY <1>2, <1>4, <1>5, <1>6, <1>7, <2>1, <2>2, <2>3
       DEF Phases, BeginInv, MainInv, AwayInv, Idle, Between, ToRun, Working, Unrun, Ran,
       TaskPlaces, flags
<1>15. CASE ResumeTask(w)
  <2>1. /\ at[w] = "resume_task" /\ at' = [at EXCEPT ![w] = "resumed"]
        /\ task' = "running" /\ UNCHANGED <<tasks, job, running, promises>>
    BY <1>15 DEF ResumeTask, Step, vars
  <2>2. at'[w] = "resumed"
    BY <1>1, <1>3, <2>1
  <2>3. task \in {"initial", "running", "suspended", "final", "destroyed"}
    BY DEF ResumeInv, ResumeTypeOK
  <2>4. at[Main] \notin TaskPlaces
    BY <1>2, <2>1 DEF MainInv, Idle, Between, ToRun, Working, TaskPlaces
  <2>5. at[Main] # "begin" /\ at[Main] \in {"back", "wait_task", "stop", "returned"}
    BY <1>6, <1>7, <2>1, <2>4
  <2>6. task = "suspended"
    BY <1>2, <2>1, <2>3, <2>5 DEF BeginInv, AwayInv, Idle, Between, TaskPlaces
  <2> QED
    BY <1>2, <1>4, <1>5, <2>1, <2>2, <2>4, <2>5, <2>6
       DEF Phases, BeginInv, MainInv, AwayInv, Idle, Between, ToRun, Working, Unrun, Ran,
       TaskPlaces, flags, promises
<1>16. CASE EndJob(w)
  <2>1. /\ at[w] = "job_done" /\ at' = [at EXCEPT ![w] = "pool"]
        /\ UNCHANGED <<tasks, job, task, promises>>
    BY <1>16 DEF EndJob, Step, TaskReturns, coros
  <2>2. at'[w] = "pool"
    BY <1>1, <1>3, <2>1
  <2>3. ((Queued(i))' <=> Queued(i)) /\ ((Queued(0))' <=> Queued(0))
    BY <1>5, <2>1 DEF Queued
  <2> QED
    BY <1>2, <1>5, <1>6, <1>7, <2>1, <2>2, <2>3
       DEF Phases, BeginInv, MainInv, AwayInv, Idle, Between, ToRun, Working, Unrun, Ran,
       TaskPlaces, flags, promises
<1> QED
  BY <1>8, <1>9, <1>10, <1>11, <1>12, <1>13, <1>14, <1>15, <1>16 DEF JobStep

-----------------------------------------------------------------------------
(* What follows *)

\* main starts with an empty pool and a task that has not begun.
LEMMA ResumeInvInit == ResumeInit => ResumeInv
<1> SUFFICES ASSUME ResumeInit PROVE ResumeInv
  OBVIOUS
<1>1. PoolInv /\ TypeOK
  BY PoolInvInit DEF ResumeInit, PoolInv
<1>2. PICK w \in Workers : Workers = {w} /\ Threads = {w, Main} /\ w # Main
  BY WorkerAssumption, ResumeAssumption DEF Threads
<1>3. /\ at = [t \in Threads |-> IF t = Main THEN "begin" ELSE "pool"]
      /\ at[Main] = "begin" /\ at[w] = "pool" /\ pc[w] = "none"
      /\ tasks = <<>> /\ job = <<>> /\ next = 1
  BY <1>2 DEF ResumeInit, Init
<1>4. /\ i = 1 /\ task = "initial" /\ ~g_task_suspended /\ ~g_task_finished
      /\ \A k \in Singles : frame[k] = "none" /\ ~done_[k] /\ ~worker_finished_[k]
  BY DEF ResumeInit, CoroInit
<1>5. ResumeTypeOK
  <2>1. at \in [Threads -> TaskPlaces \cup SinglePlaces \cup MainPlaces \cup WorkerPlaces]
    BY <1>3 DEF MainPlaces, WorkerPlaces
  <2>2. job \in Seq(0..Count) /\ i \in 1..(Count + 1)
    BY <1>3, <1>4, ResumeAssumption
  <2> QED
    BY <1>1, <2>1, <2>2 DEF ResumeInit, CoroInit, ResumeTypeOK
<1>6. JobInv
  BY <1>2, <1>3 DEF JobInv, MainPlaces
<1>7. LoopInv
  BY <1>4, ResumeAssumption DEF LoopInv, Singles
<1>8. BeginInv(w) /\ MainInv(w) /\ AwayInv(w)
  BY <1>3, <1>4 DEF BeginInv, MainInv, AwayInv, TaskPlaces
<1> QED
  BY <1>1, <1>2, <1>5, <1>6, <1>7, <1>8 DEF ResumeInv

\* Every step keeps the whole invariant.
LEMMA ResumeInvStep == ResumeInv /\ [ResumeNext]_allvars => ResumeInv'
<1> SUFFICES ASSUME ResumeInv, [ResumeNext]_allvars PROVE ResumeInv'
  OBVIOUS
<1>1. PoolInv'
  BY ResumeStepsPool, PoolInvStep DEF ResumeInv
<1>2. ResumeTypeOK' /\ JobInv' /\ LoopInv'
  BY ResumeTypeStep, JobInvStep, LoopInvStep
<1>3. PICK w \in Workers : Workers = {w} /\ Threads = {w, Main} /\ w # Main
  BY WorkerAssumption, ResumeAssumption DEF Threads
<1>4. Phases(w)
  BY DEF ResumeInv, Phases
<1> SUFFICES Phases(w)'
  BY <1>1, <1>2, <1>3 DEF ResumeInv, Phases
<1>5. CASE UNCHANGED <<at, coros, tasks, job, running>>
  BY <1>4, <1>5, PhasesStay
<1>6. CASE MainBegins \/ MainBack \/ MainStops \/ MainReturns
  BY <1>6, PhasesMain
<1>7. ASSUME NEW t \in Threads, TaskStep(t) PROVE Phases(w)'
  BY <1>3, <1>7, PhasesTaskOnMain, PhasesTaskOnWorker
<1>8. CASE JobStep(w)
  BY <1>8, PhasesJob
<1>9. CASE MainInPool
  BY <1>5, <1>9 DEF MainInPool, MainStep, request_stop, notify_all, join_return, join,
     client, program
<1>10. CASE PoolStep(w) \/ (SpuriousWakeup(w) /\ UNCHANGED program)
  BY <1>5, <1>10 DEF PoolStep, LoopTest, Lock, WaitTest, PredTest, Sleep, Relock,
     StopCheck, SpuriousWakeup, client, program
<1> QED
  BY <1>3, <1>5, <1>6, <1>7, <1>8, <1>9, <1>10
     DEF ResumeNext, MainProgram, allvars, vars, program

\* The invariant holds in every reachable state.
LEMMA ResumeInvHolds == ResumeSpec => []ResumeInv
  BY ResumeInvInit, ResumeInvStep, PTL DEF ResumeSpec

\* The threaded build keeps its types: the loop ends after Count iterations, and
\* a job is one of the single tasks or the task.
THEOREM ResumeTypeCorrect == ResumeSpec => []ResumeTypeOK
<1>1. ResumeInv => ResumeTypeOK
  BY DEF ResumeInv
<1> QED
  BY <1>1, ResumeInvHolds, PTL

\* The program is a client of the pool like any other, so that what is proved of
\* the pool holds of the pool inside it.
THEOREM ResumeIsPoolClient == ResumeSpec => Spec
<1>1. ResumeInit => Init
  BY DEF ResumeInit
<1> QED
  BY <1>1, ResumeStepsPool, PTL DEF ResumeSpec, Spec

\* However the two exchanges of done_ interleave, the task is never resumed on
\* the worker before it is out of its code on main.
THEOREM TaskStaysOnOneThread == ResumeSpec => []TaskOnOneThread
<1>1. ResumeInv => TaskOnOneThread
  <2> SUFFICES ASSUME ResumeInv PROVE TaskOnOneThread
    OBVIOUS
  <2>1. \A t, u \in Threads : InTask(t) /\ InTask(u) => t = u
    BY InTaskFacts
  <2>2. ASSUME NEW w \in Workers, at[w] = "resume_task" PROVE task = "suspended"
    <3>1. BeginInv(w) /\ MainInv(w) /\ AwayInv(w) /\ JobInv
      BY DEF ResumeInv
    <3>2. task \in {"initial", "running", "suspended", "final", "destroyed"}
      BY DEF ResumeInv, ResumeTypeOK
    <3>3. at[Main] \in {"back", "wait_task", "stop", "returned"}
      BY <2>2, <3>1 DEF BeginInv, MainInv, JobInv, Idle, Between, ToRun, Working,
         TaskPlaces, MainPlaces
    <3> QED
      BY <2>2, <3>1, <3>2, <3>3 DEF BeginInv, AwayInv, Idle, Between, TaskPlaces
  <2> QED
    BY <2>1, <2>2 DEF TaskOnOneThread
<1> QED
  BY <1>1, ResumeInvHolds, PTL

\* Neither the awaiter nor the worker's store into the promise outlives the frame
\* of the single task.
THEOREM SingleFramesOutliveUse == ResumeSpec => []SingleFramesAlive
<1>1. ResumeInv => SingleFramesAlive
  <2> SUFFICES ASSUME ResumeInv PROVE SingleFramesAlive
    OBVIOUS
  <2>1. ASSUME NEW t \in Threads,
               at[t] \in {"submit", "notify", "exchange", "wait_finished", "resumed"}
        PROVE  frame[i] \in {"suspended", "final"}
    <3>1. InTask(t)
      BY <2>1 DEF InTask, TaskPlaces
    <3> QED
      BY <2>1, <3>1, InTaskFacts
  <2>2. ASSUME NEW w \in Workers, at[w] \in SinglePlaces
        PROVE  frame[Single(w)] \in {"suspended", "final"}
    BY <2>2, InSingleFacts
  <2> QED
    BY <2>1, <2>2 DEF SingleFramesAlive
<1> QED
  BY <1>1, ResumeInvHolds, PTL

\* main destroys the task, and stops the pool, only when the worker is out of
\* every job and none is queued.
THEOREM TaskOutlivesItsJobs == ResumeSpec => [](TaskFrameAlive /\ NothingLeftToStop)
<1>1. ResumeInv => TaskFrameAlive /\ NothingLeftToStop
  <2> SUFFICES ASSUME ResumeInv PROVE TaskFrameAlive /\ NothingLeftToStop
    OBVIOUS
  <2>1. PICK w \in Workers : Workers = {w}
    BY ResumeAssumption
  <2>2. BeginInv(w) /\ MainInv(w) /\ AwayInv(w) /\ JobInv
    BY DEF ResumeInv
  <2>3. TaskFrameAlive
    <3>1. task = "destroyed" => at[Main] \in {"back", "wait_task", "stop", "returned"}
      BY <2>2 DEF BeginInv, MainInv, JobInv, MainPlaces
    <3> QED
      BY <2>1, <2>2, <3>1 DEF AwayInv, TaskFrameAlive
  <2>4. NothingLeftToStop
    <3>1. at[w] = "return" => tasks = <<>>
      BY InTaskFacts, w \in Threads DEF InTask, TaskPlaces, Threads
    <3>2. task \in {"final", "destroyed"} /\ at[Main] \in {"stop", "returned"} => tasks = <<>>
      BY <2>2 DEF AwayInv, Idle
    <3> QED
      BY <2>2, <3>1, <3>2 DEF AwayInv, NothingLeftToStop
  <2> QED
    BY <2>3, <2>4
<1> QED
  BY <1>1, ResumeInvHolds, PTL

\* Whoever wins the race of an iteration, a client of co_await sees the single
\* task made, run once, and only then the loop going on: the threaded build
\* implements AwaitLoop.
THEOREM ResumeImplementsLoop == ResumeSpec => ImplementsLoop
<1> DEFINE single == IF i > Count THEN "none" ELSE Seen[frame[i]]
<1> USE DEF Seen
<1>1. ResumeInit => Loop!Init
  BY ResumeAssumption DEF ResumeInit, CoroInit, Loop!Init, Singles
<1>2. ResumeInv /\ [ResumeNext]_allvars => [Loop!Next]_Loop!vars
  <2> SUFFICES ASSUME ResumeInv, [ResumeNext]_allvars PROVE [Loop!Next]_Loop!vars
    OBVIOUS
  <2>1. /\ i \in 1..(Count + 1) /\ Count \in Nat /\ DOMAIN frame = Singles
        /\ Workers \subseteq Threads
        /\ LoopInv
    BY ResumeAssumption DEF ResumeInv, ResumeTypeOK, Threads
  <2>2. ASSUME UNCHANGED <<i, frame>> PROVE UNCHANGED Loop!vars
    BY <2>2 DEF Loop!vars
  <2>3. ASSUME NEW t \in Threads, MakeSingle(t) PROVE Loop!Make
    <3>1. /\ i <= Count /\ i' = i /\ i \in Singles /\ at[t] = "loop"
          /\ frame' = [frame EXCEPT ![i] = "suspended"]
      BY <2>1, <2>3 DEF MakeSingle, Step, Singles
    <3>2. frame[i] = "none" /\ frame'[i] = "suspended"
      BY <2>1, <3>1 DEF LoopInv
    <3> QED
      BY <2>1, <3>1, <3>2 DEF Loop!Make
  <2>4. ASSUME NEW w \in Workers, FinalExchange(w) PROVE Loop!Run
    <3>1. Single(w) = i /\ i <= Count /\ Unrun
      BY <2>4, InSingleFacts DEF FinalExchange, Step, SinglePlaces
    <3>2. i' = i /\ frame' = [frame EXCEPT ![i] = "final"]
      BY <2>4, <3>1 DEF FinalExchange
    <3>3. frame[i] = "suspended" /\ frame'[i] = "final"
      BY <2>1, <3>1, <3>2 DEF Unrun, Singles
    <3> QED
      BY <2>1, <3>1, <3>2, <3>3 DEF Loop!Run
  <2>5. ASSUME NEW t \in Threads, EndIteration(t) PROVE Loop!Continue
    <3>1. i <= Count /\ frame[i] = "final"
      BY <2>5, InTaskFacts DEF EndIteration, Step, InTask, TaskPlaces, Ran
    <3>2. i' = i + 1 /\ frame' = [frame EXCEPT ![i] = "destroyed"]
      BY <2>5 DEF EndIteration
    <3>3. i' <= Count => frame'[i'] = "none"
      BY <2>1, <3>2 DEF LoopInv, Singles
    <3>4. single = "ran"
      BY <2>1, <3>1
    <3>5. single' = "none"
      BY <2>1, <3>2, <3>3
    <3> QED
      BY <3>2, <3>4, <3>5 DEF Loop!Continue
  <2>6. \/ UNCHANGED <<i, frame>>
        \/ \E t \in Threads : MakeSingle(t) \/ EndIteration(t)
        \/ \E w \in Workers : FinalExchange(w)
    BY DEF ResumeNext, MainProgram, MainBegins, MainBack, MainStops, MainInPool,
       MainReturns, TaskStep, SubmitSingle, SubmitNotifies, AwaiterExchange, Suspend,
       WaitFinished, FinishTask, CoReturn, PoolStep, JobStep, BeginJob, WaitSuspended,
       HandBack, HandBackNotifies, Unwind, Publish, ResumeTask, EndJob, allvars, program,
       coros, promises
  <2> QED
    BY <2>2, <2>3, <2>4, <2>5, <2>6 DEF Loop!Next
<1> QED
  BY <1>1, <1>2, ResumeInvHolds, PTL DEF ResumeSpec, ImplementsLoop, Loop!Spec

=============================================================================
