--------------------------- MODULE SymmetricResume ---------------------------
(***************************************************************************)
(* The threaded build of symmetric_resume.cpp (SYMMETRIC_EXTRA), composed  *)
(* with the worker pool: main runs the task of make_task_impl, each        *)
(* co_await hands a single task to the worker, and the awaiter on one      *)
(* thread and the final awaiter on the other race over done_. Who comes    *)
(* second knows the other has been there: the awaiter goes on at once, or  *)
(* the final awaiter submits a job that resumes the task.                  *)
(*                                                                         *)
(* A job of the pool is a number; job[n] says what it is: k for "resume    *)
(* the k-th single task", 0 for "resume the task". The thread main and the *)
(* one worker are the pool's Main and Workers; a step of the program that  *)
(* calls the pool is a conjunction with the pool's action.                 *)
(***************************************************************************)
EXTENDS Worker

CONSTANT Count   \* make_task(Count)

ASSUME ResumeAssumption ==
  /\ Count \in Nat \ {0} /\ MaxTasks >= 2 * Count
  /\ \E w \in Workers : Workers = {w}

VARIABLES
  at,                \* where each thread is in the program
  job,               \* job[n]: what the n-th submitted job does
  i,                 \* the loop variable in the task's frame
  task,              \* the task's coroutine
  frame,             \* frame[k]: the frame of the k-th single task
  done_,             \* done_[k], in its promise
  worker_finished_,  \* worker_finished_[k], in its promise
  g_task_suspended,
  g_task_finished

promises == <<frame, done_, worker_finished_>>
flags == <<g_task_suspended, g_task_finished>>
coros == <<i, task, promises, flags>>
program == <<at, job, coros>>
allvars == <<vars, program>>

Singles == 1..Count
TaskPlaces == {"loop", "submit", "notify", "exchange", "suspend",
               "wait_finished", "resumed", "return"}
SinglePlaces == {"final", "wait_suspended", "hand_back", "hand_notify",
                 "unwind", "publish"}
MainPlaces == {"begin", "back", "wait_task", "stop", "returned"}
WorkerPlaces == {"pool", "resume_task", "job_done"}

ResumeTypeOK ==
  /\ TypeOK
  /\ at \in [Threads -> TaskPlaces \cup SinglePlaces \cup MainPlaces \cup WorkerPlaces]
  /\ job \in Seq(0..Count)
  /\ i \in 1..(Count + 1)
  /\ task \in {"initial", "running", "suspended", "final", "destroyed"}
  /\ frame \in [Singles -> {"none", "suspended", "final", "destroyed"}]
  /\ done_ \in [Singles -> BOOLEAN] /\ worker_finished_ \in [Singles -> BOOLEAN]
  /\ g_task_suspended \in BOOLEAN /\ g_task_finished \in BOOLEAN

\* The coroutines and the flags before main begins.
CoroInit ==
  /\ i = 1 /\ task = "initial"
  /\ frame = [k \in Singles |-> "none"]
  /\ done_ = [k \in Singles |-> FALSE]
  /\ worker_finished_ = [k \in Singles |-> FALSE]
  /\ g_task_suspended = FALSE /\ g_task_finished = FALSE

ResumeInit ==
  /\ Init
  /\ CoroInit
  /\ at = [t \in Threads |-> IF t = Main THEN "begin" ELSE "pool"]
  /\ job = <<>>

Step(t, from, to) == at[t] = from /\ at' = [at EXCEPT ![t] = to]

\* Where a thread is when the resume() of the task returns.
Resumer(t) == IF t = Main THEN "back" ELSE "job_done"

\* The single task that the worker's job resumes.
Single(w) == job[running[w]]

-----------------------------------------------------------------------------
(* The task: make_task_impl and SyncTask::awaiter, on the thread t *)

\* The iteration makes the single task, stores the task's handle in its promise
\* and submits it to the worker.
MakeSingle(t) ==
  /\ Step(t, "loop", "submit") /\ i <= Count
  /\ frame' = [frame EXCEPT ![i] = "suspended"]
  /\ UNCHANGED <<vars, job, i, task, done_, worker_finished_, flags>>

SubmitSingle(t) ==
  /\ Step(t, "submit", "notify")
  /\ submit(t)
  /\ job' = Append(job, i)
  /\ UNCHANGED coros

SubmitNotifies(t) ==
  /\ Step(t, "notify", "exchange")
  /\ notify_one(t)
  /\ UNCHANGED <<job, coros>>

\* Mutant: await_suspend always returns false, at once.
AwaiterExchangeForgets(t) ==
  /\ Step(t, "exchange", "resumed")
  /\ done_' = [done_ EXCEPT ![i] = TRUE]
  /\ UNCHANGED <<vars, job, i, task, frame, worker_finished_, flags>>

\* After at most 50 looks at done_, which end at any moment: the exchange.
AwaiterExchange(t) ==
  /\ Step(t, "exchange", IF done_[i] THEN "wait_finished" ELSE "suspend")
  /\ done_' = [done_ EXCEPT ![i] = TRUE]
  /\ UNCHANGED <<vars, job, i, task, frame, worker_finished_, flags>>

\* await_suspend has returned true: the task is suspended and the resume() that
\* ran it returns.
Suspend(t) ==
  /\ Step(t, "suspend", Resumer(t))
  /\ task' = "suspended"
  /\ UNCHANGED <<vars, job, i, promises, flags>>

\* Mutant: the awaiter does not wait for worker_finished_.
NoWaitFinished(t) ==
  /\ Step(t, "wait_finished", "resumed")
  /\ UNCHANGED <<vars, job, coros>>

WaitFinished(t) ==
  /\ Step(t, "wait_finished", "resumed")
  /\ worker_finished_[i]
  /\ UNCHANGED <<vars, job, coros>>

\* await_resume; the end of the iteration destroys the single task.
EndIteration(t) ==
  /\ Step(t, "resumed", "loop")
  /\ frame' = [frame EXCEPT ![i] = "destroyed"]
  /\ i' = i + 1
  /\ UNCHANGED <<vars, job, task, done_, worker_finished_, flags>>

\* g_task_finished, and then co_return.
FinishTask(t) ==
  /\ Step(t, "loop", "return") /\ i > Count
  /\ g_task_finished' = TRUE
  /\ UNCHANGED <<vars, job, i, task, promises, g_task_suspended>>

CoReturn(t) ==
  /\ Step(t, "return", Resumer(t))
  /\ task' = "final"
  /\ UNCHANGED <<vars, job, i, promises, flags>>

TaskStep(t) ==
  \/ MakeSingle(t) \/ SubmitSingle(t) \/ SubmitNotifies(t) \/ AwaiterExchange(t)
  \/ Suspend(t) \/ WaitFinished(t) \/ EndIteration(t) \/ FinishTask(t)
  \/ CoReturn(t)

-----------------------------------------------------------------------------
(* The jobs of the worker *)

\* The worker takes a job: the resume() of a single task or of the task.
BeginJob(w) ==
  /\ Pop(w)
  /\ Step(w, "pool", IF job[Head(tasks)] = 0 THEN "resume_task" ELSE "final")
  /\ UNCHANGED <<job, coros>>

\* Mutant: the final awaiter never hands the task back.
FinalExchangeForgets(w) ==
  /\ Step(w, "final", "unwind")
  /\ frame' = [frame EXCEPT ![Single(w)] = "final"]
  /\ done_' = [done_ EXCEPT ![Single(w)] = TRUE]
  /\ UNCHANGED <<vars, job, i, task, worker_finished_, flags>>

\* The single task runs to its final suspend point; ReadyResumeAwaiter.
FinalExchange(w) ==
  /\ Step(w, "final", IF done_[Single(w)] THEN "wait_suspended" ELSE "unwind")
  /\ frame' = [frame EXCEPT ![Single(w)] = "final"]
  /\ done_' = [done_ EXCEPT ![Single(w)] = TRUE]
  /\ UNCHANGED <<vars, job, i, task, worker_finished_, flags>>

\* Mutant: the final awaiter does not wait for main to be out of the task.
NoWaitSuspended(w) ==
  /\ Step(w, "wait_suspended", "hand_back")
  /\ UNCHANGED <<vars, job, coros>>

WaitSuspended(w) ==
  /\ Step(w, "wait_suspended", "hand_back")
  /\ g_task_suspended
  /\ UNCHANGED <<vars, job, coros>>

\* The task is handed to the worker as a job.
HandBack(w) ==
  /\ Step(w, "hand_back", "hand_notify")
  /\ submit(w)
  /\ job' = Append(job, 0)
  /\ UNCHANGED coros

HandBackNotifies(w) ==
  /\ Step(w, "hand_notify", "unwind")
  /\ notify_one(w)
  /\ UNCHANGED <<job, coros>>

\* The resume() of the single task returns, ...
Unwind(w) ==
  /\ Step(w, "unwind", "publish")
  /\ UNCHANGED <<vars, job, coros>>

\* ... and the job stores worker_finished_ into the promise.
Publish(w) ==
  /\ Step(w, "publish", "job_done")
  /\ worker_finished_' = [worker_finished_ EXCEPT ![Single(w)] = TRUE]
  /\ UNCHANGED <<vars, job, i, task, frame, done_, flags>>

\* The job that resumes the task.
ResumeTask(w) ==
  /\ Step(w, "resume_task", "resumed")
  /\ task' = "running"
  /\ UNCHANGED <<vars, job, i, promises, flags>>

EndJob(w) ==
  /\ TaskReturns(w)
  /\ Step(w, "job_done", "pool")
  /\ UNCHANGED <<job, coros>>

\* The rest of the worker's loop.
PoolStep(w) ==
  /\ \/ LoopTest(w) \/ Lock(w) \/ WaitTest(w) \/ PredTest(w) \/ Sleep(w)
     \/ Relock(w) \/ StopCheck(w)
  /\ UNCHANGED program

JobStep(w) ==
  \/ BeginJob(w) \/ FinalExchange(w) \/ WaitSuspended(w) \/ HandBack(w)
  \/ HandBackNotifies(w) \/ Unwind(w) \/ Publish(w) \/ ResumeTask(w)
  \/ EndJob(w)

-----------------------------------------------------------------------------
(* main *)

\* main starts the pool and resumes the task.
MainBegins ==
  /\ start
  /\ Step(Main, "begin", "loop")
  /\ task' = "running"
  /\ UNCHANGED <<job, i, promises, flags>>

\* The resume() has returned.
MainBack ==
  /\ Step(Main, "back", "wait_task")
  /\ g_task_suspended' = TRUE
  /\ UNCHANGED <<vars, job, i, task, promises, g_task_finished>>

\* Mutant: main does not wait for g_task_finished.
MainStopsEarly ==
  /\ stop
  /\ Step(Main, "wait_task", "stop")
  /\ UNCHANGED <<job, coros>>

\* Once g_task_finished is set, main stops the pool ...
MainStops ==
  /\ g_task_finished
  /\ stop
  /\ Step(Main, "wait_task", "stop")
  /\ UNCHANGED <<job, coros>>

\* ... and joins it.
MainInPool ==
  /\ MainStep \/ (at[Main] = "stop" /\ join)
  /\ UNCHANGED program

\* Mutant: main does not join.
MainReturnsUnjoined ==
  /\ pc[Main] = "stopped"
  /\ Step(Main, "stop", "returned")
  /\ task' = "destroyed"
  /\ UNCHANGED <<vars, job, i, promises, flags>>

\* main returns: ~Task destroys the task's frame.
MainReturns ==
  /\ pc[Main] = "idle"
  /\ Step(Main, "stop", "returned")
  /\ task' = "destroyed"
  /\ UNCHANGED <<vars, job, i, promises, flags>>

MainProgram == MainBegins \/ MainBack \/ MainStops \/ MainInPool \/ MainReturns

ResumeNext ==
  \/ MainProgram
  \/ \E t \in Threads : TaskStep(t)
  \/ \E w \in Workers : PoolStep(w) \/ JobStep(w)
  \/ \E w \in Workers : SpuriousWakeup(w) /\ UNCHANGED program

ResumeSpec == ResumeInit /\ [][ResumeNext]_allvars

(***************************************************************************)
(* Fairness: both threads keep running (the loops that wait yield), and a  *)
(* thread that keeps trying gets the mutex of the pool.                    *)
(***************************************************************************)
ResumeFairness ==
  /\ WF_allvars(MainProgram)
  /\ \A t \in Threads : WF_allvars(TaskStep(t)) /\ SF_allvars(SubmitSingle(t))
  /\ \A w \in Workers :
       /\ SF_allvars(PoolStep(w)) /\ WF_allvars(JobStep(w))
       /\ SF_allvars(HandBack(w))

ResumeFairSpec == ResumeSpec /\ ResumeFairness

-----------------------------------------------------------------------------
InTask(t) == at[t] \in TaskPlaces

\* Nobody uses the frame of a single task that is not there: not the awaiter
\* and the loop of the task, and not the worker, which stores into the promise
\* after the resume() (symmetric_resume.cpp:52-54, 168, 194-197).
SingleFramesAlive ==
  /\ \A t \in Threads :
       at[t] \in {"submit", "notify", "exchange", "wait_finished", "resumed"} =>
         frame[i] \in {"suspended", "final"}
  /\ \A w \in Workers :
       at[w] \in SinglePlaces => frame[Single(w)] \in {"suspended", "final"}

\* The task is resumed only when it is suspended, and never runs on two threads:
\* the worker does not resume a coroutine that is still in the middle of
\* suspending (symmetric_resume.cpp:16-20).
TaskOnOneThread ==
  /\ \A t, u \in Threads : InTask(t) /\ InTask(u) => t = u
  /\ \A w \in Workers : at[w] = "resume_task" => task = "suspended"

\* main does not destroy the task's frame while the worker is inside a resume()
\* of it (symmetric_resume.cpp:255-260).
TaskFrameAlive ==
  task = "destroyed" => \A w \in Workers : at[w] = "pool"

\* Nothing is in the queue when main stops the pool, so that it does not matter
\* what stop does with it (symmetric_resume.cpp:23-26, 247-250).
NothingLeftToStop == at[Main] \in {"stop", "returned"} => tasks = <<>>

\* What a client of co_await sees of a single task, by the state of its frame.
Seen == [none |-> "none", suspended |-> "made", final |-> "ran", destroyed |-> "none"]

\* The loop as that client sees it.
Loop == INSTANCE AwaitLoop WITH
  single <- IF i > Count THEN "none" ELSE Seen[frame[i]]

\* Whoever wins the races, a single task runs once and the task goes on only
\* after it (symmetric_resume.cpp:40-63, 184-201). MCCoroutine checks it for the
\* single-threaded builds too, which have these variables in common.
ImplementsLoop == Loop!Spec

=============================================================================
