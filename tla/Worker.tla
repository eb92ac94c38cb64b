------------------------------- MODULE Worker -------------------------------
(***************************************************************************)
(* The worker pool (coroutine/worker.hpp): start, submit, stop, join and   *)
(* the loop of the worker threads. std::jthread, std::mutex and            *)
(* std::condition_variable_any are external: a wait with a stop token      *)
(* releases the mutex and goes to sleep in one step unless stop has been   *)
(* requested, and request_stop wakes the sleepers through the callback the *)
(* wait has registered. A condition variable may also wake up for no       *)
(* reason.                                                                 *)
(*                                                                         *)
(* The client is a main thread that starts the pool, submits, stops, joins *)
(* and may start it again; a running task may submit as well. A task is    *)
(* named by the number of its submit call.                                 *)
(***************************************************************************)
EXTENDS Integers, Sequences, FiniteSets, SequencesExt

CONSTANTS
  Workers,   \* the worker threads (thread_count_ of them)
  Main,      \* the client thread
  None,      \* nobody
  MaxTasks   \* bound: how many tasks are submitted

ASSUME WorkerAssumption ==
  /\ Workers # {} /\ Main \notin Workers
  /\ None \notin Workers /\ None # Main
  /\ MaxTasks \in Nat

VARIABLES
  tasks,      \* tasks_: the queue
  mtx,        \* the owner of tasks_mtx_
  pc,         \* where each worker and main are
  stopped,    \* stopped[w]: w's stop token says stop_requested
  todo,       \* threads main's stop or join has still to go through
  submitting, \* threads between the push and the notify_one of submit
  next,       \* the number of the next task
  running,    \* running[w]: the task w has taken, or 0
  started,    \* history: the tasks that some thread has begun to run
  doomed      \* history: the tasks that were queued when stop was called

vars == <<tasks, mtx, pc, stopped, todo, submitting, next, running, started,
          doomed>>

Threads == Workers \cup {Main}
WorkerPCs == {"none", "loop", "lock", "wait", "pred", "sleep", "asleep",
              "relock", "check", "pop", "run", "ended"}
MainPCs == {"idle", "up", "stop", "notify", "stopped", "join"}

TypeOK ==
  /\ tasks \in Seq(1..MaxTasks)
  /\ mtx \in Workers \cup {None}
  /\ pc \in [Threads -> WorkerPCs \cup MainPCs]
  /\ stopped \in [Workers -> BOOLEAN]
  /\ todo \subseteq Workers
  /\ submitting \subseteq Threads
  /\ next \in 1..(MaxTasks + 1)
  /\ running \in [Workers -> 0..MaxTasks]
  /\ started \subseteq 1..MaxTasks
  /\ doomed \subseteq 1..MaxTasks

Init ==
  /\ tasks = <<>> /\ mtx = None
  /\ pc = [t \in Threads |-> IF t = Main THEN "idle" ELSE "none"]
  /\ stopped = [w \in Workers |-> FALSE]
  /\ todo = {} /\ submitting = {} /\ next = 1
  /\ running = [w \in Workers |-> 0]
  /\ started = {} /\ doomed = {}

Goto(t, from, to) == pc[t] = from /\ pc' = [pc EXCEPT ![t] = to]

client == <<todo, submitting, next, doomed>>

-----------------------------------------------------------------------------
(* The client side *)

\* start: emplace_back creates the threads.
start ==
  /\ pc[Main] = "idle"
  /\ pc' = [t \in Threads |-> IF t = Main THEN "up" ELSE "loop"]
  /\ stopped' = [w \in Workers |-> FALSE]
  /\ UNCHANGED <<tasks, mtx, todo, submitting, next, running, started, doomed>>

\* Mutant: submit returns with the mutex locked.
submit_leaks_lock(t) ==
  /\ pc[t] \in {"idle", "up", "stopped", "run"}
  /\ t \notin submitting
  /\ next <= MaxTasks
  /\ mtx = None /\ mtx' = t
  /\ tasks' = Append(tasks, next)
  /\ next' = next + 1
  /\ submitting' = submitting \cup {t}
  /\ UNCHANGED <<pc, stopped, todo, running, started, doomed>>

\* submit, called by main between two of its other calls or by a running
\* task: push under the mutex, ...
submit(t) ==
  /\ pc[t] \in {"idle", "up", "stopped", "run"}
  /\ t \notin submitting
  /\ next <= MaxTasks
  /\ mtx = None
  /\ tasks' = Append(tasks, next)
  /\ next' = next + 1
  /\ submitting' = submitting \cup {t}
  /\ UNCHANGED <<mtx, pc, stopped, todo, running, started, doomed>>

\* The sleepers that a notify_one, or a notify_all, can wake.
Asleep == {w \in Workers : pc[w] = "asleep"}

\* Mutant: submit does not notify.
notify_nobody(t) ==
  /\ t \in submitting
  /\ submitting' = submitting \ {t}
  /\ UNCHANGED <<tasks, mtx, pc, stopped, todo, next, running, started, doomed>>

\* ... then cv_.notify_one() without it.
notify_one(t) ==
  /\ t \in submitting
  /\ submitting' = submitting \ {t}
  /\ \/ Asleep = {} /\ UNCHANGED pc
     \/ \E w \in Asleep : pc' = [pc EXCEPT ![w] = "relock"]
  /\ UNCHANGED <<tasks, mtx, stopped, todo, next, running, started, doomed>>

WakeAll(to) ==
  [t \in Threads |-> IF t = Main THEN to
                     ELSE IF pc[t] = "asleep" THEN "relock" ELSE pc[t]]

\* Mutant: only one thread is asked to stop.
stop_one ==
  /\ pc[Main] = "up" /\ Main \notin submitting
  /\ pc' = [pc EXCEPT ![Main] = "stop"]
  /\ todo' = {CHOOSE w \in Workers : TRUE}
  /\ doomed' = doomed \cup ToSet(tasks)
  /\ UNCHANGED <<tasks, mtx, stopped, submitting, next, running, started>>

\* stop is called: the tasks now in the queue are the ones it says it discards.
stop ==
  /\ pc[Main] = "up" /\ Main \notin submitting
  /\ pc' = [pc EXCEPT ![Main] = "stop"]
  /\ todo' = Workers
  /\ doomed' = doomed \cup ToSet(tasks)
  /\ UNCHANGED <<tasks, mtx, stopped, submitting, next, running, started>>

\* t.request_stop() for one thread after the other; the callback of a wait with
\* that token notifies all.
request_stop(w) ==
  /\ pc[Main] = "stop" /\ w \in todo
  /\ stopped' = [stopped EXCEPT ![w] = TRUE]
  /\ todo' = todo \ {w}
  /\ pc' = WakeAll(IF todo = {w} THEN "notify" ELSE "stop")
  /\ UNCHANGED <<tasks, mtx, submitting, next, running, started, doomed>>

\* cv_.notify_all()
notify_all ==
  /\ pc[Main] = "notify"
  /\ pc' = WakeAll("stopped")
  /\ UNCHANGED <<tasks, mtx, stopped, client, running, started>>

\* join, after stop: every thread has ended, and threads_ is cleared.
join ==
  /\ pc[Main] = "stopped" /\ Main \notin submitting
  /\ pc' = [pc EXCEPT ![Main] = "join"]
  /\ UNCHANGED <<tasks, mtx, stopped, client, running, started>>

join_return ==
  /\ pc[Main] = "join"
  /\ \A w \in Workers : pc[w] = "ended"
  /\ pc' = [t \in Threads |-> IF t = Main THEN "idle" ELSE "none"]
  /\ UNCHANGED <<tasks, mtx, stopped, client, running, started>>

-----------------------------------------------------------------------------
(* run(st) of a worker thread *)

\* while (!st.stop_requested())
LoopTest(w) ==
  /\ Goto(w, "loop", IF stopped[w] THEN "ended" ELSE "lock")
  /\ UNCHANGED <<tasks, mtx, stopped, client, running, started>>

Lock(w) ==
  /\ Goto(w, "lock", "wait")
  /\ mtx = None /\ mtx' = w
  /\ UNCHANGED <<tasks, stopped, client, running, started>>

\* cv_.wait(lock, st, pred) begins: a requested stop ends it.
WaitTest(w) ==
  /\ Goto(w, "wait", IF stopped[w] THEN "check" ELSE "pred")
  /\ UNCHANGED <<tasks, mtx, stopped, client, running, started>>

\* st.stop_requested() || !tasks_.empty()
PredTest(w) ==
  /\ Goto(w, "pred", IF stopped[w] \/ tasks # <<>> THEN "check" ELSE "sleep")
  /\ UNCHANGED <<tasks, mtx, stopped, client, running, started>>

\* Release the mutex and sleep, unless stop has been requested meanwhile.
Sleep(w) ==
  /\ Goto(w, "sleep", IF stopped[w] THEN "check" ELSE "asleep")
  /\ mtx' = IF stopped[w] THEN mtx ELSE None
  /\ UNCHANGED <<tasks, stopped, client, running, started>>

SpuriousWakeup(w) ==
  /\ Goto(w, "asleep", "relock")
  /\ UNCHANGED <<tasks, mtx, stopped, client, running, started>>

\* Mutant: the predicate is not tested again after a wakeup.
RelockNoRetest(w) ==
  /\ Goto(w, "relock", "check")
  /\ mtx = None /\ mtx' = w
  /\ UNCHANGED <<tasks, stopped, client, running, started>>

\* The end of the inner wait: lock the mutex and test the predicate again.
Relock(w) ==
  /\ Goto(w, "relock", "pred")
  /\ mtx = None /\ mtx' = w
  /\ UNCHANGED <<tasks, stopped, client, running, started>>

\* if (st.stop_requested()) return;
StopCheck(w) ==
  /\ Goto(w, "check", IF stopped[w] THEN "ended" ELSE "pop")
  /\ mtx' = IF stopped[w] THEN None ELSE mtx
  /\ UNCHANGED <<tasks, stopped, client, running, started>>

\* Mutant: the task is copied but not popped.
PopKeeps(w) ==
  /\ tasks # <<>>
  /\ Goto(w, "pop", "run")
  /\ running' = [running EXCEPT ![w] = Head(tasks)]
  /\ started' = started \cup {Head(tasks)}
  /\ mtx' = None
  /\ UNCHANGED <<tasks, stopped, client>>

\* Take the front task and release the mutex.
Pop(w) ==
  /\ tasks # <<>>
  /\ Goto(w, "pop", "run")
  /\ running' = [running EXCEPT ![w] = Head(tasks)]
  /\ started' = started \cup {Head(tasks)}
  /\ tasks' = Tail(tasks)
  /\ mtx' = None
  /\ UNCHANGED <<stopped, client>>

\* task() returns.
TaskReturns(w) ==
  /\ Goto(w, "run", "loop")
  /\ w \notin submitting
  /\ running' = [running EXCEPT ![w] = 0]
  /\ UNCHANGED <<tasks, mtx, stopped, client, started>>

run(w) ==
  \/ LoopTest(w) \/ Lock(w) \/ WaitTest(w) \/ PredTest(w) \/ Sleep(w)
  \/ Relock(w) \/ StopCheck(w) \/ Pop(w) \/ TaskReturns(w)

-----------------------------------------------------------------------------
\* The steps of main inside a call.
MainStep == (\E w \in Workers : request_stop(w)) \/ notify_all \/ join_return

Next ==
  \/ start \/ stop \/ join \/ MainStep
  \/ \E t \in Threads : submit(t) \/ notify_one(t)
  \/ \E w \in Workers : run(w) \/ SpuriousWakeup(w)

Spec == Init /\ [][Next]_vars

(***************************************************************************)
(* Fairness: threads inside a call of the pool or of a task keep running,  *)
(* tasks return, and a thread that keeps trying gets the mutex (which is   *)
(* held for a few steps only). Nothing makes main call anything.           *)
(***************************************************************************)
FairSpec ==
  /\ Spec
  /\ WF_vars(MainStep)
  /\ \A t \in Threads : WF_vars(notify_one(t))
  /\ \A w \in Workers :
       WF_vars(run(w)) /\ SF_vars(Lock(w)) /\ SF_vars(Relock(w))

-----------------------------------------------------------------------------
\* A thread that has decided to take a task finds one: between the predicate
\* and tasks_.front() nobody empties the queue, a stop request included
\* (worker.hpp:59-63).
PopFindsTask == \A w \in Workers : pc[w] = "pop" => tasks # <<>>

\* Tasks begin in the order in which they were submitted, and once: what is
\* queued is newer than everything begun, across stops and restarts.
FirstInFirstOut ==
  /\ \A i, j \in DOMAIN tasks : i < j => tasks[i] < tasks[j]
  /\ \A k \in started, i \in DOMAIN tasks : k < tasks[i]

\* A submitted task does not stay in the queue of a running pool: it is begun,
\* or main calls stop.
TasksBegin ==
  \A k \in 1..MaxTasks :
    (k \in ToSet(tasks) /\ pc[Main] = "up")
      ~> (k \in started \/ pc[Main] # "up")

\* After stop, join returns: no worker sleeps through its stop request.
JoinReturns == (pc[Main] = "join") ~> (pc[Main] = "idle")

\* worker.hpp:37: stop "discards the tasks still queued at the moment of the
\* call". A task that was queued then is never run.
StopDiscards == started \cap doomed = {}

=============================================================================
