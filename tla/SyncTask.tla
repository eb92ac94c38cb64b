------------------------------ MODULE SyncTask ------------------------------
(***************************************************************************)
(* The single-threaded builds of the coroutine programs: a task that       *)
(* co_awaits Count single tasks in turn (coro.hpp), with three ways to go  *)
(* from one coroutine to the other:                                        *)
(*   "resume"  symmetric_resume.cpp: the awaiter resumes the single task,  *)
(*             whose final awaiter resumes the task (ResumeAwaiter);       *)
(*   "ready"   the same with SYMMETRIC: the final awaiter leaves a flag    *)
(*             and the awaiter does not suspend when it finds it set;      *)
(*   "trans"   symmetric_trans.cpp: await_suspend returns the handle to    *)
(*             transfer to.                                                *)
(* The stack holds one activation for every resume() that has not          *)
(* returned, the running one last; a transfer replaces the last one. Its   *)
(* length is g_stack_depth (log.hpp), which TRACK_RESUME maintains.        *)
(***************************************************************************)
EXTENDS Integers, Sequences, SequencesExt

CONSTANT Count   \* make_task(Count)

VARIABLES
  build,         \* which of the programs this is
  i,             \* the loop variable in the task's frame
  task,          \* the task's coroutine
  frame,         \* frame[k]: the frame of the k-th single task
  task_handle_,  \* task_handle_[k]: its promise knows the task
  done_,         \* done_[k]: the flag of its promise
  stack          \* the activations: place, and the single task it concerns

vars == <<build, i, task, frame, task_handle_, done_, stack>>

Builds == {"resume", "ready", "trans"}
Singles == 1..Count
TaskPlaces == {"loop", "awaited", "resumed"}   \* of the task's code
SinglePlaces == {"body", "unwind"}             \* of the single task's code
FrameStates == {"none", "suspended", "final", "destroyed"}

TypeOK ==
  /\ build \in Builds
  /\ i \in 1..(Count + 1)
  /\ task \in {"initial", "running", "suspended", "final", "destroyed"}
  /\ frame \in [Singles -> FrameStates]
  /\ task_handle_ \in [Singles -> BOOLEAN] /\ done_ \in [Singles -> BOOLEAN]
  /\ stack \in Seq([at : TaskPlaces \cup SinglePlaces, k : Singles])

Init ==
  /\ build \in Builds
  /\ i = 1 /\ task = "initial"
  /\ frame = [k \in Singles |-> "none"]
  /\ task_handle_ = [k \in Singles |-> FALSE]
  /\ done_ = [k \in Singles |-> FALSE]
  /\ stack = <<>>

-----------------------------------------------------------------------------
At(at, k) == [at |-> at, k |-> k]

\* The activation that runs is the last one.
Running(at) == stack # <<>> /\ Last(stack).at = at

\* The running code goes on at another place, calls resume(), transfers to
\* another coroutine, or returns to its resumer.
Stay(at) == [stack EXCEPT ![Len(stack)].at = at]
Call(at, callee) == Append(Stay(at), callee)
Transfer(to) == Append(Front(stack), to)
Return == Front(stack)

\* main resumes the task for the first time.
main ==
  /\ task = "initial"
  /\ task' = "running" /\ stack' = <<At("loop", 1)>>
  /\ UNCHANGED <<build, i, frame, task_handle_, done_>>

\* The single task is made, suspended at its start.
MakeSingle ==
  /\ Running("loop") /\ i <= Count
  /\ frame' = [frame EXCEPT ![i] = "suspended"]
  /\ UNCHANGED <<build, i>>

\* await_suspend starts the single task: it returns its handle, or resumes it.
StartSingle ==
  IF build = "trans" THEN Transfer(At("body", i)) ELSE Call("awaited", At("body", i))

\* Mutant: the awaiter of symmetric_trans.cpp resumes the handle.
CoAwaitResumes ==
  /\ MakeSingle
  /\ task_handle_' = [task_handle_ EXCEPT ![i] = TRUE]
  /\ task' = "suspended"
  /\ stack' = Call("awaited", At("body", i))
  /\ UNCHANGED done_

\* Mutant: the awaiter exchanges done_ before it resumes the single task.
CoAwaitDoneFirst ==
  /\ MakeSingle
  /\ task_handle_' = [task_handle_ EXCEPT ![i] = TRUE]
  /\ done_' = [done_ EXCEPT ![i] = TRUE]
  /\ task' = "suspended"
  /\ stack' = StartSingle

\* An iteration makes the single task and co_awaits it: the task is suspended,
\* its handle is stored in the promise, and the single task starts.
CoAwait ==
  /\ MakeSingle
  /\ task_handle_' = [task_handle_ EXCEPT ![i] = TRUE]
  /\ task' = "suspended"
  /\ stack' = StartSingle
  /\ UNCHANGED done_

\* Whether the final awaiter of a single task goes back to the task.
GoesBack(k) == task_handle_[k] /\ (build = "ready" => done_[k])

\* The final awaiter returns the task's handle, or resumes it.
BackToTask(k) ==
  IF build = "trans" THEN Transfer(At("resumed", k)) ELSE Call("unwind", At("resumed", k))

\* The single task runs to its final suspend point and its final awaiter.
final_suspend ==
  /\ Running("body")
  /\ LET k == Last(stack).k IN
     /\ frame' = [frame EXCEPT ![k] = "final"]
     /\ done_' = [done_ EXCEPT ![k] = @ \/ build = "ready"]
     /\ task' = IF GoesBack(k) THEN "running" ELSE task
     /\ stack' = IF GoesBack(k) THEN BackToTask(k) ELSE Return
  /\ UNCHANGED <<build, i, task_handle_>>

\* The resume() inside a final awaiter has returned.
Unwind ==
  /\ Running("unwind") /\ stack' = Return
  /\ UNCHANGED <<build, i, task, frame, task_handle_, done_>>

\* The resume() inside await_suspend has returned. With SYMMETRIC the flag of
\* the single task's promise says whether the task goes on at once.
Awaited ==
  /\ Running("awaited")
  /\ LET k == Last(stack).k  goes_on == build = "ready" /\ done_[k] IN
     /\ done_' = [done_ EXCEPT ![k] = @ \/ build = "ready"]
     /\ task' = IF goes_on THEN "running" ELSE task
     /\ stack' = IF goes_on THEN Stay("resumed") ELSE Return
  /\ UNCHANGED <<build, i, frame, task_handle_>>

\* await_resume; the end of the iteration destroys the single task.
EndIteration ==
  /\ Running("resumed")
  /\ frame' = [frame EXCEPT ![i] = "destroyed"]
  /\ i' = i + 1
  /\ stack' = Transfer(At("loop", IF i < Count THEN i + 1 ELSE i))
  /\ UNCHANGED <<build, task, task_handle_, done_>>

\* The loop is over: co_return, suspended at the final suspend point.
CoReturn ==
  /\ Running("loop") /\ i > Count
  /\ task' = "final" /\ stack' = Return
  /\ UNCHANGED <<build, i, frame, task_handle_, done_>>

\* main returns and destroys the task.
main_return ==
  /\ task \notin {"initial", "destroyed"} /\ stack = <<>>
  /\ task' = "destroyed"
  /\ UNCHANGED <<build, i, frame, task_handle_, done_, stack>>

Next ==
  \/ main \/ CoAwait \/ final_suspend \/ Unwind \/ Awaited \/ EndIteration
  \/ CoReturn \/ main_return

Spec == Init /\ [][Next]_vars

-----------------------------------------------------------------------------
\* Code that is still going to use the frame of a single task finds it alive:
\* its own body, and with SYMMETRIC the awaiter's exchange after the resume()
\* (symmetric_resume.cpp:206-208). The other builds may destroy the frame while
\* an activation of it is on the stack, and do.
FramesAlive ==
  \A n \in DOMAIN stack :
    (stack[n].at = "body" \/ (stack[n].at = "awaited" /\ build = "ready"))
      => frame[stack[n].k] \in {"suspended", "final"}

\* symmetric_resume.cpp:65-68 calls the resume() in the final awaiter of the
\* SYMMETRIC build dead code.
FinalResumeIsDead ==
  build = "ready" => \A n \in DOMAIN stack : stack[n].at # "unwind"

\* The stack: constant with symmetric transfer and with the flag, two more
\* activations for each iteration with nested resumes (the picture that
\* symmetric_trans_visualising_stack.html draws).
StackDepth ==
  Len(stack) <= [trans |-> 1, ready |-> 2, resume |-> 2 * i + 1][build]

=============================================================================
