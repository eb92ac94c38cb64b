---------------------------- MODULE MCCoroutine ----------------------------
(***************************************************************************)
(* The coroutine programs for TLC. A behaviour is one build of the task    *)
(* programs (the threaded one of SymmetricResume, "extra", or one of the   *)
(* three of SyncTask) or the generator program. The builds have the        *)
(* variables of the task and of the promises in common; the variables a    *)
(* program does not have keep their initial values.                        *)
(***************************************************************************)
EXTENDS SymmetricResume

CONSTANTS Consumers, NoOne, Rounds, Yields   \* of Generator

VARIABLES
  build, task_handle_, stack,                            \* of SyncTask
  co, gen_i, val, gen_mtx, gen_at, round, gen_main, seen     \* of Generator

threadvars == <<vars, at, job, worker_finished_, flags>>
syncvars == <<build, task_handle_, stack>>
genvars == <<co, gen_i, val, gen_mtx, gen_at, round, gen_main, seen>>

Sync == INSTANCE SyncTask
Gen == INSTANCE Generator WITH
  i <- gen_i, mtx <- gen_mtx, at <- gen_at, main <- gen_main

ASSUME GeneratorAssumption == Gen!Sizes

\* Only in the threaded build is there a pool for main to start.
ProgramsInit ==
  /\ build \in Sync!Builds \cup {"extra", "generator"}
  /\ Init /\ CoroInit /\ Gen!Init
  /\ at = [t \in Threads |-> IF t # Main THEN "pool"
                             ELSE IF build = "extra" THEN "begin" ELSE "returned"]
  /\ job = <<>>
  /\ task_handle_ = [k \in Singles |-> FALSE] /\ stack = <<>>

ExtraRuns == build = "extra" /\ ResumeNext /\ UNCHANGED <<syncvars, genvars>>

SyncRuns ==
  build \in Sync!Builds /\ Sync!Next /\ UNCHANGED <<threadvars, genvars>>

GeneratorRuns ==
  build = "generator" /\ Gen!Next /\ UNCHANGED <<allvars, syncvars>>

programs == <<allvars, syncvars, genvars>>

ProgramsSpec ==
  /\ ProgramsInit
  /\ [][ExtraRuns \/ SyncRuns \/ GeneratorRuns]_programs
  /\ ResumeFairness
  /\ WF_programs(SyncRuns) /\ WF_programs(GeneratorRuns)

-----------------------------------------------------------------------------
\* The programs keep their types: no loop variable, value or job number runs
\* past its loop (coro.hpp:107, generator.cpp:53).
TypesOK ==
  /\ ResumeTypeOK /\ Gen!TypeOK
  /\ build \in Sync!Builds => Sync!TypeOK

\* Code that is still going to use the frame of a single task finds it alive, on
\* either thread and in all four builds (symmetric_resume.cpp:52-54, 168,
\* 194-197, 206-208).
FramesAlive == SingleFramesAlive /\ Sync!FramesAlive

\* The resume() in the final awaiter of the SYMMETRIC build is dead code
\* (symmetric_resume.cpp:65-68).
FinalResumeIsDead == Sync!FinalResumeIsDead

\* Nested resumes grow the stack by two activations for each iteration, the
\* flag and symmetric transfer not at all (coro.hpp:51, symmetric_trans.cpp:11).
StackDepth == build \in Sync!Builds => Sync!StackDepth

\* The task programs end: no suspended task is forgotten, every single task has
\* run and is destroyed before main destroys the task, and the worker ends
\* (symmetric_resume.cpp:240-264, symmetric_trans.cpp:96-98, coro.hpp:107-119).
TasksEnd ==
  build # "generator" =>
    <>(/\ task = "destroyed" /\ at[Main] = "returned"
       /\ \A k \in Singles : frame[k] = "destroyed")

\* A consumer about to resume the generator, and main after the last round, finds
\* it suspended (generator.cpp:72-73, 86).
ResumesSuspended == Gen!ResumesSuspended

\* The consumers see the yielded values in order, each once (generator.cpp:75).
ValuesInOrder == Gen!ValuesInOrder

\* The generator program ends, with the coroutine at its end
\* (generator.cpp:82-87).
GeneratorEnds == build = "generator" => Gen!GeneratorEnds

=============================================================================
