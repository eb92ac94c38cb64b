-------------------------- MODULE CoroutineProofs --------------------------
(***************************************************************************)
(* Proofs about the coroutine programs put together as MCCoroutine does: a *)
(* behaviour is one program, so what is proved of each of them holds of    *)
(* all, and the variables it does not have stay what they are at first.    *)
(***************************************************************************)
EXTENDS MCCoroutine, SymmetricResumeProofs

SyncP == INSTANCE SyncTaskProofs
GenP == INSTANCE GeneratorProofs WITH
  i <- gen_i, mtx <- gen_mtx, at <- gen_at, main <- gen_main

ProgramsNext == ExtraRuns \/ SyncRuns \/ GeneratorRuns

-----------------------------------------------------------------------------
(* The components and their proofs speak of the same actions. *)

LEMMA SameSyncNext == Sync!Next = SyncP!Next
<1> USE DEF Sync!Running, SyncP!Running, Sync!Return, SyncP!Return, Sync!Last, SyncP!Last,
    Sync!Front, SyncP!Front, Sync!Stay, SyncP!Stay, Sync!Call, SyncP!Call,
    Sync!Transfer, SyncP!Transfer, Sync!At, SyncP!At
<1>1. Sync!main = SyncP!main
  BY DEF Sync!main, SyncP!main
<1>2. Sync!CoAwait = SyncP!CoAwait
  BY DEF Sync!CoAwait, SyncP!CoAwait, Sync!MakeSingle, SyncP!MakeSingle,
     Sync!StartSingle, SyncP!StartSingle
<1>3. Sync!final_suspend = SyncP!final_suspend
  BY DEF Sync!final_suspend, SyncP!final_suspend, Sync!GoesBack, SyncP!GoesBack,
     Sync!BackToTask, SyncP!BackToTask
<1>4. Sync!Unwind = SyncP!Unwind
  BY DEF Sync!Unwind, SyncP!Unwind
<1>5. Sync!Awaited = SyncP!Awaited
  BY DEF Sync!Awaited, SyncP!Awaited
<1>6. Sync!EndIteration = SyncP!EndIteration
  BY DEF Sync!EndIteration, SyncP!EndIteration
<1>7. Sync!CoReturn = SyncP!CoReturn
  BY DEF Sync!CoReturn, SyncP!CoReturn
<1>8. Sync!main_return = SyncP!main_return
  BY DEF Sync!main_return, SyncP!main_return
<1> QED
  BY <1>1, <1>2, <1>3, <1>4, <1>5, <1>6, <1>7, <1>8 DEF Sync!Next, SyncP!Next

LEMMA SameGenNext == Gen!Next = GenP!Next
<1> USE DEF Gen!Goto, GenP!Goto, Gen!Yield, GenP!Yield
<1>1. ASSUME NEW c
      PROVE  /\ Gen!Lock(c) = GenP!Lock(c) /\ Gen!Resume(c) = GenP!Resume(c)
             /\ Gen!ResumeReturns(c) = GenP!ResumeReturns(c)
             /\ Gen!Lookup(c) = GenP!Lookup(c) /\ Gen!Unlock(c) = GenP!Unlock(c)
  BY DEF Gen!Lock, GenP!Lock, Gen!Resume, GenP!Resume, Gen!ResumeReturns,
     GenP!ResumeReturns, Gen!Lookup, GenP!Lookup, Gen!Unlock, GenP!Unlock
<1>2. /\ Gen!Join = GenP!Join /\ Gen!LastResumeReturns = GenP!LastResumeReturns
      /\ Gen!Destroy = GenP!Destroy
  BY DEF Gen!Join, GenP!Join, Gen!LastResumeReturns, GenP!LastResumeReturns,
     Gen!Destroy, GenP!Destroy
<1> QED
  BY <1>1, <1>2 DEF Gen!Next, GenP!Next

\* The constants of the generator are as its proofs assume.
LEMMA SameSizes == GenP!Sizes
<1>1. Gen!IsFiniteSet(Consumers) = GenP!IsFiniteSet(Consumers)
  BY DEF Gen!IsFiniteSet, GenP!IsFiniteSet
<1>2. Gen!Cardinality(Consumers) = GenP!Cardinality(Consumers)
  BY DEF Gen!Cardinality, GenP!Cardinality
<1> QED
  BY <1>1, <1>2, GeneratorAssumption DEF Gen!Sizes, GenP!Sizes

\* No step of a single-threaded build makes it another build.
LEMMA SyncKeepsBuild == Sync!Next => build' = build
  BY DEF Sync!Next, Sync!main, Sync!CoAwait, Sync!MakeSingle, Sync!final_suspend, Sync!Unwind,
     Sync!Awaited, Sync!EndIteration, Sync!CoReturn, Sync!main_return

-----------------------------------------------------------------------------
(* What stays as it was in the programs that do not have it *)

IdleThreads ==
  /\ Init /\ job = <<>>
  /\ at = [t \in Threads |-> IF t = Main THEN "returned" ELSE "pool"]
  /\ worker_finished_ = [k \in Singles |-> FALSE]
  /\ g_task_suspended = FALSE /\ g_task_finished = FALSE

IdleTask ==
  /\ i = 1 /\ task = "initial"
  /\ frame = [k \in Singles |-> "none"] /\ done_ = [k \in Singles |-> FALSE]

IdleStack == stack = <<>> /\ task_handle_ = [k \in Singles |-> FALSE]

InExtra == build = "extra" /\ IdleStack /\ Gen!Init
InSync == build \in Sync!Builds /\ IdleThreads /\ Gen!Init
InGenerator == build = "generator" /\ IdleThreads /\ IdleTask /\ IdleStack

\* The threaded build is a behaviour of SymmetricResume.
LEMMA ExtraBehaves ==
  ProgramsSpec /\ build = "extra" => ResumeSpec /\ []InExtra
<1>1. ProgramsInit /\ build = "extra" => ResumeInit /\ InExtra
  <2> SUFFICES ASSUME ProgramsInit, build = "extra" PROVE ResumeInit /\ InExtra
    OBVIOUS
  <2>1. at = [t \in Threads |-> IF t = Main THEN "begin" ELSE "pool"]
    BY DEF ProgramsInit
  <2> QED
    BY <2>1 DEF ProgramsInit, ResumeInit, InExtra, IdleStack
<1>2. InExtra /\ [ProgramsNext]_programs => [ResumeNext]_allvars /\ InExtra'
  <2> SUFFICES ASSUME InExtra, [ProgramsNext]_programs
               PROVE  [ResumeNext]_allvars /\ InExtra'
    OBVIOUS
  <2>1. [ResumeNext]_allvars /\ UNCHANGED <<syncvars, genvars>>
    BY DEF InExtra, ProgramsNext, ExtraRuns, SyncRuns, GeneratorRuns, Sync!Builds, programs
  <2> QED
    BY <2>1 DEF InExtra, IdleStack, Gen!Init, syncvars, genvars
<1> QED
  BY <1>1, <1>2, PTL DEF ProgramsSpec, ResumeSpec, ProgramsNext

\* The single-threaded builds are behaviours of SyncTask.
LEMMA SyncBehaves ==
  ProgramsSpec /\ build \in Sync!Builds => SyncP!Spec /\ []InSync
<1>1. ProgramsInit /\ build \in Sync!Builds => SyncP!Init /\ InSync
  <2> SUFFICES ASSUME ProgramsInit, build \in Sync!Builds PROVE SyncP!Init /\ InSync
    OBVIOUS
  <2>1. at = [t \in Threads |-> IF t = Main THEN "returned" ELSE "pool"]
    BY DEF ProgramsInit, Sync!Builds
  <2> QED
    BY <2>1 DEF ProgramsInit, CoroInit, SyncP!Init, InSync, IdleThreads, Singles,
       SyncP!Singles, Sync!Builds, SyncP!Builds
<1>2. InSync /\ [ProgramsNext]_programs => [SyncP!Next]_(SyncP!vars) /\ InSync'
  <2> SUFFICES ASSUME InSync, [ProgramsNext]_programs
               PROVE  [SyncP!Next]_(SyncP!vars) /\ InSync'
    OBVIOUS
  <2>1. /\ Sync!Next \/ UNCHANGED <<build, i, task, frame, task_handle_, done_, stack>>
        /\ UNCHANGED <<threadvars, genvars>>
    BY DEF InSync, ProgramsNext, ExtraRuns, SyncRuns, GeneratorRuns, Sync!Builds, programs,
       allvars, program, coros, promises, threadvars, syncvars
  <2>2. build' = build
    BY <2>1, SyncKeepsBuild
  <2> QED
    BY <2>1, <2>2, SameSyncNext DEF SyncP!vars, InSync, IdleThreads, Init, Gen!Init,
       threadvars, vars, flags, genvars
<1> QED
  BY <1>1, <1>2, PTL DEF ProgramsSpec, SyncP!Spec, ProgramsNext

\* The generator program is a behaviour of Generator.
LEMMA GeneratorBehaves ==
  ProgramsSpec /\ build = "generator" => GenP!Spec /\ []InGenerator
<1>1. ProgramsInit /\ build = "generator" => GenP!Init /\ InGenerator
  <2> SUFFICES ASSUME ProgramsInit, build = "generator" PROVE GenP!Init /\ InGenerator
    OBVIOUS
  <2>1. at = [t \in Threads |-> IF t = Main THEN "returned" ELSE "pool"]
    BY DEF ProgramsInit
  <2> QED
    BY <2>1 DEF ProgramsInit, CoroInit, Gen!Init, GenP!Init, InGenerator, IdleThreads,
       IdleTask, IdleStack
<1>2. InGenerator /\ [ProgramsNext]_programs => [GenP!Next]_(GenP!vars) /\ InGenerator'
  <2> SUFFICES ASSUME InGenerator, [ProgramsNext]_programs
               PROVE  [GenP!Next]_(GenP!vars) /\ InGenerator'
    OBVIOUS
  <2>1. /\ Gen!Next \/ UNCHANGED genvars
        /\ UNCHANGED <<allvars, syncvars>>
    BY DEF InGenerator, ProgramsNext, ExtraRuns, SyncRuns, GeneratorRuns, Sync!Builds,
       programs
  <2> QED
    BY <2>1, SameGenNext DEF GenP!vars, genvars, InGenerator, IdleThreads, IdleTask,
       IdleStack, Init, allvars, vars, program, coros, promises, flags, syncvars
<1> QED
  BY <1>1, <1>2, PTL DEF ProgramsSpec, GenP!Spec, ProgramsNext

\* There is no other program.
LEMMA OneProgram ==
  ProgramsSpec => build = "extra" \/ build \in Sync!Builds \/ build = "generator"
<1>1. ProgramsInit => build = "extra" \/ build \in Sync!Builds \/ build = "generator"
  BY DEF ProgramsInit
<1> QED
  BY <1>1, PTL DEF ProgramsSpec

-----------------------------------------------------------------------------
(* The theorems *)

\* Without a running resume() there is no activation.
LEMMA EmptyStack == IdleStack => DOMAIN stack = {} /\ Len(stack) = 0
  BY DEF IdleStack

\* The generator that never runs has its types.
LEMMA GenInitTypes == Gen!Init => Gen!TypeOK
<1> SUFFICES ASSUME Gen!Init PROVE Gen!TypeOK
  OBVIOUS
<1>1. Yields \in Nat /\ Rounds \in Nat
  BY SameSizes, GenP!FS_CardinalityType DEF GenP!Sizes
<1> QED
  BY <1>1 DEF Gen!Init, Gen!TypeOK

\* So do the pool that is never started, and the threads of the other programs.
LEMMA IdleThreadsTypes ==
  ASSUME IdleThreads
  PROVE  /\ TypeOK /\ at \in [Threads -> MainPlaces \cup WorkerPlaces]
         /\ job \in Seq(0..Count) /\ worker_finished_ \in [Singles -> BOOLEAN]
         /\ g_task_suspended \in BOOLEAN /\ g_task_finished \in BOOLEAN
<1>1. TypeOK
  BY WorkerAssumption DEF IdleThreads, Init, TypeOK, Threads, WorkerPCs, MainPCs
<1>2. at \in [Threads -> MainPlaces \cup WorkerPlaces]
  BY DEF IdleThreads, MainPlaces, WorkerPlaces
<1>3. job \in Seq(0..Count)
  BY DEF IdleThreads
<1> QED
  BY <1>1, <1>2, <1>3 DEF IdleThreads

\* The types of all programs: no loop variable, value, round or job number runs
\* past its loop (coro.hpp:107, generator.cpp:53), whatever the numbers in main.
THEOREM ProgramsTypeCorrect == ProgramsSpec => []TypesOK
<1>1. InExtra /\ ResumeTypeOK => TypesOK
  BY GenInitTypes DEF InExtra, TypesOK, Sync!Builds
<1>2. InSync /\ SyncP!TypeOK => TypesOK
  <2> SUFFICES ASSUME InSync, SyncP!TypeOK PROVE TypesOK
    OBVIOUS
  <2>1. Sync!TypeOK
    BY DEF SyncP!TypeOK, Sync!TypeOK, SyncP!Builds, Sync!Builds, SyncP!Singles, Sync!Singles,
       SyncP!FrameStates, Sync!FrameStates, SyncP!TaskPlaces, Sync!TaskPlaces,
       SyncP!SinglePlaces, Sync!SinglePlaces
  <2>2. ResumeTypeOK
    BY IdleThreadsTypes DEF InSync, ResumeTypeOK, SyncP!TypeOK, SyncP!Singles, Singles,
       SyncP!FrameStates
  <2> QED
    BY <2>1, <2>2, GenInitTypes DEF InSync, TypesOK
<1>3. InGenerator /\ GenP!TypeOK => TypesOK
  <2> SUFFICES ASSUME InGenerator, GenP!TypeOK PROVE TypesOK
    OBVIOUS
  <2>1. Gen!TypeOK
    BY DEF Gen!TypeOK, GenP!TypeOK
  <2>2. ResumeTypeOK
    BY IdleThreadsTypes, ResumeAssumption DEF InGenerator, IdleTask, ResumeTypeOK
  <2> QED
    BY <2>1, <2>2 DEF InGenerator, TypesOK, Sync!Builds
<1>4. ResumeSpec => []ResumeTypeOK
  BY ResumeTypeCorrect
<1>5. SyncP!Spec => []SyncP!TypeOK
  BY ResumeAssumption, SyncP!SyncTypeCorrect
<1>6. GenP!Spec => []GenP!TypeOK
  BY SameSizes, GenP!GeneratorTypeCorrect
<1> QED
  BY <1>1, <1>2, <1>3, <1>4, <1>5, <1>6, OneProgram, ExtraBehaves, SyncBehaves,
     GeneratorBehaves, PTL

\* In all four builds, code that is still going to use the frame of a single task
\* finds it alive: a final awaiter after its resume(), the worker's store of
\* worker_finished_, the awaiter's exchange (symmetric_resume.cpp:52-54, 168,
\* 194-197, 206-208).
THEOREM ProgramsFramesAlive == ProgramsSpec => []FramesAlive
<1>1. InExtra /\ SingleFramesAlive => FramesAlive
  BY EmptyStack DEF InExtra, FramesAlive, Sync!FramesAlive
<1>2. IdleThreads => SingleFramesAlive
  BY WorkerAssumption DEF IdleThreads, SingleFramesAlive, Threads, SinglePlaces
<1>3. InSync /\ SyncP!FramesAlive => FramesAlive
  BY <1>2 DEF InSync, FramesAlive, Sync!FramesAlive, SyncP!FramesAlive
<1>4. InGenerator => FramesAlive
  BY <1>2, EmptyStack DEF InGenerator, FramesAlive, Sync!FramesAlive
<1>5. ResumeSpec => []SingleFramesAlive
  BY SingleFramesOutliveUse
<1>6. SyncP!Spec => []SyncP!FramesAlive
  BY ResumeAssumption, SyncP!FramesOutliveUse
<1> QED
  BY <1>1, <1>3, <1>4, <1>5, <1>6, OneProgram, ExtraBehaves, SyncBehaves,
     GeneratorBehaves, PTL

\* The resume() in the final awaiter of the SYMMETRIC build is dead code
\* (symmetric_resume.cpp:65-68).
THEOREM ProgramsFinalResumeIsDead == ProgramsSpec => []FinalResumeIsDead
<1>1. InExtra \/ InGenerator => FinalResumeIsDead
  BY EmptyStack DEF InExtra, InGenerator, FinalResumeIsDead, Sync!FinalResumeIsDead
<1>2. SyncP!FinalResumeIsDead => FinalResumeIsDead
  BY DEF FinalResumeIsDead, Sync!FinalResumeIsDead, SyncP!FinalResumeIsDead
<1>3. SyncP!Spec => []SyncP!FinalResumeIsDead
  BY ResumeAssumption, SyncP!FinalResumeNeverRuns
<1> QED
  BY <1>1, <1>2, <1>3, OneProgram, ExtraBehaves, SyncBehaves, GeneratorBehaves, PTL

\* The stack of activations is as deep as the picture draws it: one with
\* symmetric transfer, two with the flag, growing by two for each iteration with
\* nested resumes (coro.hpp:51, symmetric_trans.cpp:11), for any number of them.
THEOREM ProgramsStackDepth == ProgramsSpec => []StackDepth
<1>1. InExtra \/ InGenerator => StackDepth
  BY DEF InExtra, InGenerator, StackDepth, Sync!Builds
<1>2. SyncP!StackDepth => StackDepth
  BY DEF StackDepth, Sync!StackDepth, SyncP!StackDepth
<1>3. SyncP!Spec => []SyncP!StackDepth
  BY ResumeAssumption, SyncP!StackStaysShallow
<1> QED
  BY <1>1, <1>2, <1>3, OneProgram, ExtraBehaves, SyncBehaves, GeneratorBehaves, PTL

\* Whoever resumes the generator, a consumer or main, finds it suspended and not
\* at its end (generator.cpp:72-73, 86).
THEOREM ProgramsResumeSuspended == ProgramsSpec => []ResumesSuspended
<1>1. Gen!Init => ResumesSuspended
  BY DEF Gen!Init, ResumesSuspended, Gen!ResumesSuspended
<1>2. InExtra \/ InSync => ResumesSuspended
  BY <1>1 DEF InExtra, InSync
<1>3. GenP!ResumesSuspended => ResumesSuspended
  BY DEF ResumesSuspended, Gen!ResumesSuspended, GenP!ResumesSuspended
<1>4. GenP!Spec => []GenP!ResumesSuspended
  BY SameSizes, GenP!GeneratorIsSuspended
<1> QED
  BY <1>2, <1>3, <1>4, OneProgram, ExtraBehaves, SyncBehaves, GeneratorBehaves, PTL

\* The consumers see the values in order, each once (generator.cpp:75).
THEOREM ProgramsValuesInOrder == ProgramsSpec => []ValuesInOrder
<1>1. Gen!Init => ValuesInOrder
  BY DEF Gen!Init, ValuesInOrder, Gen!ValuesInOrder
<1>2. InExtra \/ InSync => ValuesInOrder
  BY <1>1 DEF InExtra, InSync
<1>3. GenP!ValuesInOrder => ValuesInOrder
  BY DEF ValuesInOrder, Gen!ValuesInOrder, GenP!ValuesInOrder
<1>4. GenP!Spec => []GenP!ValuesInOrder
  BY SameSizes, GenP!ValuesComeInOrder
<1> QED
  BY <1>2, <1>3, <1>4, OneProgram, ExtraBehaves, SyncBehaves, GeneratorBehaves, PTL

\* The task runs on one thread, is resumed only where it is suspended, and is
\* destroyed only after nobody is inside it and with no job left in the queue
\* (symmetric_resume.cpp:16-26, 247-260).
THEOREM ProgramsTaskOwned ==
  ProgramsSpec => [](TaskOnOneThread /\ TaskFrameAlive /\ NothingLeftToStop)
<1>1. IdleThreads => TaskOnOneThread /\ TaskFrameAlive /\ NothingLeftToStop
  BY WorkerAssumption DEF IdleThreads, Init, TaskOnOneThread, TaskFrameAlive,
     NothingLeftToStop, Threads, InTask, TaskPlaces
<1>2. InSync \/ InGenerator => TaskOnOneThread /\ TaskFrameAlive /\ NothingLeftToStop
  BY <1>1 DEF InSync, InGenerator
<1>3. ResumeSpec => []TaskOnOneThread /\ [](TaskFrameAlive /\ NothingLeftToStop)
  BY TaskStaysOnOneThread, TaskOutlivesItsJobs
<1> QED
  BY <1>2, <1>3, OneProgram, ExtraBehaves, SyncBehaves, GeneratorBehaves, PTL

\* All builds of the task programs implement the loop of AwaitLoop: whoever wins
\* the races and however control is handed over, each single task is made, runs
\* once, and only then the task goes on and destroys it (coro.hpp:107-119).
THEOREM ProgramsImplementLoop == ProgramsSpec => ImplementsLoop
<1>1. IdleTask => Loop!Init
  BY ResumeAssumption DEF IdleTask, Loop!Init, Seen, Singles
<1>2. InGenerator /\ InGenerator' => UNCHANGED Loop!vars
  BY DEF InGenerator, IdleTask, Loop!vars
<1>3. SyncP!Spec => SyncP!Loop!Spec
  BY ResumeAssumption, SyncP!SyncImplementsLoop
<1>4. SyncP!Loop!Init => Loop!Init
  BY DEF SyncP!Loop!Init, Loop!Init, SyncP!Seen, Seen
<1>5. [SyncP!Loop!Next]_(SyncP!Loop!vars) => [Loop!Next]_(Loop!vars)
  BY DEF SyncP!Loop!Next, Loop!Next, SyncP!Loop!vars, Loop!vars, SyncP!Seen, Seen,
     SyncP!Loop!Make, Loop!Make, SyncP!Loop!Run, Loop!Run, SyncP!Loop!Continue, Loop!Continue
<1>6. ResumeSpec => Loop!Spec
  BY ResumeImplementsLoop DEF ImplementsLoop
<1>7. InGenerator => Loop!Init
  BY <1>1 DEF InGenerator
<1> QED
  BY <1>2, <1>3, <1>4, <1>5, <1>6, <1>7, OneProgram, ExtraBehaves, SyncBehaves,
     GeneratorBehaves, PTL DEF ImplementsLoop, Loop!Spec, SyncP!Loop!Spec

=============================================================================
