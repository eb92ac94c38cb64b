--------------------------- MODULE SyncTaskProofs ---------------------------
(***************************************************************************)
(* Proofs about the single-threaded builds of the task programs, for any   *)
(* number of iterations.                                                   *)
(***************************************************************************)
EXTENDS SyncTask, SequenceTheorems, TLAPS

Activations == [at : TaskPlaces \cup SinglePlaces, k : Singles]

-----------------------------------------------------------------------------
(* The inductive invariant *)

\* The activation that runs, and how many there are.
Depth == Len(stack)
Top == stack[Depth]
TopAt(places) == Depth > 0 /\ Top.at \in places

\* The single tasks of earlier iterations are destroyed, those of later ones
\* not made; their promises are untouched.
FrameInv ==
  \A k \in Singles :
    /\ k < i => frame[k] = "destroyed"
    /\ k > i \/ (k = i /\ (task = "initial" \/ TopAt({"loop"}))) =>
         frame[k] = "none" /\ ~done_[k]

\* Below the running activation there are resume()s that wait to return; where
\* the running one is tells the states of the task and of the single task.
TopInv ==
  /\ \A n \in 1..(Depth - 1) : stack[n].at \in {"awaited", "unwind"}
  /\ task = "initial" => Depth = 0 /\ i = 1
  /\ task \in {"initial", "destroyed"} => Depth = 0
  /\ TopAt({"loop", "resumed"}) => task = "running"
  /\ TopAt({"loop"}) /\ i <= Count => Top.k = i
  /\ TopAt({"body"}) =>
       /\ task = "suspended" /\ Top.k = i /\ i <= Count
       /\ frame[i] = "suspended" /\ task_handle_[i] /\ ~done_[i]
  /\ TopAt({"resumed"}) => i <= Count /\ frame[i] = "final"

TransInv == build = "trans" => Depth <= 1 /\ ~TopAt({"awaited", "unwind"})

\* With the flag the single task runs inside one resume(), and returns from it.
ReadyInv ==
  build = "ready" =>
    /\ Depth <= 2 /\ (Depth = 2 <=> TopAt({"body"})) /\ ~TopAt({"unwind"})
    /\ Depth = 2 => stack[1] = [at |-> "awaited", k |-> i]
    /\ TopAt({"awaited"}) => Top.k = i /\ i <= Count /\ frame[i] = "final" /\ done_[i]

\* Nested resumes: two more activations in each iteration, none of which returns
\* before the loop is over.
NestedInv ==
  build = "resume" =>
    /\ Depth <= 2 * i + 1
    /\ TopAt({"loop"}) => Depth = 2 * i - 1
    /\ TopAt({"body"}) => Depth = 2 * i
    /\ TopAt({"resumed"}) => Depth = 2 * i + 1
    /\ TopAt({"awaited", "unwind"}) => i = Count + 1 /\ task = "final"

SInv == TypeOK /\ FrameInv /\ TopInv /\ TransInv /\ ReadyInv /\ NestedInv

-----------------------------------------------------------------------------
(* What the steps do to the stack *)

Places == TaskPlaces \cup SinglePlaces

\* The last activation is replaced or removed, or one is put on it; those below
\* stay as they are.
LEMMA StackSteps ==
  ASSUME stack \in Seq(Activations), Depth > 0
  PROVE  /\ Last(stack) = Top /\ Top \in Activations /\ Depth \in Nat
         /\ Return \in Seq(Activations) /\ Len(Return) = Depth - 1
         /\ \A n \in 1..(Depth - 1) : Return[n] = stack[n]
         /\ \A to \in Activations :
              /\ Transfer(to) \in Seq(Activations) /\ Len(Transfer(to)) = Depth
              /\ Transfer(to)[Depth] = to
              /\ \A n \in 1..(Depth - 1) : Transfer(to)[n] = stack[n]
         /\ \A p \in Places :
              /\ Stay(p) \in Seq(Activations) /\ Len(Stay(p)) = Depth
              /\ Stay(p)[Depth] = At(p, Top.k)
              /\ \A n \in 1..(Depth - 1) : Stay(p)[n] = stack[n]
<1>1. Depth \in Nat /\ stack # <<>> /\ Depth \in 1..Len(stack) /\ Len(stack) = Depth
  BY DEF Depth
<1>2. Top \in Activations
  BY <1>1, ElementOfSeq DEF Top
<1>3. Last(stack) = Top
  BY DEF Last, Top, Depth
<1>4. /\ Return \in Seq(Activations) /\ Len(Return) = Depth - 1
      /\ \A n \in 1..(Depth - 1) : Return[n] = stack[n]
  BY <1>1 DEF Return, Front
<1>5. ASSUME NEW to \in Activations
      PROVE  /\ Transfer(to) \in Seq(Activations) /\ Len(Transfer(to)) = Depth
             /\ Transfer(to)[Depth] = to
             /\ \A n \in 1..(Depth - 1) : Transfer(to)[n] = stack[n]
  BY <1>1, <1>4 DEF Transfer, Return
<1>6. ASSUME NEW p \in Places
      PROVE  /\ Stay(p) \in Seq(Activations) /\ Len(Stay(p)) = Depth
             /\ Stay(p)[Depth] = At(p, Top.k)
             /\ \A n \in 1..(Depth - 1) : Stay(p)[n] = stack[n]
  <2>1. At(p, Top.k) \in Activations /\ [Top EXCEPT !.at = p] = At(p, Top.k)
    BY <1>2 DEF At, Activations, Places
  <2>2. Stay(p) = [stack EXCEPT ![Depth] = At(p, Top.k)]
    BY <1>1, <2>1 DEF Stay, Top, Depth
  <2> QED
    BY <1>1, <2>1, <2>2
<1> QED
  BY <1>1, <1>2, <1>3, <1>4, <1>5, <1>6

\* A call leaves the caller where it goes on, with the callee on top.
LEMMA CallSteps ==
  ASSUME stack \in Seq(Activations), Depth > 0, NEW p \in Places, NEW c \in Activations
  PROVE  /\ Call(p, c) \in Seq(Activations) /\ Len(Call(p, c)) = Depth + 1
         /\ Call(p, c)[Depth + 1] = c /\ Call(p, c)[Depth] = At(p, Top.k)
         /\ \A n \in 1..(Depth - 1) : Call(p, c)[n] = stack[n]
<1>1. /\ Stay(p) \in Seq(Activations) /\ Len(Stay(p)) = Depth /\ Depth \in Nat
      /\ Stay(p)[Depth] = At(p, Top.k)
      /\ \A n \in 1..(Depth - 1) : Stay(p)[n] = stack[n]
  BY StackSteps
<1> QED
  BY <1>1 DEF Call

-----------------------------------------------------------------------------
(* Every step keeps the invariant *)

Parts == FrameInv /\ TopInv /\ TransInv /\ ReadyInv /\ NestedInv

\* Each step changes the frame and the promise of this iteration's single task
\* and the end of the stack, in the way of its build.
LEMMA SInvStep ==
  ASSUME Count \in Nat \ {0}, SInv, [Next]_vars
  PROVE  SInv'
<1>0. /\ stack \in Seq(Activations) /\ i \in 1..(Count + 1) /\ build \in Builds
      /\ task \in {"initial", "running", "suspended", "final", "destroyed"}
      /\ frame \in [Singles -> FrameStates]
      /\ done_ \in [Singles -> BOOLEAN] /\ task_handle_ \in [Singles -> BOOLEAN]
      /\ FrameInv /\ TopInv /\ TransInv /\ ReadyInv /\ NestedInv
  BY DEF SInv, TypeOK, Activations
<1>1. Depth \in Nat /\ Singles = 1..Count
  BY <1>0 DEF Depth, Singles
<1>2. \A p \in Places, k \in Singles :
        At(p, k) \in Activations /\ At(p, k).at = p /\ At(p, k).k = k
  BY DEF At, Activations, Places
<1>3. ASSUME NEW p, Running(p)
      PROVE  Depth > 0 /\ Top.at = p /\ Last(stack) = Top /\ Top \in Activations
             /\ Top.k \in Singles
  <2>1. Depth > 0
    BY <1>0, <1>3 DEF Running, Depth
  <2> QED
    BY <1>0, <1>3, <2>1, StackSteps DEF Running, Activations
<1>4. {"loop", "awaited", "resumed", "body", "unwind"} \subseteq Places
  BY DEF Places, TaskPlaces, SinglePlaces
<1>5. {"none", "suspended", "final", "destroyed"} \subseteq FrameStates
  BY DEF FrameStates
<1>6. SUFFICES TypeOK' /\ Parts'
  BY DEF SInv, Parts
<1> USE DEF TopAt
<1>10. CASE UNCHANGED vars
  BY <1>0, <1>10 DEF vars, Parts, TypeOK, Activations, FrameInv, TopInv, TransInv, ReadyInv,
     NestedInv, Top, Depth
<1>11. CASE main
  <2>1. i = 1 /\ task' = "running" /\ stack' = <<At("loop", 1)>>
        /\ UNCHANGED <<build, i, frame, task_handle_, done_>> /\ task = "initial"
    BY <1>0, <1>11 DEF main, TopInv
  <2>2. stack' \in Seq(Activations) /\ Depth' = 1 /\ Top' = At("loop", 1)
    BY <1>1, <1>2, <1>4, <2>1 DEF Depth, Top
  <2>3. Top'.at = "loop" /\ Top'.k = 1
    BY <2>2 DEF At
  <2>4. TypeOK'
    BY <1>0, <2>1, <2>2 DEF TypeOK, Activations
  <2>5. FrameInv'
    BY <1>0, <2>1 DEF FrameInv
  <2>6. TopInv' /\ TransInv' /\ ReadyInv' /\ NestedInv'
    BY <2>1, <2>2, <2>3 DEF TopInv, TransInv, ReadyInv, NestedInv
  <2> QED
    BY <2>4, <2>5, <2>6 DEF Parts
<1>12. CASE CoAwait
  <2>1. /\ Depth > 0 /\ Top.at = "loop" /\ Top.k = i /\ i \in Singles /\ i <= Count
        /\ task = "running"
    BY <1>0, <1>1, <1>3, <1>12 DEF CoAwait, MakeSingle, TopInv
  <2>2. /\ frame' = [frame EXCEPT ![i] = "suspended"] /\ UNCHANGED <<build, i, done_>>
        /\ task_handle_' = [task_handle_ EXCEPT ![i] = TRUE] /\ task' = "suspended"
        /\ stack' = StartSingle
    BY <1>12 DEF CoAwait, MakeSingle
  <2>3. frame'[i] = "suspended" /\ task_handle_'[i] /\ ~done_'[i]
    BY <1>0, <2>1, <2>2 DEF FrameInv
  <2>4. /\ At("body", i) \in Activations /\ "awaited" \in Places
        /\ At("body", i).at = "body" /\ At("body", i).k = i
    BY <1>2, <1>4, <2>1
  <2>5. /\ stack' \in Seq(Activations) /\ Top' = At("body", i)
        /\ Depth' = IF build = "trans" THEN Depth ELSE Depth + 1
        /\ build # "trans" => stack'[Depth] = At("awaited", i)
        /\ \A n \in 1..(Depth - 1) : stack'[n] = stack[n]
    <3>1. CASE build = "trans"
      <4>1. stack' = Transfer(At("body", i))
        BY <2>2, <3>1 DEF StartSingle
      <4> QED
        BY <1>0, <2>1, <2>4, <3>1, <4>1, StackSteps DEF Top, Depth
    <3>2. CASE build # "trans"
      <4>1. stack' = Call("awaited", At("body", i))
        BY <2>2, <3>2 DEF StartSingle
      <4>2. /\ stack' \in Seq(Activations) /\ Len(stack') = Depth + 1
            /\ stack'[Depth + 1] = At("body", i) /\ stack'[Depth] = At("awaited", i)
            /\ \A n \in 1..(Depth - 1) : stack'[n] = stack[n]
        BY <1>0, <2>1, <2>4, <4>1, CallSteps
      <4> QED
        BY <3>2, <4>2 DEF Top, Depth
    <3> QED
      BY <3>1, <3>2
  <2>6. TypeOK'
    BY <1>0, <1>5, <2>2, <2>5 DEF TypeOK, Activations
  <2>7. FrameInv'
    BY <1>0, <1>1, <2>2, <2>4, <2>5 DEF FrameInv
  <2>8. TopInv'
    <3>1. \A n \in 1..(Depth' - 1) : stack'[n].at \in {"awaited", "unwind"}
      BY SMTT(30), <1>0, <1>1, <2>5 DEF TopInv, At
    <3> QED
      BY <1>1, <2>1, <2>2, <2>3, <2>4, <2>5, <3>1 DEF TopInv
  <2>9. TransInv' /\ NestedInv'
    BY <1>0, <1>1, <2>1, <2>2, <2>4, <2>5 DEF TransInv, NestedInv
  <2>10. ReadyInv'
    <3>1. CASE build = "ready"
      <4>1. Depth = 1
        BY <1>0, <1>1, <2>1, <3>1 DEF ReadyInv
      <4> QED
        BY <2>2, <2>4, <2>5, <3>1, <4>1 DEF ReadyInv, At
    <3> QED
      BY <2>2, <3>1 DEF ReadyInv
  <2> QED
    BY <2>6, <2>7, <2>8, <2>9, <2>10 DEF Parts
<1>13. CASE final_suspend
  <2>1. /\ Depth > 0 /\ Top.at = "body" /\ Top.k = i /\ i \in Singles /\ i <= Count
        /\ task = "suspended" /\ task_handle_[i] /\ ~done_[i] /\ Last(stack) = Top
    BY <1>0, <1>1, <1>3, <1>13 DEF final_suspend, TopInv
  <2>2. /\ frame' = [frame EXCEPT ![i] = "final"] /\ UNCHANGED <<build, i, task_handle_>>
        /\ done_' = [done_ EXCEPT ![i] = done_[i] \/ build = "ready"]
        /\ task' = IF GoesBack(i) THEN "running" ELSE task
        /\ stack' = IF GoesBack(i) THEN BackToTask(i) ELSE Return
    BY <1>13, <2>1 DEF final_suspend
  <2>3. GoesBack(i) <=> build # "ready"
    BY <2>1 DEF GoesBack
  <2>4. frame'[i] = "final" /\ (build = "ready" => done_'[i]) /\ done_' \in [Singles -> BOOLEAN]
    BY <1>0, <2>1, <2>2
  <2>5. /\ At("resumed", i) \in Activations /\ "unwind" \in Places
        /\ At("resumed", i).at = "resumed" /\ At("resumed", i).k = i
    BY <1>2, <1>4, <2>1
  <2>6. ASSUME Top'.at # "loop" PROVE FrameInv'
    <3>1. task' # "initial"
      BY <2>1, <2>2
    <3> QED
      BY <1>0, <1>1, <2>1, <2>2, <2>6, <3>1 DEF FrameInv
  <2>7. CASE build = "trans"
    <3>1. stack' = Transfer(At("resumed", i)) /\ task' = "running"
      BY <2>2, <2>3, <2>7 DEF BackToTask
    <3>2. /\ stack' \in Seq(Activations) /\ Depth' = Depth /\ Top' = At("resumed", i)
          /\ \A n \in 1..(Depth - 1) : stack'[n] = stack[n]
      BY SMTT(30), <1>0, <2>1, <2>5, <3>1, StackSteps DEF Top, Depth
    <3>3. TypeOK'
      BY <1>0, <1>5, <2>2, <2>4, <3>1, <3>2 DEF TypeOK, Activations
    <3>4. TopInv' /\ TransInv' /\ ReadyInv' /\ NestedInv'
      BY <1>0, <2>1, <2>2, <2>4, <2>5, <2>7, <3>1, <3>2
         DEF TopInv, TransInv, ReadyInv, NestedInv
    <3> QED
      BY <2>5, <2>6, <3>2, <3>3, <3>4 DEF Parts
  <2>8. CASE build = "resume"
    <3>1. stack' = Call("unwind", At("resumed", i)) /\ task' = "running"
      BY <2>2, <2>3, <2>8 DEF BackToTask
    <3>2. /\ stack' \in Seq(Activations) /\ Len(stack') = Depth + 1
          /\ stack'[Depth + 1] = At("resumed", i) /\ stack'[Depth] = At("unwind", i)
          /\ \A n \in 1..(Depth - 1) : stack'[n] = stack[n]
      BY <1>0, <2>1, <2>5, <3>1, CallSteps
    <3>3. Depth' = Depth + 1 /\ Top' = At("resumed", i)
      BY <3>2 DEF Top, Depth
    <3>4. TypeOK'
      BY <1>0, <1>5, <2>2, <2>4, <3>1, <3>2 DEF TypeOK, Activations
    <3>5. \A n \in 1..(Depth' - 1) : stack'[n].at \in {"awaited", "unwind"}
      BY <1>0, <1>1, <3>2, <3>3 DEF TopInv, At
    <3>6. TopInv'
      BY <1>1, <2>1, <2>2, <2>4, <2>5, <3>1, <3>3, <3>5 DEF TopInv
    <3>7. TransInv' /\ ReadyInv' /\ NestedInv'
      BY <1>0, <1>1, <2>1, <2>2, <2>5, <2>8, <3>3 DEF TransInv, ReadyInv, NestedInv
    <3> QED
      BY <2>5, <2>6, <3>3, <3>4, <3>6, <3>7 DEF Parts
  <2>9. CASE build = "ready"
    <3>1. stack' = Return /\ task' = "suspended" /\ Depth = 2
          /\ stack[1] = [at |-> "awaited", k |-> i]
      BY <1>0, <1>1, <2>1, <2>2, <2>3, <2>9 DEF ReadyInv
    <3>2. stack' \in Seq(Activations) /\ Len(stack') = 1 /\ stack'[1] = stack[1]
      BY <1>0, <3>1, StackSteps
    <3>3. Depth' = 1 /\ Top' = [at |-> "awaited", k |-> i]
      BY <3>1, <3>2 DEF Top, Depth
    <3>4. Top'.at = "awaited" /\ Top'.k = i
      BY <3>3
    <3>5. TypeOK'
      BY <1>0, <1>5, <2>2, <2>4, <3>1, <3>2 DEF TypeOK, Activations
    <3>6. TopInv' /\ TransInv' /\ ReadyInv' /\ NestedInv'
      BY <2>1, <2>2, <2>4, <2>9, <3>1, <3>3, <3>4 DEF TopInv, TransInv, ReadyInv, NestedInv
    <3> QED
      BY <2>6, <3>4, <3>5, <3>6 DEF Parts
  <2> QED
    BY <1>0, <2>7, <2>8, <2>9 DEF Builds
<1>14. ASSUME Depth > 0, stack' = Return, build = "resume", i = Count + 1, task' = "final",
              UNCHANGED <<build, i, frame, task_handle_>>, done_' \in [Singles -> BOOLEAN]
       PROVE  TypeOK' /\ Parts'
  <2>1. /\ stack' \in Seq(Activations) /\ Len(stack') = Depth - 1
        /\ \A n \in 1..(Depth - 1) : stack'[n] = stack[n]
    BY <1>0, <1>14, StackSteps
  <2>2. TypeOK'
    BY <1>0, <1>14, <2>1 DEF TypeOK, Activations
  <2>3. Depth' = Depth - 1
    BY <2>1 DEF Depth
  <2>4. Depth' > 0 => Top'.at \in {"awaited", "unwind"}
    <3>1. ASSUME Depth' > 0 PROVE stack'[Depth - 1].at \in {"awaited", "unwind"}
      <4>1. Depth - 1 \in 1..(Depth - 1)
        BY <1>1, <2>3, <3>1
      <4> QED
        BY <1>0, <2>1, <4>1 DEF TopInv
    <3> QED
      BY <2>3, <3>1 DEF Top
  <2>5. FrameInv'
    BY <1>0, <1>1, <1>14 DEF FrameInv
  <2>6. TopInv'
    <3>1. ASSUME NEW n \in 1..(Depth' - 1) PROVE stack'[n].at \in {"awaited", "unwind"}
      <4>1. n \in 1..(Depth - 1)
        BY <1>1, <2>3
      <4> QED
        BY <1>0, <2>1, <4>1 DEF TopInv
    <3> QED
      BY <1>14, <2>4, <3>1 DEF TopInv
  <2>7. TransInv' /\ ReadyInv' /\ NestedInv'
    BY <1>0, <1>1, <1>14, <2>3, <2>4 DEF TransInv, ReadyInv, NestedInv
  <2> QED
    BY <2>2, <2>5, <2>6, <2>7 DEF Parts
<1>15. CASE Unwind
  <2>1. Depth > 0 /\ Top.at = "unwind"
    BY <1>3, <1>15 DEF Unwind
  <2>2. build = "resume" /\ i = Count + 1 /\ task = "final"
    BY <1>0, <2>1 DEF TransInv, ReadyInv, NestedInv, Builds
  <2> QED
    BY <1>0, <1>14, <1>15, <2>1, <2>2 DEF Unwind
<1>16. CASE Awaited
  <2>1. Depth > 0 /\ Top.at = "awaited" /\ Last(stack) = Top /\ Top.k \in Singles
    BY <1>3, <1>16 DEF Awaited
  <2>2. CASE build = "ready"
    <3>1. Top.k = i /\ i <= Count /\ frame[i] = "final" /\ done_[i] /\ Depth = 1
      BY <1>0, <1>1, <2>1, <2>2 DEF ReadyInv
    <3>2. /\ done_' = [done_ EXCEPT ![i] = TRUE] /\ task' = "running" /\ stack' = Stay("resumed")
          /\ UNCHANGED <<build, i, frame, task_handle_>>
      BY <1>16, <2>1, <2>2, <3>1 DEF Awaited
    <3>3. /\ stack' \in Seq(Activations) /\ Len(stack') = Depth
          /\ stack'[Depth] = At("resumed", i)
      BY <1>0, <1>4, <2>1, <3>1, <3>2, StackSteps
    <3>4. Depth' = 1 /\ Top' = At("resumed", i)
      BY <3>1, <3>3 DEF Top, Depth
    <3>5. Top'.at = "resumed"
      BY <3>4 DEF At
    <3>6. TypeOK'
      BY <1>0, <3>2, <3>3 DEF TypeOK, Activations
    <3>7. FrameInv'
      BY <1>0, <1>1, <3>1, <3>2, <3>5 DEF FrameInv
    <3>8. TopInv' /\ TransInv' /\ ReadyInv' /\ NestedInv'
      BY <2>2, <3>1, <3>2, <3>4, <3>5 DEF TopInv, TransInv, ReadyInv, NestedInv
    <3> QED
      BY <3>6, <3>7, <3>8 DEF Parts
  <2>3. CASE build # "ready"
    <3>1. build = "resume" /\ i = Count + 1 /\ task = "final"
      BY <1>0, <2>1, <2>3 DEF TransInv, NestedInv, Builds
    <3>2. /\ done_' = [done_ EXCEPT ![Top.k] = done_[Top.k] \/ build = "ready"]
          /\ task' = task /\ stack' = Return
          /\ UNCHANGED <<build, i, frame, task_handle_>>
      BY <1>16, <2>1, <2>3 DEF Awaited
    <3> QED
      BY <1>0, <1>14, <2>1, <3>1, <3>2
  <2> QED
    BY <2>2, <2>3
<1>17. CASE EndIteration
  <2>1. /\ Depth > 0 /\ Top.at = "resumed" /\ i <= Count /\ i \in Singles /\ frame[i] = "final"
        /\ task = "running"
    BY <1>0, <1>1, <1>3, <1>17 DEF EndIteration, TopInv
  <2> DEFINE to == At("loop", IF i < Count THEN i + 1 ELSE i)
  <2>2. /\ frame' = [frame EXCEPT ![i] = "destroyed"] /\ i' = i + 1 /\ stack' = Transfer(to)
        /\ UNCHANGED <<build, task, task_handle_, done_>>
    BY <1>17 DEF EndIteration
  <2>3. (IF i < Count THEN i + 1 ELSE i) \in Singles
    BY <1>0, <1>1, <2>1
  <2>4. to \in Activations /\ to.at = "loop" /\ to.k = IF i < Count THEN i + 1 ELSE i
    BY <1>2, <1>4, <2>3
  <2> HIDE DEF to
  <2>5. /\ stack' \in Seq(Activations) /\ Len(stack') = Depth /\ stack'[Depth] = to
        /\ \A n \in 1..(Depth - 1) : stack'[n] = stack[n]
    BY <1>0, <2>1, <2>2, <2>4, StackSteps
  <2>6. Depth' = Depth /\ Top' = to
    BY <2>5 DEF Top, Depth
  <2>7. TypeOK'
    BY <1>0, <1>5, <2>1, <2>2, <2>5 DEF TypeOK, Activations
  <2>8. FrameInv'
    BY <1>0, <1>1, <2>1, <2>2 DEF FrameInv
  <2>9. TopInv'
    BY <1>0, <1>1, <2>1, <2>2, <2>4, <2>5, <2>6 DEF TopInv
  <2>10. TransInv' /\ ReadyInv' /\ NestedInv'
    BY <1>0, <1>1, <2>1, <2>2, <2>4, <2>6 DEF TransInv, ReadyInv, NestedInv
  <2> QED
    BY <2>7, <2>8, <2>9, <2>10 DEF Parts
<1>18. CASE CoReturn
  <2>1. Depth > 0 /\ Top.at = "loop" /\ i = Count + 1
    BY <1>0, <1>3, <1>18 DEF CoReturn
  <2>2. /\ task' = "final" /\ stack' = Return
        /\ UNCHANGED <<build, i, frame, task_handle_, done_>>
    BY <1>18 DEF CoReturn
  <2>3. CASE build = "resume"
    BY <1>0, <1>14, <2>1, <2>2, <2>3
  <2>4. CASE build # "resume"
    <3>1. Depth = 1
      BY <1>0, <1>1, <2>1, <2>4 DEF TransInv, ReadyInv, Builds
    <3>2. stack' \in Seq(Activations) /\ Depth' = 0
      BY <1>0, <2>1, <2>2, <3>1, StackSteps DEF Depth
    <3>3. TypeOK'
      BY <1>0, <2>2, <3>2 DEF TypeOK, Activations
    <3>4. FrameInv'
      BY <1>0, <1>1, <2>1, <2>2 DEF FrameInv
    <3>5. TopInv' /\ TransInv' /\ ReadyInv' /\ NestedInv'
      BY <2>1, <2>2, <2>4, <3>2 DEF TopInv, TransInv, ReadyInv, NestedInv
    <3> QED
      BY <3>3, <3>4, <3>5 DEF Parts
  <2> QED
    BY <2>3, <2>4
<1>19. CASE main_return
  <2>1. /\ task # "initial" /\ stack = <<>> /\ task' = "destroyed"
        /\ UNCHANGED <<build, i, frame, task_handle_, done_, stack>>
    BY <1>19 DEF main_return
  <2>2. Depth = 0 /\ Depth' = 0
    BY <2>1 DEF Depth
  <2>3. TypeOK'
    BY <1>0, <2>1 DEF TypeOK, Activations
  <2>4. FrameInv'
    BY <1>0, <2>1, <2>2 DEF FrameInv
  <2>5. TopInv' /\ TransInv' /\ ReadyInv' /\ NestedInv'
    BY <1>0, <2>1, <2>2 DEF TopInv, TransInv, ReadyInv, NestedInv
  <2> QED
    BY <2>3, <2>4, <2>5 DEF Parts
<1> QED
  BY <1>10, <1>11, <1>12, <1>13, <1>15, <1>16, <1>17, <1>18, <1>19 DEF Next

\* The programs start with nothing made and an empty stack.
LEMMA SInvInit ==
  ASSUME Count \in Nat \ {0}, Init PROVE SInv
<1>1. /\ i = 1 /\ task = "initial" /\ stack = <<>> /\ Depth = 0 /\ build \in Builds
      /\ \A k \in Singles : frame[k] = "none" /\ ~done_[k]
  BY DEF Init, Depth
<1>2. TypeOK
  <2>1. stack \in Seq([at : TaskPlaces \cup SinglePlaces, k : Singles])
    BY <1>1
  <2> QED
    BY <1>1, <2>1 DEF Init, TypeOK, FrameStates
<1>3. FrameInv
  BY <1>1 DEF FrameInv, Singles
<1>4. TopInv /\ TransInv /\ ReadyInv /\ NestedInv
  BY <1>1 DEF TopInv, TransInv, ReadyInv, NestedInv, TopAt
<1> QED
  BY <1>2, <1>3, <1>4 DEF SInv

-----------------------------------------------------------------------------
(* What follows *)

\* The three builds keep their types: the loop ends after Count iterations, and
\* every activation concerns one of its single tasks.
THEOREM SyncTypeCorrect == ASSUME Count \in Nat \ {0} PROVE Spec => []TypeOK
<1>1. SInv => TypeOK
  BY DEF SInv
<1>2. Init => SInv
  BY SInvInit
<1>3. SInv /\ [Next]_vars => SInv'
  BY SInvStep
<1> QED
  BY <1>1, <1>2, <1>3, PTL DEF Spec

\* No single task runs, and no awaiter of the SYMMETRIC build exchanges the flag,
\* in a frame that has been destroyed.
THEOREM FramesOutliveUse == ASSUME Count \in Nat \ {0} PROVE Spec => []FramesAlive
<1>1. SInv => FramesAlive
  <2> SUFFICES ASSUME SInv, NEW n \in DOMAIN stack,
                      stack[n].at = "body" \/ (stack[n].at = "awaited" /\ build = "ready")
               PROVE  frame[stack[n].k] \in {"suspended", "final"}
    BY DEF FramesAlive
  <2>1. TopInv /\ ReadyInv /\ stack \in Seq(Activations)
    BY DEF SInv, TypeOK, Activations
  <2>2. Depth \in Nat /\ n \in 1..Depth /\ Depth > 0
    BY <2>1 DEF Depth
  <2>3. CASE n = Depth
    <3>1. Top = stack[n]
      BY <2>3 DEF Top
    <3> QED
      BY <2>1, <2>2, <3>1 DEF TopInv, ReadyInv, TopAt
  <2>4. CASE n # Depth
    <3>1. stack[n].at \in {"awaited", "unwind"}
      BY <2>1, <2>2, <2>4 DEF TopInv
    <3>2. build = "ready" /\ Depth = 2 /\ n = 1
      BY <2>1, <2>2, <2>4, <3>1 DEF ReadyInv
    <3>3. stack[n] = [at |-> "awaited", k |-> i]
      BY <2>1, <3>2 DEF ReadyInv
    <3>4. frame[i] = "suspended"
      BY <2>1, <3>2 DEF ReadyInv, TopInv, TopAt
    <3> QED
      BY <3>3, <3>4
  <2> QED
    BY <2>3, <2>4
<1>2. Init => SInv
  BY SInvInit
<1>3. SInv /\ [Next]_vars => SInv'
  BY SInvStep
<1> QED
  BY <1>1, <1>2, <1>3, PTL DEF Spec

\* In the SYMMETRIC build of symmetric_resume.cpp the final awaiter never
\* resumes the task.
THEOREM FinalResumeNeverRuns == ASSUME Count \in Nat \ {0} PROVE Spec => []FinalResumeIsDead
<1>1. SInv => FinalResumeIsDead
  <2> SUFFICES ASSUME SInv, build = "ready", NEW n \in DOMAIN stack PROVE stack[n].at # "unwind"
    BY DEF FinalResumeIsDead
  <2>1. ReadyInv /\ stack \in Seq(Activations)
    BY DEF SInv, TypeOK, Activations
  <2>2. Depth \in Nat /\ n \in 1..Depth /\ Depth > 0
    BY <2>1 DEF Depth
  <2>3. CASE n = Depth
    BY <2>1, <2>2, <2>3 DEF ReadyInv, TopAt, Top
  <2>4. CASE n # Depth
    <3>1. Depth = 2 /\ n = 1
      BY <2>1, <2>2, <2>4 DEF ReadyInv
    <3>2. stack[n] = [at |-> "awaited", k |-> i]
      BY <2>1, <3>1 DEF ReadyInv
    <3> QED
      BY <3>2
  <2> QED
    BY <2>3, <2>4
<1>2. Init => SInv
  BY SInvInit
<1>3. SInv /\ [Next]_vars => SInv'
  BY SInvStep
<1> QED
  BY <1>1, <1>2, <1>3, PTL DEF Spec

\* With symmetric transfer the stack never holds more than one activation and
\* with the flag two, however many iterations there are; nested resumes add two
\* for each iteration.
THEOREM StackStaysShallow == ASSUME Count \in Nat \ {0} PROVE Spec => []StackDepth
<1>1. SInv => StackDepth
  BY DEF SInv, TypeOK, Builds, StackDepth, TransInv, ReadyInv, NestedInv, Depth
<1>2. Init => SInv
  BY SInvInit
<1>3. SInv /\ [Next]_vars => SInv'
  BY SInvStep
<1> QED
  BY <1>1, <1>2, <1>3, PTL DEF Spec

\* What a client of co_await sees of a single task, by the state of its frame.
Seen == [none |-> "none", suspended |-> "made", final |-> "ran", destroyed |-> "none"]

Loop == INSTANCE AwaitLoop WITH
  single <- IF i > Count THEN "none" ELSE Seen[frame[i]]

\* The three ways to go from one coroutine to the other look the same to a client
\* of co_await: each build implements AwaitLoop.
THEOREM SyncImplementsLoop == ASSUME Count \in Nat \ {0} PROVE Spec => Loop!Spec
<1> USE DEF Seen
<1>1. Init => Loop!Init
  BY DEF Init, Loop!Init, Singles
<1>2. SInv /\ [Next]_vars => [Loop!Next]_Loop!vars
  <2> SUFFICES ASSUME SInv, [Next]_vars PROVE [Loop!Next]_Loop!vars
    OBVIOUS
  <2>1. /\ i \in 1..(Count + 1) /\ DOMAIN frame = Singles /\ FrameInv /\ TopInv
        /\ stack \in Seq(Activations)
    BY DEF SInv, TypeOK, Activations
  <2>2. ASSUME NEW p, Running(p) PROVE Depth > 0 /\ Top.at = p /\ Last(stack) = Top
    <3>1. Depth > 0
      BY <2>1, <2>2 DEF Running, Depth
    <3> QED
      BY <2>1, <2>2, <3>1, StackSteps DEF Running
  <2>3. CASE UNCHANGED <<i, frame>>
    BY <2>3 DEF Loop!vars
  <2>4. CASE CoAwait
    <3>1. /\ i <= Count /\ i' = i /\ frame' = [frame EXCEPT ![i] = "suspended"]
          /\ TopAt({"loop"})
      BY <2>2, <2>4 DEF CoAwait, MakeSingle, TopAt
    <3>2. i \in Singles /\ frame[i] = "none"
      BY <2>1, <3>1 DEF FrameInv, Singles
    <3>3. frame'[i] = "suspended"
      BY <2>1, <3>1, <3>2
    <3>4. Loop!Make
      BY <2>1, <3>1, <3>2, <3>3 DEF Loop!Make
    <3> QED
      BY <3>4 DEF Loop!Next
  <2>5. CASE final_suspend
    <3>1. Top.k = i /\ i <= Count /\ frame[i] = "suspended" /\ Last(stack) = Top
      BY <2>1, <2>2, <2>5 DEF final_suspend, TopInv, TopAt
    <3>2. i' = i /\ frame' = [frame EXCEPT ![i] = "final"]
      BY <2>5, <3>1 DEF final_suspend
    <3>3. frame'[i] = "final"
      BY <2>1, <3>1, <3>2 DEF Singles
    <3>4. Loop!Run
      BY <2>1, <3>1, <3>2, <3>3 DEF Loop!Run
    <3> QED
      BY <3>4 DEF Loop!Next
  <2>6. CASE EndIteration
    <3>1. i <= Count /\ frame[i] = "final"
      BY <2>1, <2>2, <2>6 DEF EndIteration, TopInv, TopAt
    <3>2. i' = i + 1 /\ frame' = [frame EXCEPT ![i] = "destroyed"]
      BY <2>6 DEF EndIteration
    <3>3. i' <= Count => frame'[i'] = "none"
      BY <2>1, <3>2 DEF FrameInv, Singles
    <3>4. Loop!Continue
      BY <2>1, <3>1, <3>2, <3>3 DEF Loop!Continue
    <3> QED
      BY <3>4 DEF Loop!Next
  <2> QED
    BY <2>3, <2>4, <2>5, <2>6
       DEF Next, main, Unwind, Awaited, CoReturn, main_return, vars
<1>3. Init => SInv
  BY SInvInit
<1>4. SInv /\ [Next]_vars => SInv'
  BY SInvStep
<1> QED
  BY <1>1, <1>2, <1>3, <1>4, PTL DEF Spec, Loop!Spec

=============================================================================
