------------------------------ MODULE AwaitLoop ------------------------------
(***************************************************************************)
(* What the loop of make_task_impl promises (coroutine/coro.hpp), whatever *)
(* co_await does underneath: the single tasks are made one after the other,*)
(* each runs once, and the loop goes on, destroying the single task, only  *)
(* after it has run.                                                       *)
(***************************************************************************)
EXTENDS Integers

CONSTANT Count

VARIABLES
  i,       \* the loop variable
  single   \* the single task of this iteration

vars == <<i, single>>

Init == i = 1 /\ single = "none"

Make == i <= Count /\ single = "none" /\ single' = "made" /\ UNCHANGED i

Run == single = "made" /\ single' = "ran" /\ UNCHANGED i

Continue == single = "ran" /\ single' = "none" /\ i' = i + 1

Next == Make \/ Run \/ Continue

Spec == Init /\ [][Next]_vars

=============================================================================
