------------------------------ MODULE Generator ------------------------------
(***************************************************************************)
(* generator.cpp: a generator coroutine whose frame is shared by consumer  *)
(* threads. Each consumer resumes it and reads the value in its promise,   *)
(* Rounds times, under one mutex; main joins the consumers, resumes it     *)
(* once more and destroys it. Resuming a coroutine that runs or has        *)
(* finished, and reading the value while it is written, are undefined.     *)
(***************************************************************************)
EXTENDS Integers, Sequences, FiniteSets

CONSTANTS
  Consumers,  \* the consumer threads
  NoOne,      \* the mutex is free
  Rounds,     \* how often each consumer resumes the generator
  Yields      \* how many values the generator yields, one for each such resume

\* What the program makes of the constants: the loop yields as many values as
\* the consumers look up in all (generator.cpp:53, 68, 80-81).
Sizes ==
  /\ IsFiniteSet(Consumers) /\ NoOne \notin Consumers
  /\ Rounds \in Nat /\ Yields = Rounds * Cardinality(Consumers)

VARIABLES
  co,         \* the coroutine: suspended, running, final or destroyed
  i,          \* the loop variable in its frame; 0 before the first resume
  val,        \* the value in its promise
  mtx,        \* the owner of mtx_generator
  at,         \* where each consumer is
  round,      \* how many rounds each consumer has finished
  main,       \* where main is
  seen        \* history: the values looked up, in order

vars == <<co, i, val, mtx, at, round, main, seen>>

TypeOK ==
  /\ co \in {"suspended", "running", "final", "destroyed"}
  /\ i \in 0..(Yields + 1) /\ val \in {10 * k : k \in 0..Yields}
  /\ mtx \in Consumers \cup {NoOne}
  /\ at \in [Consumers -> {"sleep", "resume", "inside", "lookup", "unlock"}]
  /\ round \in [Consumers -> 0..Rounds]
  /\ main \in {"join", "inside", "return", "end"}
  /\ seen \in Seq(Int)

Init ==
  /\ co = "suspended" /\ i = 0 /\ val = 0
  /\ mtx = NoOne
  /\ at = [c \in Consumers |-> "sleep"]
  /\ round = [c \in Consumers |-> 0]
  /\ main = "join" /\ seen = <<>>

Goto(c, from, to) == at[c] = from /\ at' = [at EXCEPT ![c] = to]

\* Mutant: no lock_guard.
LockNothing(c) ==
  /\ Goto(c, "sleep", "resume") /\ round[c] < Rounds
  /\ UNCHANGED <<co, i, val, mtx, round, main, seen>>

\* After its sleep the consumer locks the mutex.
Lock(c) ==
  /\ Goto(c, "sleep", "resume") /\ round[c] < Rounds
  /\ mtx = NoOne /\ mtx' = c
  /\ UNCHANGED <<co, i, val, round, main, seen>>

\* gen.handle.resume() enters the coroutine ...
Resume(c) ==
  /\ Goto(c, "resume", "inside")
  /\ co' = "running"
  /\ UNCHANGED <<i, val, mtx, round, main, seen>>

\* Mutant: yield_value forgets to save the value.
YieldNothing ==
  /\ i' = i + 1
  /\ UNCHANGED val
  /\ co' = IF i' <= Yields THEN "suspended" ELSE "final"

\* Mutant: the loop yields one value more.
YieldOneMore ==
  /\ i' = i + 1
  /\ val' = IF i' <= Yields + 1 THEN 10 * i' ELSE val
  /\ co' = IF i' <= Yields + 1 THEN "suspended" ELSE "final"

\* Mutant: the loop yields one value less, so that main finds it at its end.
YieldOneLess ==
  /\ i' = i + 1
  /\ val' = IF i' < Yields THEN 10 * i' ELSE val
  /\ co' = IF i' < Yields THEN "suspended" ELSE "final"

\* ... which runs to its next co_yield, or to its end.
Yield ==
  /\ i' = i + 1
  /\ val' = IF i' <= Yields THEN 10 * i' ELSE val
  /\ co' = IF i' <= Yields THEN "suspended" ELSE "final"

ResumeReturns(c) ==
  /\ Goto(c, "inside", "lookup")
  /\ Yield
  /\ UNCHANGED <<mtx, round, main, seen>>

Lookup(c) ==
  /\ Goto(c, "lookup", "unlock")
  /\ seen' = Append(seen, val)
  /\ UNCHANGED <<co, i, val, mtx, round, main>>

\* Mutant: the lock is never released.
UnlockNothing(c) ==
  /\ Goto(c, "unlock", "sleep")
  /\ round' = [round EXCEPT ![c] = @ + 1]
  /\ UNCHANGED <<co, i, val, mtx, main, seen>>

\* The end of the block ends the round.
Unlock(c) ==
  /\ Goto(c, "unlock", "sleep")
  /\ mtx' = NoOne
  /\ round' = [round EXCEPT ![c] = @ + 1]
  /\ UNCHANGED <<co, i, val, main, seen>>

\* main joins the consumers and resumes the generator a last time.
Join ==
  /\ main = "join" /\ \A c \in Consumers : round[c] = Rounds
  /\ main' = "inside" /\ co' = "running"
  /\ UNCHANGED <<i, val, mtx, at, round, seen>>

LastResumeReturns ==
  /\ main = "inside" /\ main' = "return"
  /\ Yield
  /\ UNCHANGED <<mtx, at, round, seen>>

\* main returns: ~generator destroys the frame.
Destroy ==
  /\ main = "return" /\ main' = "end" /\ co' = "destroyed"
  /\ UNCHANGED <<i, val, mtx, at, round, seen>>

Next ==
  \/ \E c \in Consumers :
       Lock(c) \/ Resume(c) \/ ResumeReturns(c) \/ Lookup(c) \/ Unlock(c)
  \/ Join \/ LastResumeReturns \/ Destroy

Spec == Init /\ [][Next]_vars

-----------------------------------------------------------------------------
\* Whoever is about to resume the generator finds it suspended, neither running
\* on another thread, nor at its end, nor destroyed: a consumer that has the
\* mutex (generator.cpp:72-73), and main when it has joined the consumers and
\* all of them have had their rounds (generator.cpp:86).
ResumesSuspended ==
  /\ \A c \in Consumers : at[c] = "resume" => co = "suspended"
  /\ main = "join" /\ (\A c \in Consumers : round[c] = Rounds) => co = "suspended"

\* The consumers see the values in order, each once.
ValuesInOrder == \A n \in DOMAIN seen : seen[n] = 10 * n

\* The program ends, all values seen and the coroutine at its end before it is
\* destroyed.
GeneratorEnds ==
  <>(main = "end" /\ Len(seen) = Yields /\ i = Yields + 1)

=============================================================================
