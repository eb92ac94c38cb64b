------------------------------- MODULE Futex -------------------------------
(***************************************************************************)
(* The futex as userspace sees it through futex_syscall (kernel/syscall.h):*)
(* FUTEX_WAIT compares the word and puts the caller to sleep in one atomic *)
(* step, FUTEX_WAKE wakes at most n of the threads asleep on the word.     *)
(*                                                                         *)
(* The repository holds two handlers for the two operations and Blocking   *)
(* says which one a specification runs over:                               *)
(*   TRUE   a handler that really blocks, as kernel/k_futex.h promises     *)
(*          ("futex_wait(addr, val) -> sleep if *addr == val"); module     *)
(*          KFutex models that handler step by step;                       *)
(*   FALSE  the empty stubs of kernel/syscall.h: FUTEX_WAIT returns 0 at   *)
(*          once and FUTEX_WAKE wakes nobody.                              *)
(* Userspace only ever passes 1 or INT_MAX to FUTEX_WAKE.                  *)
(***************************************************************************)

CONSTANTS
  Threads,   \* the threads that make futex calls
  Words,     \* the futex words (addresses)
  NoWord,    \* "not asleep on any word"
  Blocking   \* TRUE: k_futex.h's semantics; FALSE: the stubs of syscall.h

ASSUME FutexAssumption ==
  /\ NoWord \notin Words
  /\ Blocking \in BOOLEAN

VARIABLE asleep  \* asleep[t]: the word on which t is suspended, or NoWord

FutexTypeOK == asleep \in [Threads -> Words \cup {NoWord}]

FutexInit == asleep = [t \in Threads |-> NoWord]

Awake(t) == asleep[t] = NoWord

Sleepers(w) == {t \in Threads : asleep[t] = w}

\* futex_syscall(SYS_futex, w, FUTEX_WAIT, val); equal is *w == val, evaluated
\* in the same step as the enqueue.
FutexWait(t, w, equal) ==
  asleep' = IF Blocking /\ equal THEN [asleep EXCEPT ![t] = w] ELSE asleep

\* futex_syscall(SYS_futex, w, FUTEX_WAKE, 1): which sleeper is left open.
FutexWakeOne(w) ==
  \/ Sleepers(w) = {} /\ UNCHANGED asleep
  \/ \E s \in Sleepers(w) : asleep' = [asleep EXCEPT ![s] = NoWord]

\* futex_syscall(SYS_futex, w, FUTEX_WAKE, INT_MAX)
FutexWakeAll(w) ==
  asleep' = [t \in Threads |-> IF asleep[t] = w THEN NoWord ELSE asleep[t]]

=============================================================================
