---------------------------- MODULE AbstractLock ----------------------------
(***************************************************************************)
(* What three_states_lock/three_states_unlock promise their callers        *)
(* (pthread_mutex_t and the inner lock of pthread_cond_t): at most one     *)
(* owner, and the bits of the word above the lock state belong to the      *)
(* owner: nobody else changes them, and locking and unlocking keep them.   *)
(***************************************************************************)

CONSTANTS
  Threads,
  NoOwner,   \* the lock is free
  Payloads   \* values of the bits above the lock state

VARIABLES
  owner,     \* the thread that holds the lock, or NoOwner
  payload    \* the bits above the lock state

vars == <<owner, payload>>

Init == owner = NoOwner /\ payload = 0

Acquire(t) == owner = NoOwner /\ owner' = t /\ UNCHANGED payload

Update(t) == owner = t /\ payload' \in Payloads /\ UNCHANGED owner

Release(t) == owner = t /\ owner' = NoOwner /\ UNCHANGED payload

Next == \E t \in Threads : Acquire(t) \/ Update(t) \/ Release(t)

Spec == Init /\ [][Next]_vars

=============================================================================
