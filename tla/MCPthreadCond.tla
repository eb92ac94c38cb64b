--------------------------- MODULE MCPthreadCond ---------------------------
(* Instances of PthreadCond for TLC. *)
EXTENDS PthreadCond, TLC

MCThreads == Waiters \cup Signalers
MCWords == ({"g_signals", "g_refs"} \X {0, 1}) \cup {<<"wrefs", 0>>}
MCU32 == 256

\* Waiters can be exchanged with waiters, signalers with signalers.
RoleSymmetry ==
  {[t \in Threads |-> IF t \in Waiters THEN p[t] ELSE q[t]] :
     p \in Permutations(Waiters), q \in Permutations(Signalers)}

=============================================================================
