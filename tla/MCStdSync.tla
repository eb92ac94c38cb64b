----------------------------- MODULE MCStdSync -----------------------------
(* Instances of StdSync for TLC. *)
EXTENDS StdSync

MCWords == {"word"}
MCMutexPayloads == {0}

ThreadSymmetry == Permutations(Threads)

=============================================================================
