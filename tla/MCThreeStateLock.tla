-------------------------- MODULE MCThreeStateLock --------------------------
(* Instances of ThreeStateLock for TLC. *)
EXTENDS ThreeStateLock

MCWords == {"word"}

MCMutexPayloads == {0}
MCInnerPayloads == {0, 1}

=============================================================================
