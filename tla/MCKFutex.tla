------------------------------ MODULE MCKFutex ------------------------------
(* Instances of KFutex for TLC: two words that collide in one bucket, or one *)
(* word; INT_MAX stands for "more than there are threads".                   *)
EXTENDS KFutex

INT_MAX == 9

\* The word w1 changes between two values, w2 does not.
MCVals == [w \in Words |-> IF w = "w1" THEN {0, 1} ELSE {0}]
MCCountsAll == {INT_MAX}
MCCountsBoth == {1, INT_MAX}

MCOneBucket == {1}
MCOneWord == {"w1"}
MCTwoWords == {"w1", "w2"}
MCHash == [w \in Words |-> 1]

=============================================================================
