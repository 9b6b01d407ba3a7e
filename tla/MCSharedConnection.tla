-------------------------- MODULE MCSharedConnection -------------------------
(* Three operations: two statements, one, and one that is rejected. *)
EXTENDS SharedConnection

CONSTANTS remove, add, create

StatementCount == [t \in Tasks |-> IF t = remove THEN 2 ELSE 1]
=============================================================================
