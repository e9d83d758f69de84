-------------------------- MODULE MCOperationQueue --------------------------
(* OperationQueue with three operations, one of which runs when cancelled. *)
EXTENDS OperationQueue

CONSTANTS o1, o2, o3

MCOps == {o1, o2, o3}
MCRunsWhenCancelled == {o2}
=============================================================================
