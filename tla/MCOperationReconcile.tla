-------------------------- MODULE MCOperationReconcile --------------------------
(* Small instances of OperationReconcile for TLC: one Operation with one item. *)
EXTENDS OperationReconcile

CONSTANTS a, i1
=============================================================================
