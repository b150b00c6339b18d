---------------------------- MODULE MCOperationStore ----------------------------
(* A small instance of OperationStore for TLC. *)
EXTENDS OperationStore, TLC

CONSTANTS s1, o1, b1, b2, c1, create, chat, t1, t2

\* Boots, tokens and ids are only compared for equality.
Symmetry == Permutations(Boots) \cup Permutations(Tokens)
=============================================================================
