------------------------------ MODULE MCDesignLock ------------------------------
(* Small instances of DesignLock for TLC: c3 repeats the save of c1. *)
EXTENDS DesignLock

CONSTANTS c1, c2, c3, r0, r1, r2

Saves == [c \in Calls |-> IF c = c2 THEN r2 ELSE r1]
=============================================================================
