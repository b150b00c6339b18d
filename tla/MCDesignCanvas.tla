----------------------------- MODULE MCDesignCanvas -----------------------------
(* Small instances of DesignCanvas: a blank canvas and one drawing. *)
EXTENDS DesignCanvas, TLC

CONSTANTS w1, w2, blank, c1, absent, broken

OneWorker == {w1}
TwoWorkers == {w1, w2}
SmallContents == {blank, c1}
SmallDrafts == {c1}
\* Nothing tells the workers apart.
WorkerSymmetry == Permutations(TwoWorkers)
=============================================================================
