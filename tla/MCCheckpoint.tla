----------------------------- MODULE MCCheckpoint -----------------------------
(* Checkpoint with two interchangeable tabs.                                 *)
EXTENDS Checkpoint, TLC

TabSymmetry == Permutations(Tabs)
=============================================================================
