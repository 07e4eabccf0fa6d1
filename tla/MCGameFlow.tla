------------------------------ MODULE MCGameFlow ------------------------------
(* GameFlow with the turn and refresh counts of the code and small scores.   *)
EXTENDS GameFlow
=============================================================================
