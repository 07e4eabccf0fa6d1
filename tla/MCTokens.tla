------------------------------- MODULE MCTokens -------------------------------
(* Two servers over one key file, one creation, one rotation.                *)
EXTENDS Tokens, TLC

\* The secrets and the servers are interchangeable.
TokenSymmetry == Permutations(Secrets) \cup Permutations(Servers)
=============================================================================
