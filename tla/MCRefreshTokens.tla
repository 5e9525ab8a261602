---------------------------- MODULE MCRefreshTokens ---------------------------
(* Instances of RefreshTokens for TLC. *)
EXTENDS RefreshTokens, TLC

Symmetry == Permutations(Handlers) \cup Permutations(Emails) \cup Permutations(Tokens)
===============================================================================
