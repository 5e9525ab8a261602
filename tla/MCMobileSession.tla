---------------------------- MODULE MCMobileSession ---------------------------
(***************************************************************************)
(* Instances of MobileSession for TLC.                                     *)
(***************************************************************************)
EXTENDS MobileSession, TLC

\* Calls and sessions are interchangeable.
Symmetry == Permutations(Calls) \cup Permutations(Sessions)
===============================================================================
