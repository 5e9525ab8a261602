----------------------------- MODULE MCEventQueue -----------------------------
(***************************************************************************)
(* Instances of EventQueue for TLC.  Times are scaled: a back-off grows    *)
(* with the attempts, reaches its cap, and is shorter than the lease, as   *)
(* 2 s .. 60 s and 45 s do for the first 22 attempts.                      *)
(***************************************************************************)
EXTENDS EventQueue, TLC

\* The processes are interchangeable.
WorkerSymmetry == Permutations(Workers)
===============================================================================
