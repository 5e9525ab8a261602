---------------------------- MODULE MCEventsScreen ----------------------------
(***************************************************************************)
(* Instances of EventsScreen for TLC.                                      *)
(***************************************************************************)
EXTENDS EventsScreen, TLC

\* Calls are interchangeable.
Symmetry == Permutations(Loads)
===============================================================================
