------------------------------ MODULE JobLedger -------------------------------
(***************************************************************************)
(* What the event queue promises to the provider that posts events and to  *)
(* the user who reads them: an accepted event is worked on, one attempt at *)
(* a time, until it is done or has used up its attempts, and is then never *)
(* touched again.  Workers, claims, leases, crashes and time do not exist  *)
(* at this level.                                                          *)
(***************************************************************************)
EXTENDS Naturals

CONSTANTS Events, MaxAttempts

VARIABLES
    state,   \* absent, queued, done or dead
    tries    \* the failed attempts the user sees

vars == <<state, tries>>

Init ==
    /\ state = [e \in Events |-> "absent"]
    /\ tries = [e \in Events |-> 0]

Accept(e) ==
    /\ state[e] = "absent"
    /\ state' = [state EXCEPT ![e] = "queued"]
    /\ UNCHANGED tries

Finish(e) ==
    /\ state[e] = "queued"
    /\ state' = [state EXCEPT ![e] = "done"]
    /\ UNCHANGED tries

Fail(e) ==
    /\ state[e] = "queued"
    /\ tries[e] < MaxAttempts
    /\ tries' = [tries EXCEPT ![e] = @ + 1]
    /\ state' = [state EXCEPT ![e] = IF tries[e] + 1 = MaxAttempts THEN "dead" ELSE "queued"]

Settle(e) == Finish(e) \/ Fail(e)

Next == \E e \in Events : Accept(e) \/ Settle(e)

\* The safety half of the promise, and the whole of it: no accepted event
\* is forgotten.
SafeSpec == Init /\ [][Next]_vars
Spec == SafeSpec /\ \A e \in Events : WF_vars(Settle(e))
===============================================================================
