------------------------------ MODULE MCRuleBook ------------------------------
(***************************************************************************)
(* Instances of RuleBook for TLC: rules with and without a threshold of    *)
(* 100, patches of a field each, and events on both sides of the threshold.*)
(***************************************************************************)
EXTENDS RuleBook, TLC

CONSTANTS ann, bob, equal, absent, null, other, demo1, demo2

MCInputs ==
    {[name |-> "a", type |-> "balance_drop", threshold |-> Null, enabled |-> TRUE]}

Omit == [name |-> None, type |-> None, threshold |-> None, enabled |-> None]
MCPatches == {[Omit EXCEPT !.threshold = Null], [Omit EXCEPT !.threshold = 1000],
              [Omit EXCEPT !.enabled = FALSE], [Omit EXCEPT !.type = "swap_quote"]}
MCFewPatches == {[Omit EXCEPT !.threshold = Null], [Omit EXCEPT !.enabled = FALSE]}

Arrival(k, n) == [user |-> ann, type |-> "balance_drop", payload |-> [kind |-> k, n |-> n], place |-> 0]
MCEvent == (equal :> Arrival("number", 1000)) @@ (absent :> Arrival("absent", 0))
             @@ (null :> Arrival("null", 0)) @@ (other :> Arrival("other", 0))
             @@ (demo1 :> Simulated(ann, 1)) @@ (demo2 :> Simulated(ann, 2))
MCNoEvent == <<>>
\* An event of a provider, or a simulation and its events.
MCOffers == {{equal}, {absent}, {null}, {other}, {demo1, demo2}}

Symmetry == Permutations(Handlers) \cup Permutations(Rules)
===============================================================================
