------------------------------- MODULE MCScreens -------------------------------
(***************************************************************************)
(* The screens of the mobile app for TLC.  They share no state, so that a  *)
(* behaviour follows one of them and shows the others as they are when     *)
(* nobody is signed in.                                                    *)
(***************************************************************************)
EXTENDS Screens, TLC

CONSTANTS
    ann, bob,                  \* users
    e1, e2, r1, r2,            \* an event and a rule of each
    a1, a2, b1,                \* names of their rules
    i1, i1x, i2                \* e1, written in two ways, and e2

VARIABLE followed

NoCalls == [c \in Calls |-> None]

EventsLeft ==
    /\ e_queue = E!NoRows /\ e_view = "empty" /\ e_items = E!NoRows /\ e_filter = None
    /\ e_live = FALSE /\ e_timer = FALSE
    /\ e_demoBusy = FALSE /\ e_pc = "none" /\ e_left = 0 /\ e_created = None /\ e_rounds = 0
    /\ e_loads = NoCalls /\ e_closed = TRUE /\ e_forsaken = FALSE /\ e_faults = 0 /\ e_retries = 0

DetailLeft ==
    /\ d_status = "processed" /\ d_view = "ready" /\ d_seen = "processed" /\ d_poll = FALSE
    /\ d_calls = NoCalls /\ d_closed = TRUE /\ d_faults = 0 /\ d_retries = 0

HealthLeft ==
    /\ h_auth = "out" /\ h_timers = 0 /\ h_view = "idle" /\ h_health = FALSE
    /\ h_calls = NoCalls /\ h_up = TRUE /\ h_faults = 0 /\ h_changes = 0

RulesLeft ==
    /\ r_table = R!NoRules /\ r_view = "empty" /\ r_items = R!NoRules
    /\ r_error = FALSE /\ r_busy = FALSE /\ r_sheet = None
    /\ r_calls = NoCalls /\ r_closed = TRUE
    /\ r_overlapped = FALSE /\ r_foreign = {} /\ r_faults = 0

\* bob does not ask for summaries: his event has been processed, and ann's has not.
ExplainOpened ==
    /\ Init
    /\ event[e1].status = "pending" /\ event[e2].status = "processed"

ExplainLeft ==
    /\ event = [e \in Events |-> [status |-> "processed", rule |-> None]]
    /\ name = [r \in Rules |-> None]
    /\ call = NoCalls /\ audit = {} /\ me = ann /\ asked = <<>>
    /\ view = "error" /\ shown = Nothing /\ closed = TRUE /\ faults = 0

Others(screens) ==
    /\ screens # "events"  => EventsLeft
    /\ screens # "detail"  => DetailLeft
    /\ screens # "health"  => HealthLeft
    /\ screens # "rules"   => RulesLeft
    /\ screens # "explain" => ExplainLeft

ScreensInit ==
    /\ followed \in {"events", "detail", "health", "rules", "explain"}
    /\ Others(followed)
    /\ CASE followed = "events"  -> E!Init
         [] followed = "detail"  -> D!Init
         [] followed = "health"  -> H!Init
         [] followed = "rules"   -> R!Init
         [] followed = "explain" -> ExplainOpened

ScreensNext ==
    \/ followed = "events" /\ E!Next /\ UNCHANGED <<followed, d_vars, h_vars, r_vars, s_vars>>
    \/ followed = "detail" /\ D!Next /\ UNCHANGED <<followed, e_vars, h_vars, r_vars, s_vars>>
    \/ followed = "health" /\ H!Next /\ UNCHANGED <<followed, e_vars, d_vars, r_vars, s_vars>>
    \/ followed = "rules" /\ R!Next /\ UNCHANGED <<followed, e_vars, d_vars, h_vars, s_vars>>
    \/ followed = "explain" /\ Next /\ UNCHANGED <<followed, e_vars, d_vars, h_vars, r_vars>>

ScreensSpec ==
    ScreensInit /\ [][ScreensNext]_<<followed, e_vars, d_vars, h_vars, r_vars, s_vars>>

\* Calls are interchangeable, and so are the names of rules of ann.
Symmetry == Permutations(Calls) \cup Permutations({a1, a2})

MCOwner == (e1 :> ann) @@ (r1 :> ann) @@ (a1 :> ann) @@ (a2 :> ann)
             @@ (e2 :> bob) @@ (r2 :> bob) @@ (b1 :> bob)
MCUuid == (i1 :> e1) @@ (i1x :> e1) @@ (i2 :> e2)
MCText == (e1 :> i1) @@ (e2 :> i2)
MCRequests == {<<>>, <<i1>>, <<Blank, i1x, i1x>>, <<i1, i2>>, <<i1, i1x, i2>>}
===============================================================================
