-------------------------------- MODULE Screens --------------------------------
(***************************************************************************)
(* The screens of the mobile app side by side: the events list, the screen *)
(* of one event, the status bar, the rules, and the explain screen, which  *)
(* Summaries has together with the handler it asks.  They share no state:  *)
(* each is an instance of its own module.                                  *)
(***************************************************************************)
EXTENDS Summaries

CONSTANTS
    MaxReceived, PageSize, Outcomes, Picks, EventCounts, MaxRounds,    \* of the events list
    Items, Values,    \* of the rules screen: ids, and what the fields of a rule may be
    MaxListReclaims, MaxReclaims,    \* failed events claimed again, in the list and in the screen of one
    MaxPollFaults, MaxForeign, MaxChanges    \* bounds of the environment

VARIABLES
    e_queue, e_view, e_items, e_filter, e_live, e_timer, e_demoBusy, e_pc, e_left, e_created,
    e_rounds, e_loads, e_closed, e_forsaken, e_faults, e_retries,
    d_status, d_view, d_seen, d_poll, d_calls, d_closed, d_faults, d_retries,
    h_auth, h_timers, h_view, h_health, h_calls, h_up, h_faults, h_changes,
    r_table, r_view, r_items, r_error, r_busy, r_sheet, r_calls, r_closed,
    r_overlapped, r_foreign, r_faults

E == INSTANCE EventsScreen WITH MaxEvents <- MaxReceived, Loads <- Calls, MaxRetries <- MaxListReclaims,
       queue <- e_queue, view <- e_view, items <- e_items, filter <- e_filter,
       live <- e_live, timer <- e_timer, demoBusy <- e_demoBusy, pc <- e_pc,
       left <- e_left, created <- e_created, rounds <- e_rounds, loads <- e_loads,
       closed <- e_closed, forsaken <- e_forsaken, faults <- e_faults, retries <- e_retries

D == INSTANCE EventDetail WITH MaxRetries <- MaxReclaims, MaxFaults <- MaxPollFaults,
       status <- d_status, view <- d_view, seen <- d_seen, poll <- d_poll,
       calls <- d_calls, closed <- d_closed, faults <- d_faults, retries <- d_retries

H == INSTANCE HealthPoll WITH MaxFaults <- MaxPollFaults,
       auth <- h_auth, timers <- h_timers, view <- h_view, health <- h_health,
       calls <- h_calls, up <- h_up, faults <- h_faults, changes <- h_changes

R == INSTANCE RulesScreen WITH Rules <- Items,
       table <- r_table, view <- r_view, items <- r_items, error <- r_error,
       busy <- r_busy, sheet <- r_sheet, calls <- r_calls, closed <- r_closed,
       overlapped <- r_overlapped, foreign <- r_foreign, faults <- r_faults

e_vars == <<e_queue, e_view, e_items, e_filter, e_live, e_timer, e_demoBusy, e_pc, e_left,
            e_created, e_rounds, e_loads, e_closed, e_forsaken, e_faults, e_retries>>
d_vars == <<d_status, d_view, d_seen, d_poll, d_calls, d_closed, d_faults, d_retries>>
h_vars == <<h_auth, h_timers, h_view, h_health, h_calls, h_up, h_faults, h_changes>>
r_vars == <<r_table, r_view, r_items, r_error, r_busy, r_sheet, r_calls, r_closed,
            r_overlapped, r_foreign, r_faults>>

\* Nothing that is not there is mistaken for something that is.
ASSUME NothingAssumption ==
    /\ None \notin E!Statuses /\ None \notin E!Load /\ None \notin R!Calling
    /\ None \notin D!Places /\ None \notin H!Places
    /\ None # "new"
ASSUME ListAssumption ==
    /\ MaxReceived \in Nat /\ MaxRounds \in Nat /\ MaxListReclaims \in Nat
    /\ EventCounts \subseteq Nat \ {0}
    /\ Outcomes \subseteq {"processed", "failed"} /\ Picks \subseteq E!Statuses \cup {None}

\* EventsCubit: the list is polled exactly as long as something in it may change;
\* and its fields, and the demo's, agree with each other.
WatchedIffNeeded == E!TypeOK /\ E!WatchedIffNeeded

\* EventDetailCubit and OpsHealthCubit: the screen of an event says that it
\* refreshes itself exactly when it does, and one timer polls the health of the
\* API while somebody is signed in, none otherwise.
PollsIffWatched == D!PollIffActive /\ H!PolledIffSignedIn

\* RulesCubit: at rest and without an error the list is the API's.
RulesCurrent == R!ListIsCurrent

\* EventsCubit, RulesCubit, ExplainCubit: no spinner and no busy form is left
\* behind, in whatever order calls end and fail.
NothingStuck == E!SpinnerHasReason /\ R!NothingStuck /\ ExplainNotStuck
===============================================================================
