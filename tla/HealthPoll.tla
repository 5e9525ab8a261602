------------------------------- MODULE HealthPoll ------------------------------
(***************************************************************************)
(* The status bar of the mobile app: OpsHealthCubit asks for the health of *)
(* the API every few seconds, from every sign-in to the next sign-out.     *)
(***************************************************************************)
EXTENDS Naturals

CONSTANTS
    Calls,                   \* requests under way at a time
    None,
    MaxFaults, MaxChanges    \* bounds of the environment

VARIABLES
    auth,           \* status of AuthCubit
    timers,         \* periodic timers that fire
    view, health,   \* OpsHealthState; health is whether the API ever said it was well
    calls,          \* the calls of refresh(): None, "asked", "counting", "ok", or "unavailable"
    up,             \* the database answers the API
    faults, changes

vars == <<auth, timers, view, health, calls, up, faults, changes>>

Places == {"asked", "counting", "ok", "unavailable"}

Init ==
    /\ auth = "unknown" /\ timers = 0
    /\ view = "idle" /\ health = FALSE
    /\ calls = [c \in Calls |-> None]
    /\ up \in BOOLEAN /\ faults = 0 /\ changes = 0

Change ==
    /\ changes < MaxChanges /\ changes' = changes + 1
    /\ up' = ~up
    /\ UNCHANGED <<auth, timers, view, health, calls, faults>>

\* refresh() up to its await, by each of the given calls.
Refresh(cs) ==
    /\ \A c \in cs : calls[c] = None
    /\ calls' = [c \in Calls |-> IF c \in cs THEN "asked" ELSE calls[c]]
    /\ view' = IF view \in {"idle", "error"} THEN "loading" ELSE view
    /\ UNCHANGED health

\* Mutated form of Restart: the timer before is not cancelled.
RestartKeeping(n) == timers' = timers + n

\* start(), n times: each cancels the timer of the one before.
Restart(n) == timers' = 1

\* A sign-in: the listener of the app calls start().
SignIn(c) ==
    /\ auth = "out" /\ auth' = "in"
    /\ Restart(1) /\ Refresh({c})
    /\ UNCHANGED <<up, faults, changes>>

\* Bootstrap finds a session: the listener and bootstrapApp both call start().
Restore(c, d) ==
    /\ auth = "unknown" /\ auth' = "in"
    /\ c # d
    /\ Restart(2) /\ Refresh({c, d})
    /\ UNCHANGED <<up, faults, changes>>

\* A sign-out, or a bootstrap without a session: stop().  Requests go on.
SignOut ==
    /\ auth # "out" /\ auth' = "out"
    /\ timers' = 0
    /\ view' = "idle" /\ health' = FALSE
    /\ UNCHANGED <<calls, up, faults, changes>>

Tick(c) ==
    /\ timers > 0 /\ Refresh({c})
    /\ UNCHANGED <<auth, timers, up, faults, changes>>

\* The user taps the bar, which is there when signed in.
Tap(c) ==
    /\ auth = "in" /\ Refresh({c})
    /\ UNCHANGED <<auth, timers, up, faults, changes>>

\* The API pings its database, and then counts the events; the answer is on
\* its way.
Check(c) ==
    /\ calls[c] = "asked"
    /\ calls' = [calls EXCEPT ![c] = IF up THEN "counting" ELSE "unavailable"]
    /\ UNCHANGED <<auth, timers, view, health, up, faults, changes>>

QueueStats(c) ==
    /\ calls[c] = "counting"
    /\ calls' = [calls EXCEPT ![c] = IF up THEN "ok" ELSE "unavailable"]
    /\ UNCHANGED <<auth, timers, view, health, up, faults, changes>>

\* Answers come in any order, and also after stop().
Answer(c) ==
    /\ calls[c] = "ok"
    /\ view' = "ready" /\ health' = TRUE
    /\ calls' = [calls EXCEPT ![c] = None]
    /\ UNCHANGED <<auth, timers, up, faults, changes>>

\* 503, or no answer.  The health of before is kept.
AnswerFails(c) ==
    /\ calls[c] # None
    /\ \/ calls[c] = "unavailable" /\ UNCHANGED faults
       \/ faults < MaxFaults /\ faults' = faults + 1
    /\ view' = "error" /\ UNCHANGED health
    /\ calls' = [calls EXCEPT ![c] = None]
    /\ UNCHANGED <<auth, timers, up, changes>>

Next ==
    \/ Change \/ SignOut
    \/ \E c, d \in Calls : Restore(c, d)
    \/ \E c \in Calls : \/ SignIn(c) \/ Tick(c) \/ Tap(c)
                        \/ Check(c) \/ QueueStats(c) \/ Answer(c) \/ AnswerFails(c)

Spec == Init /\ [][Next]_vars

(***************************************************************************)
(* Property                                                                *)
(***************************************************************************)
\* One timer polls while somebody is signed in, however often start() was
\* called, and none otherwise; and the bar shows neither a spinner that nobody
\* will end nor nothing at all to a user who is signed in.
PolledIffSignedIn ==
    /\ timers = IF auth = "in" THEN 1 ELSE 0
    /\ view = "loading" => \E c \in Calls : calls[c] # None
    /\ auth = "in" => view # "idle"
===============================================================================
