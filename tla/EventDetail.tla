------------------------------ MODULE EventDetail ------------------------------
(***************************************************************************)
(* The screen of one event in the mobile app: it loads the event, repeats  *)
(* that every second while the event is in the queue, and tries again when *)
(* the user asks it to.  The queue is EventQueue, seen from outside.       *)
(***************************************************************************)
EXTENDS Naturals

CONSTANTS
    Calls,                   \* requests under way at a time
    None,
    MaxFaults, MaxRetries    \* bounds of the environment

VARIABLES
    status,         \* of the user's event in the API's table, None if there is none
    view, seen,     \* EventDetailState: its status, and that of its event
    poll,           \* _poll is set
    calls,          \* the calls of load(): None, "asked", the status answered, or "not found"
    closed,         \* the user has left the screen
    faults, retries

vars == <<status, view, seen, poll, calls, closed, faults, retries>>

\* Where a call may be: under way, or answered.
Statuses == {"pending", "processing", "processed", "failed"}
Places == {"asked", "not found"} \cup Statuses

Active(s) == s \in {"pending", "processing"}

\* The route takes any id.
Init ==
    /\ status \in {"pending", None}
    /\ view = "loading" /\ seen = None /\ poll = FALSE
    /\ \E c \in Calls : calls = [d \in Calls |-> IF d = c THEN "asked" ELSE None]
    /\ closed = FALSE /\ faults = 0 /\ retries = 0

(***************************************************************************)
(* The API                                                                 *)
(***************************************************************************)
Work ==
    /\ \/ status = "pending" /\ status' = "processing"
       \/ status = "processing" /\ status' \in {"processed", "failed"}
    /\ UNCHANGED <<view, seen, poll, calls, closed, faults, retries>>

\* A failed event is claimed again.
Retry ==
    /\ status = "failed" /\ status' = "processing"
    /\ retries < MaxRetries /\ retries' = retries + 1
    /\ UNCHANGED <<view, seen, poll, calls, closed, faults>>

GetForUser == IF status = None THEN "not found" ELSE status

\* The API reads the row; the answer is on its way.
Get(c) ==
    /\ calls[c] = "asked"
    /\ calls' = [calls EXCEPT ![c] = GetForUser]
    /\ UNCHANGED <<status, view, seen, poll, closed, faults, retries>>

(***************************************************************************)
(* The cubit                                                               *)
(***************************************************************************)
\* load() up to its await: an event in the queue is loaded again without a
\* spinner, which after an error leaves the error on the screen.
Load(c) ==
    /\ calls[c] = None /\ calls' = [calls EXCEPT ![c] = "asked"]
    /\ view' = IF Active(seen) THEN view ELSE "loading"
    /\ UNCHANGED <<status, seen, poll, closed, faults, retries>>

Tick(c) == poll /\ Load(c)

\* The button of the error page.
TryAgain(c) == ~closed /\ view = "error" /\ Load(c)

\* Mutated form of SyncPoll: _poll is not reset when it is stopped, so that it
\* is never started again.
SyncPollOnce(s) == poll' = (Active(s) /\ (poll \/ seen = None))

SyncPoll(s) == poll' = Active(s)

\* Answers may come in another order than their requests.
Answer(c) ==
    /\ ~closed /\ calls[c] \notin {None, "asked", "not found"}
    /\ view' = "ready" /\ seen' = calls[c]
    /\ SyncPoll(calls[c])
    /\ calls' = [calls EXCEPT ![c] = None]
    /\ UNCHANGED <<status, closed, faults, retries>>

\* 404, or no answer.
AnswerFails(c) ==
    /\ ~closed /\ calls[c] # None
    /\ \/ calls[c] = "not found" /\ UNCHANGED faults
       \/ faults < MaxFaults /\ faults' = faults + 1
    /\ view' = "error" /\ poll' = FALSE
    /\ calls' = [calls EXCEPT ![c] = None]
    /\ UNCHANGED <<status, seen, closed, retries>>

\* A closed cubit throws when it is to emit.
AnswerClosed(c) ==
    /\ closed /\ calls[c] # None
    /\ calls' = [calls EXCEPT ![c] = None]
    /\ UNCHANGED <<status, view, seen, poll, closed, faults, retries>>

Close ==
    /\ ~closed /\ closed' = TRUE
    /\ poll' = FALSE
    /\ UNCHANGED <<status, view, seen, calls, faults, retries>>

Next ==
    \/ Work \/ Retry \/ Close
    \/ \E c \in Calls : \/ Get(c) \/ Tick(c) \/ TryAgain(c)
                        \/ Answer(c) \/ AnswerFails(c) \/ AnswerClosed(c)

Spec == Init /\ [][Next]_vars

(***************************************************************************)
(* Property                                                                *)
(***************************************************************************)
\* The screen says that it refreshes itself exactly when it does, in whatever
\* order answers and errors arrive; a screen that was left does not.
PollIffActive == poll <=> ~closed /\ view = "ready" /\ Active(seen)
===============================================================================
