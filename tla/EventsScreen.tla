------------------------------ MODULE EventsScreen ----------------------------
(***************************************************************************)
(* The events list of the mobile app: loads of the list that overlap, the  *)
(* live watch that repeats them every second, the filter, and the guided   *)
(* demo that injects events and follows each to its end.  The queue behind *)
(* the API is EventQueue, seen from outside.  A step is what Dart does     *)
(* between two awaits.                                                     *)
(***************************************************************************)
EXTENDS Naturals, FiniteSets

CONSTANTS
    MaxEvents,     \* events of the user, numbered in the order of their arrival
    PageSize,      \* the most that the API lists
    Loads,         \* requests for the list under way at a time
    None,
    Outcomes,      \* how a worker may settle an event
    Picks,         \* the filters that the user picks, None for "All"
    EventCounts,   \* how many events a demo may be asked to inject
    MaxRounds,     \* looks at an event until the deadline has passed
    MaxFaults, MaxRetries    \* bounds of the environment

Statuses == {"pending", "processing", "processed", "failed"}

Received == 1..MaxEvents

ASSUME NoneAssumption == None \notin Statuses /\ None \notin Nat
ASSUME EventsAssumption == MaxEvents \in Nat /\ PageSize \in Nat \ {0}
ASSUME OutcomesAssumption == Outcomes \subseteq {"processed", "failed"}
ASSUME PicksAssumption == Picks \subseteq Statuses \cup {None}
ASSUME BoundsAssumption == EventCounts \subseteq Nat \ {0} /\ MaxRounds \in Nat \ {0}
    /\ MaxFaults \in Nat /\ MaxRetries \in Nat

VARIABLES
    queue,                  \* status of each event in the API's table
    view, items, filter,    \* of EventsState
    live, timer,            \* liveWatching, and whether _liveTimer is set
    demoBusy,
    pc, left, created, rounds,    \* of runGuidedDemo and _waitUntilTerminal
    loads,                  \* the calls of load()
    closed,                 \* the user has left the screen
    forsaken,               \* history: a demo has failed since the last answer
    faults, retries

shown  == <<view, items, filter>>
watch  == <<live, timer>>
demo   == <<demoBusy, pc, left, created, rounds>>
bounds == <<faults, retries>>
vars == <<queue, shown, watch, demo, loads, closed, forsaken, bounds>>

Active(status) == status \in {"pending", "processing"}
NoRows == [e \in Received |-> None]
\* Mutated form of HasActiveQueue: an event that is being processed is forgotten.
HasPendingQueue(rows) == \E e \in Received : rows[e] = "pending"

HasActiveQueue(rows) == \E e \in Received : Active(rows[e])

\* What follows a call: nothing, the two awaits of a demo, or its last line.
Followers == {"nothing", "wait", "check", "sync"}
Load == [place : {"asked", "answered"}, filter : Statuses \cup {None},
         rows : [Received -> Statuses \cup {None}], then : Followers]

TypeOK ==
    /\ queue \in [Received -> Statuses \cup {None}]
    /\ view \in {"loading", "ready", "empty", "error"}
    /\ items \in [Received -> Statuses \cup {None}]
    /\ view = "empty" => items = NoRows
    /\ filter \in Statuses \cup {None}
    /\ live \in BOOLEAN /\ timer \in BOOLEAN
    /\ demoBusy \in BOOLEAN /\ closed \in BOOLEAN /\ forsaken \in BOOLEAN
    /\ pc \in {"none", "simulating", "loading", "delaying", "checking"}
    /\ ~closed => (demoBusy <=> pc # "none") /\ (demoBusy <=> left > 0)
    /\ left \in Nat /\ created \in Received \cup {None} /\ rounds \in 0..MaxRounds
    /\ loads \in [Loads -> Load \cup {None}]
    /\ faults \in 0..MaxFaults /\ retries \in 0..MaxRetries

\* The call l of load() begins; it shows a spinner unless the list is being
\* watched anyway.
Ask(l, f, then) ==
    /\ loads[l] = None
    /\ loads' = [loads EXCEPT ![l] = [place |-> "asked", filter |-> f, rows |-> NoRows, then |-> then]]

Spinner == view' = IF live \/ demoBusy THEN view ELSE "loading"

\* The screen is opened with a first load.
Init ==
    /\ \E n \in 0..MaxEvents : queue = [e \in Received |-> IF e <= n THEN "pending" ELSE None]
    /\ view = "loading" /\ items = NoRows /\ filter = None
    /\ live = FALSE /\ timer = FALSE
    /\ demoBusy = FALSE /\ pc = "none" /\ left = 0 /\ created = None /\ rounds = 0
    /\ \E l \in Loads : loads = [m \in Loads |->
         IF m = l THEN [place |-> "asked", filter |-> None, rows |-> NoRows, then |-> "nothing"] ELSE None]
    /\ closed = FALSE /\ forsaken = FALSE
    /\ faults = 0 /\ retries = 0

(***************************************************************************)
(* The queue                                                               *)
(***************************************************************************)
\* Events that may still come; a demo under way has its share of them.
Supply == Cardinality({e \in Received : queue[e] = None})

\* The next event.
Insert(e) ==
    /\ queue[e] = None /\ \A d \in Received : d < e => queue[d] # None
    /\ queue' = [queue EXCEPT ![e] = "pending"]

\* A provider's.
Arrive(e) ==
    /\ Supply > left
    /\ Insert(e)
    /\ UNCHANGED <<shown, watch, demo, loads, closed, forsaken, bounds>>

\* A worker claims the event, or marks it.
Work(e) ==
    /\ \/ queue[e] = "pending" /\ queue' = [queue EXCEPT ![e] = "processing"]
       \/ /\ queue[e] = "processing"
          /\ \E s \in Outcomes : queue' = [queue EXCEPT ![e] = s]
    /\ UNCHANGED <<shown, watch, demo, loads, closed, forsaken, bounds>>

\* A failed event is claimed again.
Retry(e) ==
    /\ queue[e] = "failed"
    /\ retries < MaxRetries /\ retries' = retries + 1
    /\ queue' = [queue EXCEPT ![e] = "processing"]
    /\ UNCHANGED <<shown, watch, demo, loads, closed, forsaken, faults>>

\* The API lists the newest of the user's events, or of those of one status.
Newest(S) == {e \in S : Cardinality({d \in S : d > e}) < PageSize}
ListForUser(status) ==
    LET found == {e \in Received : queue[e] # None /\ status \in {None, queue[e]}}
    IN  [e \in Received |-> IF e \in Newest(found) THEN queue[e] ELSE None]

List(l) ==
    /\ loads[l] # None /\ loads[l].place = "asked"
    /\ loads' = [loads EXCEPT ![l].place = "answered", ![l].rows = ListForUser(loads[l].filter)]
    /\ UNCHANGED <<queue, shown, watch, demo, closed, forsaken, bounds>>

(***************************************************************************)
(* The live watch                                                          *)
(***************************************************************************)
StartLiveWatch == live' = TRUE /\ timer' = TRUE

StopLiveWatch == live' = FALSE /\ timer' = FALSE

\* Mutated form of SyncLiveWatch: the watch is started and never stopped.
SyncStartOnly(rows) ==
    IF ~demoBusy /\ HasActiveQueue(rows) THEN StartLiveWatch ELSE UNCHANGED watch

SyncLiveWatch(rows) ==
    IF demoBusy THEN UNCHANGED watch
    ELSE IF HasActiveQueue(rows) THEN StartLiveWatch
    ELSE IF live THEN StopLiveWatch ELSE UNCHANGED watch

(***************************************************************************)
(* load()                                                                  *)
(***************************************************************************)
\* copyWith: null leaves the filter as it was.
CopyFilter(f) == filter' = IF f = None THEN filter ELSE f

\* The call ends, and the demo goes on if it waits for it.
Return(l) ==
    /\ loads' = [loads EXCEPT ![l] = None]
    /\ pc' = CASE loads[l].then = "wait"  -> "delaying"
               [] loads[l].then = "check" -> "checking"
               [] OTHER -> pc
    /\ UNCHANGED <<demoBusy, left, created, rounds>>

Answer(l) ==
    /\ ~closed
    /\ loads[l] # None /\ loads[l].place = "answered"
    /\ items' = loads[l].rows
    /\ view' = IF items' = NoRows THEN "empty" ELSE "ready"
    /\ CopyFilter(loads[l].filter)
    /\ SyncLiveWatch(loads[l].rows)
    /\ forsaken' = (forsaken /\ demoBusy)
    /\ Return(l)
    /\ UNCHANGED <<queue, closed, bounds>>

\* Mutated form of AnswerFails: an error of a quiet load is passed over, and
\* of any other too.
AnswerFailsSilently(l) ==
    /\ ~closed
    /\ loads[l] # None
    /\ faults < MaxFaults /\ faults' = faults + 1
    /\ IF loads[l].then = "sync" THEN SyncLiveWatch(items) ELSE UNCHANGED watch
    /\ Return(l)
    /\ UNCHANGED <<queue, shown, closed, forsaken, retries>>

\* The old rows stay; after a demo's last load the watch is adjusted to them.
AnswerFails(l) ==
    /\ ~closed
    /\ loads[l] # None
    /\ faults < MaxFaults /\ faults' = faults + 1
    /\ view' = "error" /\ UNCHANGED items
    /\ CopyFilter(loads[l].filter)
    /\ IF loads[l].then = "sync" THEN SyncLiveWatch(items) ELSE UNCHANGED watch
    /\ forsaken' = (forsaken /\ (demoBusy \/ loads[l].then # "sync"))
    /\ Return(l)
    /\ UNCHANGED <<queue, closed, retries>>

\* A closed cubit throws when it is to emit: the call and what follows end.
AnswerClosed(l) ==
    /\ closed /\ loads[l] # None
    /\ loads' = [loads EXCEPT ![l] = None]
    /\ pc' = IF loads[l].then \in {"wait", "check"} THEN "none" ELSE pc
    /\ UNCHANGED <<queue, shown, watch, demoBusy, left, created, rounds, closed, forsaken, bounds>>

(***************************************************************************)
(* What the user and the timer begin                                       *)
(***************************************************************************)
Refresh(l) ==
    /\ ~closed
    /\ Ask(l, filter, "nothing") /\ Spinner
    /\ UNCHANGED <<queue, items, filter, watch, demo, closed, forsaken, bounds>>

SetFilter(l, f) ==
    /\ ~closed
    /\ Ask(l, f, "nothing") /\ Spinner
    /\ UNCHANGED <<queue, items, filter, watch, demo, closed, forsaken, bounds>>

Tick(l) ==
    /\ timer
    /\ Ask(l, filter, "nothing") /\ Spinner
    /\ UNCHANGED <<queue, items, filter, watch, demo, closed, forsaken, bounds>>

\* Mutated form of Close: the timer goes on.
CloseNot ==
    /\ ~closed /\ closed' = TRUE
    /\ UNCHANGED <<queue, shown, watch, demo, loads, forsaken, bounds>>

Close ==
    /\ ~closed /\ closed' = TRUE
    /\ timer' = FALSE /\ UNCHANGED live
    /\ UNCHANGED <<queue, shown, demo, loads, forsaken, bounds>>

(***************************************************************************)
(* runGuidedDemo                                                           *)
(***************************************************************************)
\* For some number of events, of those there are.
RunGuidedDemo ==
    /\ ~closed /\ ~demoBusy
    /\ left' \in EventCounts
    /\ left' <= Supply
    /\ demoBusy' = TRUE /\ pc' = "simulating"
    /\ StartLiveWatch
    /\ UNCHANGED <<queue, shown, created, rounds, loads, closed, forsaken, bounds>>

\* The API's Simulate, of which the app asks one event at a time.
Inject(e) == Insert(e)

\* The event is injected; the list is loaded.
Simulate(l, e) ==
    /\ ~closed /\ pc = "simulating"
    /\ Inject(e)
    /\ created' = e /\ rounds' = 0
    /\ pc' = "loading"
    /\ Ask(l, filter, "wait") /\ Spinner
    /\ UNCHANGED <<items, filter, watch, demoBusy, left, closed, forsaken, bounds>>

\* Mutated form of SimulateFails: the demo stays busy.
SimulateFailsBusy ==
    /\ ~closed /\ pc = "simulating"
    /\ faults < MaxFaults /\ faults' = faults + 1
    /\ pc' = "none" /\ left' = 0 /\ UNCHANGED demoBusy
    /\ StopLiveWatch
    /\ forsaken' = TRUE
    /\ UNCHANGED <<queue, shown, created, rounds, loads, closed, retries>>

\* It is not, or so it seems: the demo gives up, and the watch with it.
SimulateFails ==
    /\ ~closed /\ pc = "simulating"
    /\ faults < MaxFaults /\ faults' = faults + 1
    /\ UNCHANGED queue \/ \E e \in Received : Inject(e)
    /\ demoBusy' = FALSE /\ pc' = "none" /\ left' = 0
    /\ StopLiveWatch
    /\ forsaken' = TRUE
    /\ UNCHANGED <<shown, created, rounds, loads, closed, retries>>

\* _waitUntilTerminal: another look, as long as the deadline has not passed.
Poll(l) ==
    /\ pc = "delaying"
    /\ rounds < MaxRounds /\ rounds' = rounds + 1
    /\ pc' = "loading"
    /\ Ask(l, filter, "check") /\ Spinner
    /\ UNCHANGED <<queue, items, filter, watch, demoBusy, left, created, closed, forsaken, bounds>>

\* The demo goes on with the next event after a pause, or ends with a last load.
Proceed(l) ==
    IF left > 1
      THEN pc' = "simulating" /\ left' = left - 1 /\ UNCHANGED <<demoBusy, view, loads>>
      ELSE /\ pc' = "none" /\ left' = 0 /\ demoBusy' = FALSE
           /\ Ask(l, filter, "sync")
           /\ view' = IF live THEN view ELSE "loading"

\* It looks again when the event is not settled, unless the deadline has passed.
Check(l) ==
    /\ ~closed /\ pc = "checking"
    /\ \/ Proceed(l) /\ created' = None /\ rounds' = 0
       \/ /\ items[created] \notin {"processed", "failed"} /\ rounds < MaxRounds
          /\ pc' = "delaying"
          /\ UNCHANGED <<demoBusy, left, created, rounds, view, loads>>
    /\ UNCHANGED <<queue, items, filter, watch, closed, forsaken, bounds>>

\* The demo of a closed cubit ends where it is to emit.
DemoClosed ==
    /\ closed /\ pc \in {"simulating", "checking"}
    /\ pc' = "none"
    /\ UNCHANGED <<queue, shown, watch, demoBusy, left, created, rounds, loads, closed, forsaken, bounds>>

LoadStep(l) == List(l) \/ Answer(l) \/ AnswerFails(l) \/ AnswerClosed(l)
DemoStep == \/ \E l \in Loads : (\E e \in Received : Simulate(l, e)) \/ Poll(l) \/ Check(l)
            \/ SimulateFails \/ DemoClosed

Next ==
    \/ \E e \in Received : Arrive(e) \/ Work(e) \/ Retry(e)
    \/ \E l \in Loads : LoadStep(l) \/ Refresh(l) \/ Tick(l) \/ \E f \in Picks : SetFilter(l, f)
    \/ RunGuidedDemo \/ DemoStep \/ Close

Spec == Init /\ [][Next]_vars

FairSpec ==
    /\ Spec
    /\ \A e \in Received : WF_vars(Work(e))
    /\ \A l \in Loads : WF_vars(LoadStep(l))
    /\ WF_vars(\E l \in Loads : Tick(l))
    /\ SF_vars(DemoStep)

(***************************************************************************)
(* Properties                                                              *)
(***************************************************************************)
\* The list is polled as long as it shows an event that is not settled, unless a
\* demo has just failed, and no longer, and the banner says so, however loads,
\* demos and their failures follow each other.
Needed == HasActiveQueue(items) \/ demoBusy
WatchedIffNeeded == ~closed =>
    /\ live = timer
    /\ Needed /\ ~forsaken => live
    /\ live => Needed \/ \E l \in Loads : loads[l] # None /\ loads[l].then = "sync"

\* The spinner is shown only while an answer is awaited that will replace it.
SpinnerHasReason == ~closed /\ view = "loading" => \E l \in Loads : loads[l] # None

\* The list shows events of the status that is selected.
RowsAreFiltered == view = "ready" /\ filter # None => \A e \in Received : items[e] \in {None, filter}

\* However slow or mixed up the answers, no event is shown as pending or
\* processing for ever, while the screen is open and no demo has failed.
EventuallyShown ==
    \A e \in Received : Active(items[e]) ~> (~Active(items[e]) \/ forsaken \/ closed)

\* The demo ends, also when its events are not seen to settle.
DemoEnds == demoBusy ~> (~demoBusy \/ closed)

\* A screen that has been left stops making requests.
Silent == pc = "none" /\ \A l \in Loads : loads[l] = None
ClosedIsSilent == [](closed => <>[]Silent)
===============================================================================
