------------------------------- MODULE RulesScreen -----------------------------
(***************************************************************************)
(* The rules screen of the mobile app: loads of the list, and the writes   *)
(* of its form and of its delete buttons, each of which loads the list     *)
(* again.  Nothing keeps the user from beginning one while another is under*)
(* way.  How the API writes is RuleBook's; here a write is one step.       *)
(***************************************************************************)
EXTENDS Naturals, FiniteSets

CONSTANTS
    Calls,          \* calls under way at a time
    Rules, Values,  \* ids, and what the fields of a rule may be
    None,
    MaxFaults, MaxForeign    \* bounds of the environment

VARIABLES
    table,          \* the user's rules in the API; "gone" when deleted
    view, items, error, busy,    \* RulesState
    sheet,          \* the form: None, "new", or the rule it was opened for
    calls,
    closed,         \* the user has signed out
    overlapped,     \* history: calls since the last rest have overlapped
    foreign,        \* history: rules changed by another device or a demo
    faults

state == <<view, items, error, busy>>
vars == <<table, state, sheet, calls, closed, overlapped, foreign, faults>>

Kinds == {"load", "create", "update", "remove"}
NoRules == [r \in Rules |-> None]
Listing == [r \in Rules |-> IF table[r] = "gone" THEN None ELSE table[r]]
Call(kind, place, r, v) ==
    [kind |-> kind, place |-> place, rule |-> r, value |-> v, rows |-> NoRules,
     form |-> kind \in {"create", "update"}]    \* its form is still open
Calling == [kind : Kinds, place : {"asked", "refused", "done", "listing", "listed"},
            rule : Rules \cup {None}, value : Values \cup {None},
            rows : [Rules -> Values \cup {None}], form : BOOLEAN]
AtRest == \A c \in Calls : calls[c] = None

\* The screen opens with a first load.
Init ==
    /\ table \in [Rules -> Values \cup {None}]
    /\ view = "loading" /\ items = NoRules /\ error = FALSE /\ busy = FALSE
    /\ sheet = None
    /\ \E c \in Calls : calls = [d \in Calls |->
         IF d = c THEN Call("load", "listing", None, None) ELSE None]
    /\ closed = FALSE /\ overlapped = FALSE
    /\ foreign = {} /\ faults = 0

(***************************************************************************)
(* The user                                                                *)
(***************************************************************************)
Begin(c, call) ==
    /\ ~closed /\ calls[c] = None
    /\ calls' = [calls EXCEPT ![c] = call]
    /\ overlapped' = ~AtRest
    /\ error' = FALSE
    /\ UNCHANGED <<table, items, sheet, closed, foreign, faults>>

Refresh(c) ==
    /\ sheet = None
    /\ Begin(c, Call("load", "listing", None, None))
    /\ view' = "loading" /\ UNCHANGED busy

\* The calls when the form has gone.
WithoutForm == [c \in Calls |-> IF calls[c] = None THEN None ELSE [calls[c] EXCEPT !.form = FALSE]]

\* The form covers the list.
Open(s) ==
    /\ ~closed /\ sheet = None
    /\ s \in {"new"} \cup {r \in Rules : view = "ready" /\ items[r] # None}
    /\ sheet' = s
    /\ UNCHANGED <<table, state, calls, closed, overlapped, foreign, faults>>

Dismiss ==
    /\ ~closed /\ sheet # None /\ sheet' = None
    /\ calls' = WithoutForm
    /\ UNCHANGED <<table, state, closed, overlapped, foreign, faults>>

\* The form's button, which may be pressed again.
Save(c) ==
    /\ sheet # None
    /\ \E v \in Values :
         Begin(c, IF sheet = "new" THEN Call("create", "asked", None, v)
                                   ELSE Call("update", "asked", sheet, v))
    /\ busy' = TRUE /\ UNCHANGED view

Remove(c) ==
    /\ sheet = None /\ view = "ready"
    /\ \E r \in Rules : items[r] # None /\ Begin(c, Call("remove", "asked", r, None))
    /\ busy' = TRUE /\ UNCHANGED view

SignOut ==
    /\ ~closed /\ closed' = TRUE
    /\ sheet' = None
    /\ UNCHANGED <<table, state, calls, overlapped, foreign, faults>>

(***************************************************************************)
(* The API                                                                 *)
(***************************************************************************)
List(c) ==
    /\ calls[c] # None /\ calls[c].place = "listing"
    /\ calls' = [calls EXCEPT ![c].place = "listed", ![c].rows = Listing]
    /\ UNCHANGED <<table, state, sheet, closed, overlapped, foreign, faults>>

\* A write: of a new rule, of a rule that is there, or 404.
Write(c) ==
    /\ calls[c] # None /\ calls[c].place = "asked"
    /\ \/ /\ calls[c].kind = "create"
          /\ \E r \in Rules : table[r] = None /\ table' = [table EXCEPT ![r] = calls[c].value]
          /\ calls' = [calls EXCEPT ![c].place = "done"]
       \/ /\ calls[c].kind # "create" /\ table[calls[c].rule] \in Values
          /\ table' = [table EXCEPT ![calls[c].rule] =
                         IF calls[c].kind = "remove" THEN "gone" ELSE calls[c].value]
          /\ calls' = [calls EXCEPT ![c].place = "done"]
       \/ /\ calls[c].kind # "create" /\ table[calls[c].rule] \notin Values
          /\ calls' = [calls EXCEPT ![c].place = "refused"]
          /\ UNCHANGED table
    /\ UNCHANGED <<state, sheet, closed, overlapped, foreign, faults>>

\* Another device writes, or the demo makes its rule.
Elsewhere(r) ==
    /\ Cardinality(foreign \cup {r}) <= MaxForeign /\ foreign' = foreign \cup {r}
    /\ table[r] # "gone"
    /\ \E v \in Values \cup {"gone"} :
         /\ v # table[r] /\ (table[r] = None => v # "gone")
         /\ table' = [table EXCEPT ![r] = v]
    /\ UNCHANGED <<state, sheet, calls, closed, overlapped, faults>>

(***************************************************************************)
(* The cubit                                                               *)
(***************************************************************************)
End(c) == calls' = [calls EXCEPT ![c] = None]

\* create() and update() return true, and their form closes if it is still there.
Return(c) ==
    IF calls[c].form
      THEN sheet' = None /\ calls' = [WithoutForm EXCEPT ![c] = None]
      ELSE UNCHANGED sheet /\ End(c)

\* Mutated form of Written: the list is not loaded again.
WrittenOnly(c) ==
    /\ ~closed /\ calls[c] # None /\ calls[c].place = "done"
    /\ busy' = FALSE
    /\ Return(c)
    /\ UNCHANGED <<table, view, items, error, closed, overlapped, foreign, faults>>

\* The write is done: load().
Written(c) ==
    /\ ~closed /\ calls[c] # None /\ calls[c].place = "done"
    /\ calls' = [calls EXCEPT ![c].place = "listing"]
    /\ view' = "loading" /\ error' = FALSE
    /\ UNCHANGED <<table, items, busy, sheet, closed, overlapped, foreign, faults>>

\* The list arrives, also after that of a later load.
Listed(c) ==
    /\ ~closed /\ calls[c] # None /\ calls[c].place = "listed"
    /\ items' = calls[c].rows
    /\ view' = IF items' = NoRules THEN "empty" ELSE "ready"
    /\ error' = FALSE /\ busy' = FALSE
    /\ Return(c)
    /\ UNCHANGED <<table, closed, overlapped, foreign, faults>>

\* Mutated form of WriteFails: it is passed over in silence.
WriteFailsSilently(c) ==
    /\ ~closed /\ calls[c] # None
    /\ \/ calls[c].place = "refused" /\ UNCHANGED faults
       \/ calls[c].place \in {"asked", "done"} /\ faults < MaxFaults /\ faults' = faults + 1
    /\ UNCHANGED <<busy, error>>
    /\ End(c)
    /\ UNCHANGED <<table, view, items, sheet, closed, overlapped, foreign>>

\* The write is refused, fails, or seems to: the form stays, with a message.
WriteFails(c) ==
    /\ ~closed /\ calls[c] # None
    /\ \/ calls[c].place = "refused" /\ UNCHANGED faults
       \/ calls[c].place \in {"asked", "done"} /\ faults < MaxFaults /\ faults' = faults + 1
    /\ busy' = FALSE /\ error' = TRUE
    /\ End(c)
    /\ UNCHANGED <<table, view, items, sheet, closed, overlapped, foreign>>

\* load() keeps its error to itself: the write that it follows has succeeded.
ListFails(c) ==
    /\ ~closed /\ calls[c] # None /\ calls[c].place \in {"listing", "listed"}
    /\ faults < MaxFaults /\ faults' = faults + 1
    /\ view' = "error" /\ items' = NoRules /\ error' = TRUE /\ busy' = FALSE
    /\ Return(c)
    /\ UNCHANGED <<table, closed, overlapped, foreign>>

\* A closed cubit throws when it is to emit.
AnswerClosed(c) ==
    /\ closed /\ calls[c] # None /\ calls[c].place # "asked"
    /\ End(c)
    /\ UNCHANGED <<table, state, sheet, closed, overlapped, foreign, faults>>

Next ==
    \/ Dismiss \/ SignOut
    \/ \E s \in Rules \cup {"new"} : Open(s)
    \/ \E r \in Rules : Elsewhere(r)
    \/ \E c \in Calls : \/ Refresh(c) \/ Save(c) \/ Remove(c)
                        \/ List(c) \/ Write(c)
                        \/ Written(c) \/ Listed(c) \/ WriteFails(c) \/ ListFails(c) \/ AnswerClosed(c)

Spec == Init /\ [][Next]_vars

(***************************************************************************)
(* Properties                                                              *)
(***************************************************************************)
\* When all calls have ended, none of which overlapped another, and no error is
\* shown, then the list is the API's, save for what others have changed.
ListIsCurrent ==
    ~closed /\ AtRest /\ ~overlapped /\ ~error =>
        \A r \in Rules \ foreign : items[r] = Listing[r]

\* A spinner or a form that says it is busy has a call to wait for, in whatever
\* order calls end and fail.
NothingStuck ==
    ~closed =>
        /\ view = "loading" => \E c \in Calls : calls[c] # None /\ calls[c].place \in {"listing", "listed"}
        /\ busy => \E c \in Calls : calls[c] # None /\ calls[c].kind # "load"
===============================================================================
