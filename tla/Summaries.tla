------------------------------- MODULE Summaries -------------------------------
(***************************************************************************)
(* Summaries of events: the handler of POST /v1/ai/summarize               *)
(* (api/internal/ai), which reads events and the names of their rules,     *)
(* asks a provider and keeps an audit row of each summary it gives, and    *)
(* the explain screen of the mobile app, which shows one.  Meanwhile the   *)
(* worker settles events, and users rename and delete rules.               *)
(***************************************************************************)
EXTENDS Naturals, FiniteSets, Sequences

CONSTANTS
    Calls,         \* requests the API serves at a time
    Users, Clients,    \* and those of them who ask for summaries
    Events, Rules, Names,
    Owner,         \* whose an event, a rule, and a name given to a rule is
    Ids, Blank,    \* what clients send as an id, and what TrimSpace leaves nothing of
    Uuid,          \* the event that an id denotes as a uuid, None if it is no uuid or none of ours
    Text,          \* the id of an event as the API writes it, id::text
    Requests,      \* the bodies of requests: sequences of ids
    None,
    MaxEvents,
    MaxRows, MaxFaults    \* bounds of the environment

ASSUME ClientsAssumption == Clients \subseteq Users
ASSUME OwnerAssumption == Owner \in [Events \cup Rules \cup Names -> Users]
ASSUME IdsAssumption ==
    /\ IsFiniteSet(Ids) /\ Blank \notin Ids
    /\ Uuid \in [Ids -> Events \cup {None}]
    /\ Text \in [Events -> Ids] /\ \A e \in Events : Uuid[Text[e]] = e
ASSUME RequestsAssumption == Requests \subseteq Seq(Ids \cup {Blank})
ASSUME NoneAssumption == None \notin Events /\ None \notin Rules /\ None \notin Names
ASSUME BoundsAssumption == MaxEvents \in Nat /\ MaxRows \in Nat /\ MaxFaults \in Nat

VARIABLES
    event, name,    \* the table events, and the name of each rule that is there
    call,           \* the requests that are being served
    audit,          \* what rows the table ai_summaries has
    me, asked,      \* the app's user, and the ids of the route /explain
    view, shown,    \* ExplainState: its status, and what its summary rests on
    closed,         \* the user has left the screen
    faults

tables == <<event, name>>
screen == <<me, asked, view, shown, closed>>
s_vars == <<tables, call, audit, screen, faults>>

Statuses == {"pending", "processing", "processed", "failed"}
Row == [status : Statuses, rule : Rules \cup {None}]
Fact == [status : Statuses, name : Names \cup {None}]
Facts == [Ids -> Fact \cup {None}]
Call == [place : {"reading", "naming", "prompting", "saving", "answering"},
         user : Users, ids : SUBSET Ids,
         seen : [Ids -> Row \cup {None}],    \* the events of the ids, when they were read
         facts : Facts,                      \* what the prompt says of them
         waited : BOOLEAN]                   \* the screen waits for the answer
AuditRow == [user : Users, ids : SUBSET Ids, facts : Facts]

ASSUME NoCallAssumption == None \notin Call /\ None \notin Row /\ None \notin Fact

TypeOK ==
    /\ event \in [Events -> Row] /\ name \in [Rules -> Names \cup {None}]
    /\ call \in [Calls -> Call \cup {None}]
    /\ audit \subseteq AuditRow
    /\ me \in Users /\ asked \in Requests
    /\ view \in {"initial", "loading", "ready", "error"} /\ shown \in Facts
    /\ closed \in BOOLEAN /\ faults \in Nat

\* normalizeIDs: neither blanks nor repetitions.
NormalizeIDs(raw) == {raw[i] : i \in DOMAIN raw} \ {Blank}

Nothing == [i \in Ids |-> None]

\* The route splits its query at commas and leaves out blanks.
Init ==
    /\ event \in [Events -> [status : {"pending"}, rule : {None}]
                           \cup [status : {"processed"}, rule : Rules]]
    /\ \A e \in Events : event[e].rule # None => Owner[event[e].rule] = Owner[e]
    /\ name \in [Rules -> Names] /\ \A r \in Rules : Owner[name[r]] = Owner[r]
    /\ call = [c \in Calls |-> None]
    /\ audit = {}
    /\ me \in Clients
    /\ asked \in {raw \in Requests : \A i \in DOMAIN raw : raw[i] # Blank}
    /\ view = "initial" /\ shown = Nothing
    /\ closed = FALSE /\ faults = 0

(***************************************************************************)
(* The worker, and the users' rules                                        *)
(***************************************************************************)
Work(e) ==
    /\ event[e].status \in {"pending", "failed"}
    /\ event' = [event EXCEPT ![e].status = "processing"]
    /\ UNCHANGED <<name, call, audit, screen, faults>>

\* Mutated form of Settle: an event is settled again by a worker that is late.
SettleAgain(e) ==
    /\ event[e].status \in {"processing", "processed"}
    /\ \/ \E r \in Rules :
            /\ name[r] # None /\ Owner[r] = Owner[e]
            /\ event' = [event EXCEPT ![e] = [status |-> "processed", rule |-> r]]
       \/ event' = [event EXCEPT ![e] = [status |-> "processed", rule |-> None]]
    /\ UNCHANGED <<name, call, audit, screen, faults>>

\* MarkProcessed and MarkFailed.  The rule is there, and of the event's user.
Settle(e) ==
    /\ event[e].status = "processing"
    /\ \/ \E r \in Rules :
            /\ name[r] # None /\ Owner[r] = Owner[e]
            /\ event' = [event EXCEPT ![e] = [status |-> "processed", rule |-> r]]
       \/ \E s \in {"processed", "failed"} :
            event' = [event EXCEPT ![e] = [status |-> s, rule |-> None]]
    /\ UNCHANGED <<name, call, audit, screen, faults>>

Rename(r) ==
    /\ name[r] # None
    /\ \E n \in Names : Owner[n] = Owner[r] /\ name' = [name EXCEPT ![r] = n]
    /\ UNCHANGED <<event, call, audit, screen, faults>>

\* ON DELETE SET NULL.
Delete(r) ==
    /\ name[r] # None
    /\ name' = [name EXCEPT ![r] = None]
    /\ event' = [e \in Events |-> IF event[e].rule = r THEN [event[e] EXCEPT !.rule = None]
                                                       ELSE event[e]]
    /\ UNCHANGED <<call, audit, screen, faults>>

(***************************************************************************)
(* The handler                                                             *)
(***************************************************************************)
Arrived(u, raw, waited) ==
    [place |-> "reading", user |-> u, ids |-> NormalizeIDs(raw),
     seen |-> Nothing, facts |-> Nothing, waited |-> waited]

\* A request of another client.
Ask(c, u, raw) ==
    /\ call[c] = None
    /\ call' = [call EXCEPT ![c] = Arrived(u, raw, FALSE)]
    /\ UNCHANGED <<tables, audit, screen, faults>>

\* The request ends with an error, and so does load() if it waits for it.
Refuse(c) ==
    /\ call' = [call EXCEPT ![c] = None]
    /\ view' = IF call[c].waited THEN "error" ELSE view
    /\ UNCHANGED <<me, asked, shown, closed>>

At(c, place) == call[c] # None /\ call[c].place = place

\* Mutated form of GetForUserIDs: the user is not asked for.
GetByIDs(u, ids) == {e \in Events : \E i \in ids : Uuid[i] = e}
GetForUserIDs(u, ids) == {e \in Events : Owner[e] = u /\ \E i \in ids : Uuid[i] = e}

\* Too few or too many ids, one that is no uuid, and fewer events than ids end
\* the request.  evs[id] is empty where id is another way to write the uuid.
EventOf(i) == IF Text[Uuid[i]] = i THEN event[Uuid[i]] ELSE None

ReadEvents(c) ==
    /\ At(c, "reading")
    /\ LET ids == call[c].ids
           found == GetForUserIDs(call[c].user, ids)
       IN  IF ids # {} /\ Cardinality(ids) <= MaxEvents /\ Cardinality(found) = Cardinality(ids)
             THEN /\ call' = [call EXCEPT ![c].place = "naming",
                       ![c].seen = [i \in Ids |-> IF i \in ids THEN EventOf(i) ELSE None]]
                  /\ UNCHANGED screen
             ELSE Refuse(c)
    /\ UNCHANGED <<tables, audit, faults>>

\* NamesByIDs has no name for a rule that is gone by now.
FactOf(row) == [status |-> row.status, name |-> IF row.rule = None THEN None ELSE name[row.rule]]

ReadNames(c) ==
    /\ At(c, "naming")
    /\ call' = [call EXCEPT ![c].place = "prompting",
         ![c].facts = [i \in Ids |-> IF call[c].seen[i] = None THEN None ELSE FactOf(call[c].seen[i])]]
    /\ UNCHANGED <<tables, audit, screen, faults>>

\* What a provider may reply: a summary of these events, one that names no
\* events (the client fills them in) or others, no summary, or an error.
Replies == {"these ids", "no ids", "other ids", "invalid", "error"}
\* Neither ValidateSummary nor sameIDs refuses it.
ValidateSummary(reply) == reply \in {"these ids", "no ids"}

Summarize(c) ==
    /\ At(c, "prompting")
    /\ \E reply \in Replies :
         IF ValidateSummary(reply)
           THEN call' = [call EXCEPT ![c].place = "saving"] /\ UNCHANGED screen
           ELSE Refuse(c)
    /\ UNCHANGED <<tables, audit, faults>>

AuditOf(k) == [user |-> k.user, ids |-> k.ids, facts |-> k.facts]

\* Mutated form of Save: an error of it is passed over.
SaveAnyway(c) ==
    /\ At(c, "saving")
    /\ audit' = audit \/ audit' = audit \cup {AuditOf(call[c])}
    /\ call' = [call EXCEPT ![c].place = "answering"] /\ UNCHANGED screen
    /\ UNCHANGED <<tables, faults>>

\* The ids are those of evs: an empty one is no uuid, and the insert fails.
Save(c) ==
    /\ At(c, "saving")
    /\ IF \A i \in call[c].ids : Text[Uuid[i]] = i
         THEN /\ audit' = audit \cup {AuditOf(call[c])}
              /\ Cardinality(audit') <= MaxRows
              /\ call' = [call EXCEPT ![c].place = "answering"] /\ UNCHANGED screen
         ELSE Refuse(c) /\ UNCHANGED audit
    /\ UNCHANGED <<tables, faults>>

\* A statement fails, the connection is lost or the process dies, before the
\* insert or after it.
Fail(c) ==
    /\ call[c] # None
    /\ faults < MaxFaults /\ faults' = faults + 1
    /\ \/ UNCHANGED audit
       \/ /\ call[c].place = "saving" /\ \A i \in call[c].ids : Text[Uuid[i]] = i
          /\ audit' = audit \cup {AuditOf(call[c])}
          /\ Cardinality(audit') <= MaxRows
    /\ Refuse(c)
    /\ UNCHANGED tables

Answer(c) ==
    /\ At(c, "answering")
    /\ call' = [call EXCEPT ![c] = None]
    /\ IF call[c].waited THEN view' = "ready" /\ shown' = call[c].facts
                         ELSE UNCHANGED <<view, shown>>
    /\ UNCHANGED <<tables, audit, me, asked, closed, faults>>

(***************************************************************************)
(* The explain screen                                                      *)
(***************************************************************************)
\* load(), of the route and of the button that tries again.
Load(c) ==
    /\ ~closed /\ view \in {"initial", "error"}
    /\ call[c] = None
    /\ IF asked = <<>>
         THEN view' = "error" /\ UNCHANGED call
         ELSE view' = "loading" /\ call' = [call EXCEPT ![c] = Arrived(me, asked, TRUE)]
    /\ UNCHANGED <<tables, audit, me, asked, shown, closed, faults>>

\* The app's receiveTimeout is shorter than the provider's.  The handler goes
\* on, unless the closed connection cancels what it is at: Fail and Summarize.
GiveUp(c) ==
    /\ call[c] # None /\ call[c].waited
    /\ faults < MaxFaults /\ faults' = faults + 1
    /\ call' = [call EXCEPT ![c].waited = FALSE]
    /\ view' = "error"
    /\ UNCHANGED <<tables, audit, me, asked, shown, closed>>

\* The answer will come to a closed cubit.
Close ==
    /\ ~closed /\ closed' = TRUE
    /\ call' = [c \in Calls |-> IF call[c] = None THEN None ELSE [call[c] EXCEPT !.waited = FALSE]]
    /\ UNCHANGED <<tables, audit, me, asked, view, shown, faults>>

HandlerStep(c) ==
    ReadEvents(c) \/ ReadNames(c) \/ Summarize(c) \/ Save(c) \/ Fail(c) \/ Answer(c)

Next ==
    \/ \E e \in Events : Work(e) \/ Settle(e)
    \/ \E r \in Rules : Rename(r) \/ Delete(r)
    \/ \E c \in Calls : \/ HandlerStep(c) \/ Load(c) \/ GiveUp(c)
                        \/ \E u \in Clients, raw \in Requests : Ask(c, u, raw)
    \/ Close

Spec == Init /\ [][Next]_s_vars

(***************************************************************************)
(* Properties                                                              *)
(***************************************************************************)
\* A summary that the screen shows is in the audit table: of this user, for
\* the events asked for and resting on the same facts, whatever the order in
\* which attempts time out, are repeated and end.
ShownIsAudited ==
    view = "ready" => [user |-> me, ids |-> NormalizeIDs(asked), facts |-> shown] \in audit

\* What has been summarized for a user, and told to the provider, is the
\* user's own: the events, and the names of the rules that matched them.
FactsOwn(u, ids, facts) ==
    \A i \in Ids : /\ i \in ids => Uuid[i] \in Events /\ Owner[Uuid[i]] = u
                   /\ facts[i] # None /\ facts[i].name # None => Owner[facts[i].name] = u
AuditIsOwn == \A row \in audit : FactsOwn(row.user, row.ids, row.facts)

\* Although a prompt rests on two reads, it never mixes two states of an event:
\* a fact is the event and its rule as they are at the second read, or the event
\* as it was at the first, when no rule had matched it.
FactsTrue ==
    [][\A c \in Calls : At(c, "naming") /\ At(c, "prompting")' =>
         \A i \in call[c].ids :
           LET k == call'[c]
           IN  \/ Text[Uuid[i]] # i /\ k.facts[i] = None
               \/ k.facts[i] = FactOf(event[Uuid[i]])
               \/ k.seen[i].rule = None /\ k.facts[i] = [status |-> k.seen[i].status, name |-> None]
      ]_s_vars

\* The spinner is shown only while a request is under way that ends it.
ExplainNotStuck == ~closed /\ view = "loading" => \E c \in Calls : call[c] # None /\ call[c].waited
===============================================================================
