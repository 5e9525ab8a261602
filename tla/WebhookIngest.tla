---------------------------- MODULE WebhookIngest -----------------------------
(***************************************************************************)
(* POST /v1/webhooks/events (api/internal/webhook/handler.go) with the     *)
(* statements it runs (UserIDByRef, CreatePending and GetByIdempotency of  *)
(* api/internal/events/store.go): concurrent deliveries, and redeliveries, *)
(* of the messages that a provider posts until each is acknowledged.       *)
(***************************************************************************)
EXTENDS Integers, FiniteSets

CONSTANTS
    Handlers,     \* requests served at a time, by whatever API processes
    Users, Refs, Keys, Bodies,
    Messages,     \* what the provider posts
    Ids,          \* the values of gen_random_uuid()
    None,
    MaxDups,      \* deliveries of messages that are acknowledged already
    MaxFaults,    \* failing calls, lost answers and dying handlers
    MaxRemaps     \* how often a user_ref is given to another user

\* A message is valid when its signature matches and it has the required
\* fields; its body stands for type and payload.
MessageType == [ref : Refs, key : Keys, body : Bodies, valid : BOOLEAN]

ASSUME MessagesAssumption == Messages \subseteq MessageType
ASSUME NoneAssumption ==
    /\ None \notin Users \cup Ids \cup Messages
    /\ None \notin [user : Users, key : Keys, body : Bodies]
ASSUME BoundsAssumption == MaxDups \in Nat /\ MaxFaults \in Nat /\ MaxRemaps \in Nat

VARIABLES
    row,       \* the table events
    refUser,   \* users.user_ref, read backwards
    pc, msg, user, ev,   \* of each handler: its place, its request, the user
                         \* of UserIDByRef, the event it will answer with
    answers,   \* the answers that have reached the provider
    dups, faults, remaps

handlers == <<pc, msg, user, ev>>
vars == <<row, refUser, handlers, answers, dups, faults, remaps>>

Pcs == {"idle", "lookup", "insert", "inserting", "conflict", "created", "found"}
Rows == [user : Users, key : Keys, body : Bodies]
Answers == [msg : Messages, status : {200, 202, 400, 404, 500}, ev : Ids \cup {None}]

TypeOK ==
    /\ row \in [Ids -> Rows \cup {None}]
    /\ refUser \in [Refs -> Users \cup {None}]
    /\ pc \in [Handlers -> Pcs]
    /\ msg \in [Handlers -> Messages \cup {None}]
    /\ user \in [Handlers -> Users \cup {None}]
    /\ ev \in [Handlers -> Ids \cup {None}]
    /\ answers \in SUBSET Answers
    /\ dups \in 0..MaxDups /\ faults \in 0..MaxFaults /\ remaps \in 0..MaxRemaps

Init ==
    /\ row = [i \in Ids |-> None]
    /\ refUser \in [Refs -> Users \cup {None}]
    /\ \A r, s \in Refs : refUser[r] = refUser[s] /\ refUser[r] # None => r = s
    /\ pc = [h \in Handlers |-> "idle"]
    /\ msg = [h \in Handlers |-> None]
    /\ user = [h \in Handlers |-> None]
    /\ ev = [h \in Handlers |-> None]
    /\ answers = {}
    /\ dups = 0 /\ faults = 0 /\ remaps = 0

Acknowledged(m) == \E a \in answers : a.msg = m /\ a.status \in {200, 202}

\* The events of a user under a key: UNIQUE (user_id, idempotency_key).
Stored(u, k) == {i \in Ids : row[i] # None /\ row[i].user = u /\ row[i].key = k}

Fault == faults < MaxFaults /\ faults' = faults + 1

Goto(h, place) == pc' = [pc EXCEPT ![h] = place]

\* The request is over, answered or not.
Done(h) ==
    /\ Goto(h, "idle")
    /\ msg' = [msg EXCEPT ![h] = None]
    /\ user' = [user EXCEPT ![h] = None]
    /\ ev' = [ev EXCEPT ![h] = None]

Answer(h, status) ==
    /\ answers' = answers \cup {[msg |-> msg[h], status |-> status, ev |-> ev[h]]}
    /\ Done(h)

\* The provider posts a message it has no acknowledgement for, or a message
\* is delivered once more.  Signature and fields are checked before anything
\* else; a refusal is not an acknowledgement.
Deliver(h, m) ==
    /\ pc[h] = "idle"
    /\ IF Acknowledged(m) THEN dups < MaxDups /\ dups' = dups + 1 ELSE UNCHANGED dups
    /\ \/ /\ m.valid
          /\ Goto(h, "lookup")
          /\ msg' = [msg EXCEPT ![h] = m]
          /\ UNCHANGED answers
       \/ /\ ~m.valid
          /\ answers' = answers \cup {[msg |-> m, status |-> 400, ev |-> None]}
          /\ UNCHANGED <<pc, msg>>
    /\ UNCHANGED <<row, refUser, user, ev, faults, remaps>>

\* UserIDByRef.
Lookup(h) ==
    /\ pc[h] = "lookup"
    /\ refUser[msg[h].ref] # None
    /\ user' = [user EXCEPT ![h] = refUser[msg[h].ref]]
    /\ Goto(h, "insert")
    /\ UNCHANGED <<row, refUser, msg, ev, answers, dups, faults, remaps>>

UnknownRef(h) ==
    /\ pc[h] = "lookup"
    /\ refUser[msg[h].ref] = None
    /\ Answer(h, 404)
    /\ UNCHANGED <<row, refUser, dups, faults, remaps>>

\* Mutated forms of Insert: no unique key behind the ON CONFLICT clause; an
\* insert in progress already counts as a conflict.
InsertNotWaiting(h) ==
    /\ pc[h] = "insert"
    /\ Goto(h, IF /\ Stored(user[h], msg[h].key) = {}
                  /\ \A g \in Handlers : pc[g] = "inserting" => msg[g].key # msg[h].key
               THEN "inserting" ELSE "conflict")
    /\ UNCHANGED <<row, refUser, msg, user, ev, answers, dups, faults, remaps>>
InsertUnguarded(h) ==
    /\ pc[h] = "insert"
    /\ Goto(h, IF Stored(user[h], msg[h].key) = {} THEN "inserting" ELSE "conflict")
    /\ UNCHANGED <<row, refUser, msg, user, ev, answers, dups, faults, remaps>>

\* INSERT ... ON CONFLICT DO NOTHING: waits for whoever is inserting the same
\* key, then inserts, or finds the committed row and returns no row.
Insert(h) ==
    /\ pc[h] = "insert"
    /\ \A g \in Handlers : pc[g] = "inserting" =>
         ~(user[g] = user[h] /\ msg[g].key = msg[h].key)
    /\ Goto(h, IF Stored(user[h], msg[h].key) = {} THEN "inserting" ELSE "conflict")
    /\ UNCHANGED <<row, refUser, msg, user, ev, answers, dups, faults, remaps>>

\* The inserted row becomes visible, under an id that no row has had.
Commit(h) ==
    /\ pc[h] = "inserting"
    /\ \E i \in Ids :
         /\ row[i] = None
         /\ row' = [row EXCEPT ![i] =
                      [user |-> user[h], key |-> msg[h].key, body |-> msg[h].body]]
         /\ ev' = [ev EXCEPT ![h] = i]
    /\ Goto(h, "created")
    /\ UNCHANGED <<refUser, msg, user, answers, dups, faults, remaps>>

\* Mutated form of ReadExisting: a conflict is an error.
ReadExistingRefused(h) ==
    /\ pc[h] = "conflict"
    /\ Answer(h, 500)
    /\ UNCHANGED <<row, refUser, dups, faults, remaps>>

\* GetByIdempotency, in a statement of its own; ErrNotFound would be answered
\* as an internal error.
ReadExisting(h) ==
    /\ pc[h] = "conflict"
    /\ IF Stored(user[h], msg[h].key) = {}
         THEN Answer(h, 500)
         ELSE /\ \E i \in Stored(user[h], msg[h].key) : ev' = [ev EXCEPT ![h] = i]
              /\ Goto(h, "found")
              /\ UNCHANGED <<msg, user, answers>>
    /\ UNCHANGED <<row, refUser, dups, faults, remaps>>

\* Mutated form of Respond: a conflict is answered like a first delivery.
RespondAccepted(h) ==
    /\ pc[h] \in {"created", "found"}
    /\ Answer(h, 202)
    /\ UNCHANGED <<row, refUser, dups, faults, remaps>>

Respond(h) ==
    /\ \/ pc[h] = "created" /\ Answer(h, 202)
       \/ pc[h] = "found" /\ Answer(h, 200)
    /\ UNCHANGED <<row, refUser, dups, faults, remaps>>

\* Mutated form of CallFails: the error of CreatePending is dropped.
CallFailsAccepted(h) ==
    /\ pc[h] \in {"lookup", "insert", "inserting", "created", "conflict"}
    /\ Fault
    /\ Answer(h, IF pc[h] = "lookup" THEN 500 ELSE 202)
    /\ UNCHANGED <<row, refUser, dups, remaps>>

\* Any of the statements fails: rolled back or, of the insert, committed all
\* the same.
CallFails(h) ==
    /\ pc[h] \in {"lookup", "insert", "inserting", "created", "conflict"}
    /\ Fault
    /\ Answer(h, 500)
    /\ UNCHANGED <<row, refUser, dups, remaps>>

\* The connection is cut, or the process dies: a row not committed is gone,
\* a committed one stays, and the provider hears nothing.
Die(h) ==
    /\ pc[h] # "idle"
    /\ Fault
    /\ Done(h)
    /\ UNCHANGED <<row, refUser, answers, dups, remaps>>

\* UPDATE users SET user_ref (SetUserRef, scripts/seed_webhooks.sh); UNIQUE.
SetUserRef(r, u) ==
    /\ remaps < MaxRemaps
    /\ refUser[r] # u
    /\ \A s \in Refs : refUser[s] = u => s = r
    /\ refUser' = [refUser EXCEPT ![r] = u]
    /\ remaps' = remaps + 1
    /\ UNCHANGED <<row, handlers, answers, dups, faults>>

HandlerStep(h) ==
    \/ Lookup(h) \/ UnknownRef(h)
    \/ Insert(h) \/ Commit(h) \/ ReadExisting(h)
    \/ Respond(h) \/ CallFails(h) \/ Die(h)

Next ==
    \/ \E h \in Handlers : HandlerStep(h) \/ \E m \in Messages : Deliver(h, m)
    \/ \E r \in Refs, u \in Users : SetUserRef(r, u)

Spec == Init /\ [][Next]_vars

\* A request is served to its end, and the provider keeps posting a message
\* until it is acknowledged, as webhook senders do.
Fairness ==
    /\ \A h \in Handlers : WF_vars(HandlerStep(h))
    /\ \A m \in Messages : SF_vars(\E h \in Handlers : ~Acknowledged(m) /\ Deliver(h, m))

FairSpec == Spec /\ Fairness

(***************************************************************************)
(* Properties                                                              *)
(***************************************************************************)

\* However deliveries of a key overlap, a user has one event under it.
OneEventPerKey ==
    \A i, j \in Ids :
        /\ row[i] # None /\ row[j] # None
        /\ row[i].user = row[j].user /\ row[i].key = row[j].key
        => i = j

\* A positive answer is about a stored event with the message's key, and a
\* 202, the first answer of a key, about the event with the message's body.
AnswersHonest ==
    \A a \in answers : a.status \in {200, 202} =>
        /\ a.ev # None /\ row[a.ev] # None
        /\ row[a.ev].key = a.msg.key
        /\ a.status = 202 => row[a.ev].body = a.msg.body

\* At most one delivery of an event is told, or about to be told, that it was
\* the first.
AcceptedOnce ==
    /\ \A a, b \in answers : a.status = 202 /\ b.status = 202 /\ a.ev = b.ev => a = b
    /\ \A g, h \in Handlers : pc[g] = "created" /\ pc[h] = "created" /\ ev[g] = ev[h] => g = h
    /\ \A h \in Handlers, a \in answers : ~(pc[h] = "created" /\ a.status = 202 /\ a.ev = ev[h])

\* Whoever loses the insert finds the row that beat it: a replay never ends
\* in an internal error for want of the event it replays.
ReplayFindsEvent ==
    \A h \in Handlers : pc[h] = "conflict" => Stored(user[h], msg[h].key) # {}

\* No redelivery, with whatever body, changes a stored event.
EventsImmutable ==
    [][\A i \in Ids : row[i] # None => row'[i] = row[i]]_vars

\* As long as its user_ref is mapped, a message that is posted until it is
\* acknowledged is acknowledged.
EventuallyAcknowledged ==
    \A m \in Messages :
        m.valid => (<>[](refUser[m.ref] # None) => <>Acknowledged(m))
===============================================================================
