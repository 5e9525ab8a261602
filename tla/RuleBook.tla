------------------------------- MODULE RuleBook -------------------------------
(***************************************************************************)
(* Alert rules: the requests on /v1/alert-rules (api/internal/rules), the  *)
(* demo, which makes a rule and injects events (api/internal/demo), and    *)
(* the matching of an event by the worker (process of api/internal/worker),*)
(* each statement a step.  How a worker comes by an event is the subject   *)
(* of EventQueue.  Amounts and thresholds are in tenths.                   *)
(***************************************************************************)
EXTENDS Integers, FiniteSets, Sequences

CONSTANTS
    Handlers,      \* requests served at a time
    Workers,
    Users, Names, Types,
    DemoName,      \* demoRuleName
    Thresholds,    \* numbers
    Null,          \* the threshold that a rule need not have
    Rules,         \* the values of gen_random_uuid()
    None,
    Inputs,        \* the bodies of POST /v1/alert-rules
    Patches,       \* the bodies of PATCH /v1/alert-rules/{id}
    Events, Event, \* the events that there may be, and what is in each
    Arrivals,      \* those that a provider sends
    Offers,        \* bound: which of them there may be at a time
    Counts,        \* how many events a simulation may be asked for
    DemoOverlap    \* a user may run two simulations at the same time

ThresholdOrNull == Thresholds \cup {Null}
Fields == [name : Names, type : Types, threshold : ThresholdOrNull, enabled : BOOLEAN]
\* A field that a PATCH omits is None.
PatchType == [name : Names \cup {None}, type : Types \cup {None},
              threshold : ThresholdOrNull \cup {None}, enabled : BOOLEAN \cup {None}]
\* The payload of an event: an object whose amount is a number, absent, null
\* or something else, or no object at all.
Payloads == [kind : {"number", "absent", "null", "other", "no object"}, n : Int]
\* The idempotency key of a simulated event tells its place in the simulation.
EventType == [user : Users, type : Types, payload : Payloads, place : 0..5]

DemoFields == [name |-> DemoName, type |-> "balance_drop", threshold |-> 1000, enabled |-> TRUE]
demoSpecs == <<[type |-> "balance_drop", amount |-> 1205], [type |-> "swap_quote", amount |-> 400],
               [type |-> "balance_drop", amount |-> 850], [type |-> "swap_quote", amount |-> 125],
               [type |-> "balance_drop", amount |-> 2000]>>
Simulated(u, i) == [user |-> u, type |-> demoSpecs[i].type,
                    payload |-> [kind |-> "number", n |-> demoSpecs[i].amount], place |-> i]

ASSUME BodiesAssumption ==
    Inputs \subseteq Fields /\ Patches \subseteq PatchType /\ Event \in [Events -> EventType]
ASSUME DemoAssumption == DemoFields \in Fields /\ DemoOverlap \in BOOLEAN /\ Counts \subseteq Int
ASSUME OffersAssumption ==
    /\ Arrivals \subseteq Events /\ Offers \subseteq SUBSET Events
    /\ \A e \in Arrivals : Event[e].place = 0
ASSUME NoneAssumption ==
    /\ None \notin Rules /\ None \notin Users /\ None \notin Events
    /\ None \notin Names /\ None \notin Types /\ None \notin ThresholdOrNull
    /\ None \notin BOOLEAN /\ None \notin Fields /\ None \notin Patches
    /\ None \notin [user : Users, fields : Fields] /\ Null \notin Thresholds

VARIABLES
    rule,      \* the table alert_rules
    order,     \* the ids given so far, ORDER BY created_at
    pc, by, target, body, current,   \* of each request: its place, its user,
                                     \* the rule of its path, what it asks for,
                                     \* what UpdateForUser has read,
    wanted, made,                    \* the events a simulation is to insert, and has
    status, matched,                 \* of each event
    job, found                       \* of each worker: its event, process()'s result

requests == <<pc, by, target, body, current, wanted, made>>
queue == <<status, matched, job, found>>
vars == <<rule, order, requests, queue>>

Row == [user : Users, fields : Fields]

\* The types, the foreign key of matched_rule_id and the order of creation.
TypeOK ==
    /\ rule \in [Rules -> Row \cup {None}]
    /\ order \in Seq(Rules)
    /\ \A i, j \in DOMAIN order : order[i] = order[j] => i = j
    /\ \A r \in Rules : rule[r] # None => \E i \in DOMAIN order : order[i] = r
    /\ pc \in [Handlers -> {"idle", "create", "patch", "merge", "delete", "list", "insert", "inject"}]
    /\ by \in [Handlers -> Users \cup {None}]
    /\ target \in [Handlers -> Rules \cup {None}]
    /\ body \in [Handlers -> Fields \cup Patches \cup {None}]
    /\ current \in [Handlers -> Fields \cup {None}]
    /\ wanted \in [Handlers -> 0..5] /\ made \in [Handlers -> 0..5]
    /\ status \in [Events -> {"never", "none", "open", "processed", "failed"}]
    /\ matched \in [Events -> Rules \cup {None}]
    /\ job \in [Workers -> Events \cup {None}]
    /\ found \in [Workers -> Rules \cup {None}]

Init ==
    /\ rule = [r \in Rules |-> None]
    /\ order = <<>>
    /\ pc = [h \in Handlers |-> "idle"]
    /\ by = [h \in Handlers |-> None]
    /\ target = [h \in Handlers |-> None]
    /\ body = [h \in Handlers |-> None]
    /\ current = [h \in Handlers |-> None]
    /\ wanted = [h \in Handlers |-> 0] /\ made = [h \in Handlers |-> 0]
    /\ \E o \in Offers : status =
         [e \in Events |-> IF e \notin o THEN "never" ELSE IF e \in Arrivals THEN "open" ELSE "none"]
    /\ matched = [e \in Events |-> None]
    /\ job = [w \in Workers |-> None]
    /\ found = [w \in Workers |-> None]

(***************************************************************************)
(* Requests                                                                *)
(***************************************************************************)
\* A request that has passed the authentication and the validation of its
\* fields; the others change nothing.
Begin(h, place, u, r, b, n) ==
    /\ pc[h] = "idle"
    /\ pc' = [pc EXCEPT ![h] = place]
    /\ by' = [by EXCEPT ![h] = u]
    /\ target' = [target EXCEPT ![h] = r]
    /\ body' = [body EXCEPT ![h] = b]
    /\ wanted' = [wanted EXCEPT ![h] = n]
    /\ UNCHANGED <<rule, order, current, made, queue>>

Created(r) == \E i \in DOMAIN order : order[i] = r

\* A simulation injects one event at least, and five at most.
Clamp(n) == IF n <= 0 THEN 1 ELSE IF n > 5 THEN 5 ELSE n

\* Users know the ids of rules that are theirs, or once were, and may try
\* those of others.  A simulation ensures the demo rule first, if it is asked to.
Receive(h, u) ==
    \/ \E b \in Inputs : Begin(h, "create", u, None, b, 0)
    \/ \E r \in Rules :
         /\ Created(r)
         /\ Begin(h, "delete", u, r, None, 0) \/ \E b \in Patches : Begin(h, "patch", u, r, b, 0)
    \/ /\ DemoOverlap \/ \A g \in Handlers : pc[g] \in {"list", "insert", "inject"} => by[g] # u
       /\ \E n \in Counts : \/ Begin(h, "list", u, None, DemoFields, Clamp(n))
                            \/ Begin(h, "inject", u, None, None, Clamp(n))

Done(h) ==
    /\ pc' = [pc EXCEPT ![h] = "idle"]
    /\ by' = [by EXCEPT ![h] = None]
    /\ target' = [target EXCEPT ![h] = None]
    /\ body' = [body EXCEPT ![h] = None]
    /\ current' = [current EXCEPT ![h] = None]
    /\ wanted' = [wanted EXCEPT ![h] = 0]
    /\ made' = [made EXCEPT ![h] = 0]

Goto(h, place) ==
    /\ pc' = [pc EXCEPT ![h] = place]
    /\ UNCHANGED <<by, target, body, current, wanted, made>>

\* WHERE id = $1 AND user_id = $2.
Owns(u, r) == rule[r] # None /\ rule[r].user = u

\* Bound: as many rules as there are ids, after which the insert fails.
AddRule(u, fields) ==
    \E r \in Rules :
      /\ ~Created(r)
      /\ rule' = [rule EXCEPT ![r] = [user |-> u, fields |-> fields]]
      /\ order' = Append(order, r)

Create(h) ==
    /\ pc[h] = "create"
    /\ AddRule(by[h], body[h])
    /\ Done(h)
    /\ UNCHANGED queue

ListByUser(u) == {r \in Rules : Owns(u, r)}

\* Mutated form of List: it overlooks rules that are switched off.
ListEnabled(h) ==
    /\ pc[h] = "list"
    /\ IF \E r \in ListByUser(by[h]) : rule[r].fields.name = DemoName /\ rule[r].fields.enabled
         THEN Goto(h, "inject")
         ELSE Goto(h, "insert")
    /\ UNCHANGED <<rule, order, queue>>

\* ensureDemoRule, and nothing to do if there is a demo rule.
List(h) ==
    /\ pc[h] = "list"
    /\ Goto(h, IF \E r \in ListByUser(by[h]) : rule[r].fields.name = DemoName
                 THEN "inject" ELSE "insert")
    /\ UNCHANGED <<rule, order, queue>>

\* The end of ensureDemoRule.
Ensure(h) ==
    /\ pc[h] = "insert"
    /\ AddRule(by[h], body[h])
    /\ Goto(h, "inject")
    /\ UNCHANGED queue

\* Simulate inserts the next of its events, and is done with the last, or when
\* the outcome of an insert is lost.  Bound: each event is inserted once.
Inject(h) ==
    /\ pc[h] = "inject"
    /\ \E e \in Events :
         /\ Event[e] = Simulated(by[h], made[h] + 1) /\ status[e] = "none"
         /\ status' = [status EXCEPT ![e] = "open"]
    /\ \/ Done(h)
       \/ /\ made[h] + 1 < wanted[h]
          /\ made' = [made EXCEPT ![h] = @ + 1]
          /\ UNCHANGED <<pc, by, target, body, current, wanted>>
    /\ UNCHANGED <<rule, order, matched, job, found>>

\* UpdateForUser reads the rule, or answers 404.
Read(h) ==
    /\ pc[h] = "patch"
    /\ IF Owns(by[h], target[h])
         THEN /\ pc' = [pc EXCEPT ![h] = "merge"]
              /\ current' = [current EXCEPT ![h] = rule[target[h]].fields]
              /\ UNCHANGED <<by, target, body, wanted, made>>
         ELSE Done(h)
    /\ UNCHANGED <<rule, order, queue>>

Merge(old, patch) == [f \in DOMAIN old |-> IF patch[f] = None THEN old[f] ELSE patch[f]]

\* Mutated form of Update: INSERT ... ON CONFLICT DO UPDATE.
UpdateOrInsert(h) ==
    /\ pc[h] = "merge"
    /\ rule' = [rule EXCEPT ![target[h]] =
                  [user |-> by[h], fields |-> Merge(current[h], body[h])]]
    /\ Done(h)
    /\ UNCHANGED <<order, queue>>

\* UPDATE of all four fields, or 404 when the rule has gone meanwhile.
Update(h) ==
    /\ pc[h] = "merge"
    /\ rule' = IF Owns(by[h], target[h])
                 THEN [rule EXCEPT ![target[h]].fields = Merge(current[h], body[h])]
                 ELSE rule
    /\ Done(h)
    /\ UNCHANGED <<order, queue>>

RemoveRule(r) ==
    /\ rule' = [rule EXCEPT ![r] = None]
    /\ matched' = [e \in Events |-> IF matched[e] = r THEN None ELSE matched[e]]

\* DELETE, and ON DELETE SET NULL; or 404.
Delete(h) ==
    /\ pc[h] = "delete"
    /\ IF Owns(by[h], target[h]) THEN RemoveRule(target[h]) ELSE UNCHANGED <<rule, matched>>
    /\ Done(h)
    /\ UNCHANGED <<order, status, job, found>>

\* Mutated form of Fail: a simulation goes on with its next event.
FailNext(h) ==
    /\ pc[h] # "idle"
    /\ IF pc[h] = "inject" /\ made[h] + 1 < wanted[h]
         THEN /\ made' = [made EXCEPT ![h] = @ + 1]
              /\ UNCHANGED <<pc, by, target, body, current, wanted>>
         ELSE Done(h)
    /\ UNCHANGED <<rule, order, queue>>

\* A statement fails, or the process dies before it.
Fail(h) ==
    /\ pc[h] # "idle"
    /\ Done(h)
    /\ UNCHANGED <<rule, order, queue>>

(***************************************************************************)
(* The worker                                                              *)
(***************************************************************************)
\* payloadAmount: json.Unmarshal leaves a float64 at 0 when it meets null.
ValidPayload(p) == p.kind \notin {"other", "no object"}
HasAmount(p) == p.kind \in {"number", "null"}
Amount(p) == IF p.kind = "null" THEN 0 ELSE p.n

Covers(fields, p) ==
    fields.threshold = Null \/ (HasAmount(p) /\ Amount(p) <= fields.threshold)

\* Mutated form of EnabledByUserAndType: without the user.
EnabledByType(e) ==
    {i \in DOMAIN order : /\ rule[order[i]] # None
                          /\ rule[order[i]].fields.type = Event[e].type
                          /\ rule[order[i]].fields.enabled}

\* The candidates, by their places in the order of creation.
EnabledByUserAndType(e) ==
    {i \in DOMAIN order : /\ Owns(Event[e].user, order[i])
                          /\ rule[order[i]].fields.type = Event[e].type
                          /\ rule[order[i]].fields.enabled}

\* The loop over the candidates returns the first that covers the amount.
Hits(e) == {i \in EnabledByUserAndType(e) : Covers(rule[order[i]].fields, Event[e].payload)}
FirstMatch(e) ==
    IF Hits(e) = {} THEN None ELSE order[CHOOSE i \in Hits(e) : \A j \in Hits(e) : i <= j]

\* A worker that has claimed e runs process(): the payload is fine, and the
\* rules are those of this moment.
Process(w, e) ==
    /\ job[w] = None
    /\ status[e] = "open"
    /\ ValidPayload(Event[e].payload)
    /\ job' = [job EXCEPT ![w] = e]
    /\ found' = [found EXCEPT ![w] = FirstMatch(e)]
    /\ UNCHANGED <<rule, order, requests, status, matched>>

\* The payload is not: the event runs out of attempts.
Reject(e) ==
    /\ status[e] = "open"
    /\ ~ValidPayload(Event[e].payload)
    /\ status' = [status EXCEPT ![e] = "failed"]
    /\ UNCHANGED <<rule, order, requests, matched, job, found>>

\* Mutated form of MarkProcessed: no foreign key behind matched_rule_id.
MarkProcessedUnchecked(w) ==
    /\ job[w] # None
    /\ status' = [status EXCEPT ![job[w]] = "processed"]
    /\ matched' = [matched EXCEPT ![job[w]] = found[w]]
    /\ job' = [job EXCEPT ![w] = None]
    /\ found' = [found EXCEPT ![w] = None]
    /\ UNCHANGED <<rule, order, requests>>

\* MarkProcessed, unless another worker has settled the event already, or the
\* rule is gone and the foreign key fails: the event is processed again then.
MarkProcessed(w) ==
    /\ job[w] # None
    /\ IF status[job[w]] = "open" /\ (found[w] = None \/ rule[found[w]] # None)
         THEN /\ status' = [status EXCEPT ![job[w]] = "processed"]
              /\ matched' = [matched EXCEPT ![job[w]] = found[w]]
         ELSE UNCHANGED <<status, matched>>
    /\ job' = [job EXCEPT ![w] = None]
    /\ found' = [found EXCEPT ![w] = None]
    /\ UNCHANGED <<rule, order, requests>>

RequestStep(h) ==
    \/ Create(h) \/ List(h) \/ Ensure(h) \/ Inject(h) \/ Read(h) \/ Update(h) \/ Delete(h) \/ Fail(h)

Next ==
    \/ \E h \in Handlers : RequestStep(h) \/ \E u \in Users : Receive(h, u)
    \/ \E w \in Workers : MarkProcessed(w) \/ \E e \in Events : Process(w, e)
    \/ \E e \in Events : Reject(e)

Spec == Init /\ [][Next]_vars

(***************************************************************************)
(* Properties                                                              *)
(***************************************************************************)

\* The rule of a processed event is the event's user's own, whatever is
\* patched and deleted between the match and the mark.  NamesByIDs, which
\* looks up the names of matched rules without asking for the user, tells
\* nobody the name of another's rule.
MatchedIsOwn == \A e \in Events : matched[e] # None => Owns(Event[e].user, matched[e])

\* What the worker decides on, taken from the table as it is when it reads:
\* the oldest of the rules that apply.  An amount of null counts as nothing left,
\* and an event without an amount passes no threshold.
Passes(p, threshold) ==
    \/ threshold = Null
    \/ p.kind = "number" /\ p.n <= threshold
    \/ p.kind = "null" /\ 0 <= threshold
Applying(e) ==
    {r \in Rules : /\ rule[r] # None /\ rule[r].user = Event[e].user
                   /\ rule[r].fields.enabled /\ rule[r].fields.type = Event[e].type
                   /\ Passes(Event[e].payload, rule[r].fields.threshold)}
OldestApplies ==
    [][\A w \in Workers, e \in Events : job[w] = None /\ job'[w] = e =>
          \/ (Applying(e) = {}) /\ found'[w] = None
          \/ \E i \in DOMAIN order :
               /\ order[i] \in Applying(e) /\ order[i] = found'[w]
               /\ \A j \in 1..(i - 1) : order[j] \notin Applying(e)]_vars

\* A deleted rule never comes back, not even by a PATCH that read it before.
DeletedStays ==
    [][\A r \in Rules : rule[r] = None /\ Created(r) => rule'[r] = None]_vars

\* Unless a user runs two simulations at the same time, and as long as nobody
\* gives the name to another rule, there is one demo rule per user at most.
OneDemoRule ==
    ~DemoOverlap => \A r, s \in Rules : \A u \in Users :
        /\ Owns(u, r) /\ rule[r].fields.name = DemoName
        /\ Owns(u, s) /\ rule[s].fields.name = DemoName
        => r = s

\* Whenever a simulation stops, and whatever it was told of its inserts, the
\* queue has the first of its events, in the order of demoSpecs, and no others.
Stored(e) == status[e] \notin {"never", "none"}
SimulatedInOrder ==
    \A e \in Events : Stored(e) /\ Event[e].place > 1 =>
      \E d \in Events : /\ Stored(d) /\ Event[d].user = Event[e].user
                        /\ Event[d].place = Event[e].place - 1

\* A threshold that a PATCH omits is not changed by it: the comment at
\* optionalFloat64 of rules/handler.go.
OmittedThresholdKept ==
    [][\A h \in Handlers : Update(h) /\ body[h].threshold = None =>
          (rule[target[h]] # None /\ rule'[target[h]] # None =>
             rule'[target[h]].fields.threshold = rule[target[h]].fields.threshold)]_vars
===============================================================================
