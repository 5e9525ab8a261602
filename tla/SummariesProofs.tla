---------------------------- MODULE SummariesProofs ----------------------------
(***************************************************************************)
(* What is summarized for a user is the user's own, the screen shows only  *)
(* what has been audited, and no prompt mixes two states of an event: the  *)
(* proofs.  A request knows that its events are its user's from their      *)
(* number alone, since one event is found for an id at most; from then on  *)
(* an event that had a rule when it was read is settled for good.          *)
(***************************************************************************)
EXTENDS Summaries, FiniteSetTheorems, TLAPS

OwnIds(u, ids) == \A i \in ids : Uuid[i] \in Events /\ Owner[Uuid[i]] = u

\* A request has read its events and found one for each id.
Read(k) == k.place # "reading" => OwnIds(k.user, k.ids)

\* What it has seen of an event: nothing, if the id is not the event's text;
\* and if it has seen a rule, then the event keeps it until the rule is deleted.
SeenRule(i, row) ==
    row.rule # None =>
      /\ row.status = "processed" /\ event[Uuid[i]].status = "processed"
      /\ Owner[row.rule] = Owner[Uuid[i]]
      /\ event[Uuid[i]].rule # row.rule => event[Uuid[i]].rule = None /\ name[row.rule] = None
Seen(k) ==
    \A i \in Ids : k.seen[i] # None =>
      k.place # "reading" /\ i \in k.ids /\ SeenRule(i, k.seen[i])
SeenAll(k) ==
    k.place = "naming" => \A i \in k.ids : (k.seen[i] = None) <=> (Text[Uuid[i]] # i)

NamesOwn(u, facts) ==
    \A i \in Ids : facts[i] # None /\ facts[i].name # None => Owner[facts[i].name] = u

Saved(k) == k.place = "answering" => AuditOf(k) \in audit
Mine(k)  == k.waited => k.user = me /\ k.ids = NormalizeIDs(asked)

CallOK(k) ==
    Read(k) /\ Seen(k) /\ SeenAll(k) /\ NamesOwn(k.user, k.facts) /\ Saved(k) /\ Mine(k)

EventsOK ==
    \A e \in Events : event[e].rule # None =>
      event[e].status = "processed" /\ Owner[event[e].rule] = Owner[e]
NamesOK == \A r \in Rules : name[r] # None => Owner[name[r]] = Owner[r]
CallsOK == \A c \in Calls : call[c] # None => CallOK(call[c])

Inv == TypeOK /\ EventsOK /\ NamesOK /\ CallsOK /\ AuditIsOwn /\ ShownIsAudited

(***************************************************************************)
(* The count of events                                                     *)
(***************************************************************************)
\* As many events as ids: every id denotes an event of the user.
LEMMA AllFound ==
  ASSUME NEW u \in Users, NEW ids \in SUBSET Ids,
         Cardinality(GetForUserIDs(u, ids)) = Cardinality(ids)
  PROVE  OwnIds(u, ids)
<1> DEFINE found == GetForUserIDs(u, ids)
           own == {i \in ids : Uuid[i] \in found}
           f == [i \in own |-> Uuid[i]]
<1>1. IsFiniteSet(ids)
  BY FS_Subset, IdsAssumption
<1>2. own \in SUBSET ids /\ IsFiniteSet(own)
  BY <1>1, FS_Subset
<1>3. f \in Surjection(own, found)
  BY IdsAssumption DEF GetForUserIDs, Surjection
<1>4. Cardinality(found) <= Cardinality(own)
  BY <1>2, <1>3, FS_Surjection
<1>5. Cardinality(own) <= Cardinality(ids) /\ (Cardinality(ids) = Cardinality(own) => ids = own)
  BY <1>1, <1>2, FS_Subset
<1>6. Cardinality(own) \in Nat /\ Cardinality(ids) \in Nat
  BY <1>1, <1>2, FS_CardinalityType
<1>7. ids = own
  BY <1>4, <1>5, <1>6
<1>8. QED
  BY <1>7 DEF GetForUserIDs, OwnIds

\* A request that has just arrived.
LEMMA ArrivedType ==
  ASSUME NEW u \in Users, NEW raw \in Requests, NEW w \in BOOLEAN
  PROVE  Arrived(u, raw, w) \in Call
<1>1. NormalizeIDs(raw) \subseteq Ids
  BY RequestsAssumption DEF NormalizeIDs
<1>2. QED
  BY <1>1 DEF Arrived, Call, Nothing, Facts

LEMMA ArrivedOK ==
  ASSUME NEW u \in Users, NEW raw \in Requests, NEW w \in BOOLEAN,
         w => u = me /\ raw = asked
  PROVE  CallOK(Arrived(u, raw, w))
  BY DEF Arrived, CallOK, Read, Seen, SeenAll, NamesOwn, Saved, Mine, Nothing

(***************************************************************************)
(* The initial states                                                      *)
(***************************************************************************)
LEMMA InitInv == Init => Inv
<1>1. SUFFICES ASSUME Init PROVE Inv
  OBVIOUS
<1>2. event \in [Events -> Row]
  BY <1>1, NoneAssumption DEF Init, Row, Statuses
<1>3. TypeOK
  BY <1>1, <1>2, ClientsAssumption DEF Init, TypeOK, Nothing, Facts
<1>4. EventsOK
  <2>1. SUFFICES ASSUME NEW e \in Events, event[e].rule # None
                 PROVE  event[e].status = "processed" /\ Owner[event[e].rule] = Owner[e]
    BY DEF EventsOK
  <2>2. event[e] \in [status : {"pending"}, rule : {None}] \cup [status : {"processed"}, rule : Rules]
    BY <1>1 DEF Init
  <2>3. QED
    BY <1>1, <2>1, <2>2 DEF Init
<1>5. QED
  BY <1>1, <1>3, <1>4 DEF Init, Inv, NamesOK, CallsOK, AuditIsOwn, ShownIsAudited

(***************************************************************************)
(* The worker, and the users' rules                                        *)
(***************************************************************************)
\* A change of the tables that leaves alone what requests have seen.
LEMMA TablesStep ==
  ASSUME Inv, UNCHANGED <<call, audit, screen, faults>>,
         event' \in [Events -> Row], name' \in [Rules -> Names \cup {None}],
         EventsOK', NamesOK',
         \A c \in Calls : call[c] # None => Seen(call[c])'
  PROVE  Inv'
<1>1. TypeOK'
  BY DEF Inv, TypeOK, screen
<1>2. CallsOK'
  <2>1. SUFFICES ASSUME NEW c \in Calls, call[c] # None
                 PROVE  CallOK(call[c])'
    BY DEF CallsOK
  <2>2. QED
    BY <2>1 DEF Inv, CallsOK, CallOK, Read, SeenAll, Saved, Mine, screen
<1>3. QED
  BY <1>1, <1>2 DEF Inv, AuditIsOwn, ShownIsAudited, screen

LEMMA WorkInv == ASSUME Inv, NEW e \in Events, Work(e) PROVE Inv'
<1>1. /\ event' \in [Events -> Row] /\ name' = name
      /\ UNCHANGED <<call, audit, screen, faults>>
  BY DEF Inv, TypeOK, Work, Row, Statuses
<1>2. EventsOK' /\ NamesOK'
  BY <1>1 DEF Inv, TypeOK, EventsOK, NamesOK, Work, Row
<1>3. ASSUME NEW c \in Calls, call[c] # None PROVE Seen(call[c])'
  <2>1. Seen(call[c])
    BY <1>3 DEF Inv, CallsOK, CallOK
  <2>2. QED
    BY <1>1, <2>1 DEF Seen, SeenRule, Work, Inv, TypeOK, Row
<1>4. QED
  BY <1>1, <1>2, <1>3, TablesStep DEF Inv, TypeOK

LEMMA SettleInv == ASSUME Inv, NEW e \in Events, Settle(e) PROVE Inv'
<1> DEFINE Settled(row) == row.rule # None => row.status = "processed" /\ Owner[row.rule] = Owner[e]
<1>1. PICK row \in Row : event' = [event EXCEPT ![e] = row] /\ Settled(row)
  <2>1. ASSUME NEW r \in Rules, Owner[r] = Owner[e] PROVE
          [status |-> "processed", rule |-> r] \in Row /\ Settled([status |-> "processed", rule |-> r])
    BY <2>1 DEF Row, Statuses
  <2>2. ASSUME NEW s \in {"processed", "failed"} PROVE
          [status |-> s, rule |-> None] \in Row /\ Settled([status |-> s, rule |-> None])
    BY DEF Row, Statuses
  <2> HIDE DEF Settled
  <2>3. QED
    BY <2>1, <2>2 DEF Settle
<1>2. /\ event' \in [Events -> Row] /\ name' = name
      /\ UNCHANGED <<call, audit, screen, faults>>
  BY <1>1 DEF Inv, TypeOK, Settle
<1>3. EventsOK' /\ NamesOK'
  BY <1>1, <1>2 DEF Inv, TypeOK, EventsOK, NamesOK
<1>4. ASSUME NEW c \in Calls, call[c] # None PROVE Seen(call[c])'
  <2>1. Seen(call[c]) /\ event[e].status = "processing"
    BY <1>4 DEF Inv, CallsOK, CallOK, Settle
  <2>2. QED
    BY <1>1, <1>2, <2>1 DEF Seen, SeenRule, Inv, TypeOK
<1>5. QED
  BY <1>2, <1>3, <1>4, TablesStep DEF Inv, TypeOK

LEMMA RenameInv == ASSUME Inv, NEW r \in Rules, Rename(r) PROVE Inv'
<1>1. PICK n \in Names : Owner[n] = Owner[r] /\ name' = [name EXCEPT ![r] = n]
  BY DEF Rename
<1>2. /\ event' = event /\ name' \in [Rules -> Names \cup {None}]
      /\ name[r] # None
      /\ UNCHANGED <<call, audit, screen, faults>>
  BY <1>1 DEF Inv, TypeOK, Rename
<1>3. EventsOK' /\ NamesOK'
  BY <1>1, <1>2 DEF Inv, TypeOK, EventsOK, NamesOK
<1>4. ASSUME NEW c \in Calls, call[c] # None PROVE Seen(call[c])'
  <2>1. Seen(call[c])
    BY <1>4 DEF Inv, CallsOK, CallOK
  <2>2. QED
    BY <1>1, <1>2, <2>1 DEF Seen, SeenRule, Inv, TypeOK
<1>5. QED
  BY <1>2, <1>3, <1>4, TablesStep DEF Inv, TypeOK

LEMMA DeleteInv == ASSUME Inv, NEW r \in Rules, Delete(r) PROVE Inv'
<1>1. /\ event' \in [Events -> Row] /\ name' \in [Rules -> Names \cup {None}]
      /\ UNCHANGED <<call, audit, screen, faults>>
  BY DEF Inv, TypeOK, Delete, Row
<1>2. /\ name' = [name EXCEPT ![r] = None]
      /\ \A e \in Events :
           /\ event'[e].status = event[e].status
           /\ event'[e].rule = IF event[e].rule = r THEN None ELSE event[e].rule
  BY DEF Inv, TypeOK, Delete, Row
<1>3. EventsOK' /\ NamesOK'
  BY <1>2 DEF Inv, TypeOK, EventsOK, NamesOK
<1>4. ASSUME NEW c \in Calls, call[c] # None, NEW i \in Ids, call[c].seen[i] # None
      PROVE  SeenRule(i, call[c].seen[i])'
  <2>1. OwnIds(call[c].user, call[c].ids) /\ i \in call[c].ids /\ SeenRule(i, call[c].seen[i])
    BY <1>4 DEF Inv, CallsOK, CallOK, Seen, Read
  <2>2. Uuid[i] \in Events /\ call[c].seen[i] \in Row
    BY <1>4, <2>1 DEF OwnIds, Inv, TypeOK, Call
  <2>3. QED
    BY <1>1, <1>2, <2>1, <2>2 DEF SeenRule, Inv, TypeOK, Row
<1>5. \A c \in Calls : call[c] # None => Seen(call[c])'
  BY <1>1, <1>4 DEF Seen, Inv, CallsOK, CallOK
<1>6. QED
  BY <1>1, <1>3, <1>5, TablesStep

(***************************************************************************)
(* Requests                                                                *)
(***************************************************************************)
\* A step of the request in c, which leaves it in the state k, or ends it.
LEMMA CallStep ==
  ASSUME Inv, NEW c \in Calls, NEW k \in Call \cup {None},
         call' = [call EXCEPT ![c] = k],
         UNCHANGED <<tables, me, asked>>,
         audit \subseteq audit', audit' \subseteq AuditRow,
         k # None => CallOK(k)'
  PROVE  call' \in [Calls -> Call \cup {None}] /\ CallsOK'
<1>1. call' \in [Calls -> Call \cup {None}]
  BY DEF Inv, TypeOK
<1>2. ASSUME NEW d \in Calls, call'[d] # None PROVE CallOK(call[d])'
  <2>1. CASE d = c
    <3>1. call'[d] = k /\ CallOK(k)'
      BY <1>2, <2>1 DEF Inv, TypeOK
    <3>2. QED
      BY <3>1 DEF CallOK, Read, Seen, SeenRule, SeenAll, Saved, Mine
  <2>2. CASE d # c
    <3>1. call'[d] = call[d] /\ CallOK(call[d])
      BY <1>2, <2>2 DEF Inv, TypeOK, CallsOK
    <3>2. QED
      BY <3>1 DEF CallOK, Read, Seen, SeenRule, SeenAll, Saved, Mine, tables
  <2>3. QED
    BY <2>1, <2>2
<1>3. QED
  BY <1>1, <1>2 DEF CallsOK

\* What a step of a request leaves to show.
LEMMA RequestStep ==
  ASSUME Inv, NEW c \in Calls, NEW k \in Call \cup {None},
         call' = [call EXCEPT ![c] = k],
         UNCHANGED <<tables, me, asked>>,
         audit \subseteq audit', audit' \subseteq AuditRow,
         k # None => CallOK(k)',
         view' \in {"initial", "loading", "ready", "error"}, shown' \in Facts,
         closed' \in BOOLEAN, faults' \in Nat,
         AuditIsOwn', ShownIsAudited'
  PROVE  Inv'
<1>1. call' \in [Calls -> Call \cup {None}] /\ CallsOK'
  BY CallStep
<1>2. TypeOK'
  BY <1>1 DEF Inv, TypeOK, tables
<1>3. EventsOK' /\ NamesOK'
  BY DEF Inv, EventsOK, NamesOK, tables
<1>4. QED
  BY <1>1, <1>2, <1>3 DEF Inv

\* A request that is refused leaves nothing.
LEMMA RefuseInv ==
  ASSUME Inv, NEW c \in Calls, Refuse(c), UNCHANGED tables, faults' \in Nat,
         audit \subseteq audit', audit' \subseteq AuditRow, AuditIsOwn'
  PROVE  Inv'
<1>1. /\ view' \in {"initial", "loading", "ready", "error"} /\ shown' \in Facts
      /\ closed' \in BOOLEAN /\ UNCHANGED <<me, asked>>
      /\ view' = "ready" => view = "ready" /\ shown' = shown
  BY DEF Inv, TypeOK, Refuse
<1>2. ShownIsAudited'
  BY <1>1 DEF Inv, ShownIsAudited
<1>3. call' = [call EXCEPT ![c] = None]
  BY DEF Refuse
<1>4. QED
  BY <1>1, <1>2, <1>3, RequestStep

\* A step that leaves the audit table and what is shown as they are.
LEMMA QuietStep ==
  ASSUME Inv, NEW c \in Calls, NEW k \in Call \cup {None},
         call' = [call EXCEPT ![c] = k],
         UNCHANGED <<tables, me, asked, audit, shown, closed>>,
         view' = view \/ view' \in {"loading", "error"},
         faults' \in Nat, k # None => CallOK(k)'
  PROVE  Inv'
<1>1. AuditIsOwn' /\ ShownIsAudited'
  BY DEF Inv, AuditIsOwn, ShownIsAudited
<1>2. audit \subseteq audit' /\ audit' \subseteq AuditRow
  BY DEF Inv, TypeOK
<1>3. view' \in {"initial", "loading", "ready", "error"} /\ shown' \in Facts /\ closed' \in BOOLEAN
  BY DEF Inv, TypeOK
<1>4. QED
  BY <1>1, <1>2, <1>3, RequestStep

LEMMA AskInv == ASSUME Inv, NEW c \in Calls, NEW u \in Clients, NEW raw \in Requests, Ask(c, u, raw)
                PROVE  Inv'
<1>1. u \in Users
  BY ClientsAssumption
<1>2. PICK k \in Call : k = Arrived(u, raw, FALSE) /\ CallOK(k)
  BY <1>1, ArrivedType, ArrivedOK
<1>3. call' = [call EXCEPT ![c] = k] /\ UNCHANGED <<tables, audit, screen, faults>>
  BY <1>2 DEF Ask
<1>4. CallOK(k)'
  BY <1>2, <1>3 DEF CallOK, Read, Seen, SeenRule, SeenAll, Saved, Mine, tables, screen
<1>5. QED
  BY <1>2, <1>3, <1>4, QuietStep DEF Inv, TypeOK, screen

LEMMA LoadInv == ASSUME Inv, NEW c \in Calls, Load(c) PROVE Inv'
<1>1. CASE asked = <<>>
  <2>1. view' = "error" /\ UNCHANGED <<call, tables, audit, me, asked, shown, closed, faults>>
    BY <1>1 DEF Load
  <2>2. call' = [call EXCEPT ![c] = None]
    BY <2>1 DEF Load, Inv, TypeOK
  <2>3. QED
    BY <2>1, <2>2, QuietStep DEF Inv, TypeOK
<1>2. CASE asked # <<>>
  <2>1. PICK k \in Call : k = Arrived(me, asked, TRUE) /\ CallOK(k)
    BY ArrivedType, ArrivedOK DEF Inv, TypeOK
  <2>2. /\ call' = [call EXCEPT ![c] = k] /\ view' = "loading"
        /\ UNCHANGED <<tables, audit, me, asked, shown, closed, faults>>
    BY <1>2, <2>1 DEF Load
  <2>3. CallOK(k)'
    BY <2>1, <2>2 DEF CallOK, Read, Seen, SeenRule, SeenAll, Saved, Mine, tables
  <2>4. QED
    BY <2>1, <2>2, <2>3, QuietStep DEF Inv, TypeOK
<1>3. QED
  BY <1>1, <1>2

\* The one step that reads the events: it counts them.
LEMMA ReadEventsInv == ASSUME Inv, NEW c \in Calls, ReadEvents(c) PROVE Inv'
<1> DEFINE ids == call[c].ids
           seen == [i \in Ids |-> IF i \in ids THEN EventOf(i) ELSE None]
<1>1. call[c] \in Call /\ CallOK(call[c]) /\ call[c].place = "reading"
  BY DEF Inv, TypeOK, CallsOK, ReadEvents, At
<1>2. UNCHANGED <<tables, audit, faults>>
  BY DEF ReadEvents
<1>3. CASE Refuse(c)
  <2>1. faults' \in Nat /\ audit \subseteq audit' /\ audit' \subseteq AuditRow /\ AuditIsOwn'
    BY <1>2 DEF Inv, TypeOK, AuditIsOwn
  <2>2. QED
    BY <1>2, <1>3, <2>1, RefuseInv
<1>4. CASE ~Refuse(c)
  <2>1. /\ Cardinality(GetForUserIDs(call[c].user, ids)) = Cardinality(ids)
        /\ call' = [call EXCEPT ![c].place = "naming", ![c].seen = seen]
        /\ UNCHANGED screen
    BY <1>4 DEF ReadEvents
  <2>2. OwnIds(call[c].user, ids)
    BY <1>1, <2>1, AllFound DEF Call
  <2>3. ASSUME NEW i \in ids PROVE EventOf(i) \in Row \cup {None}
    BY <2>2, <2>3 DEF EventOf, Inv, TypeOK, OwnIds
  <2>4. seen \in [Ids -> Row \cup {None}]
    BY <2>3
  <2>5. PICK k \in Call : k = [call[c] EXCEPT !.place = "naming", !.seen = seen]
    BY <1>1, <2>4 DEF Call
  <2>6. k.place = "naming" /\ k.seen = seen /\ k.ids = ids /\ k.user = call[c].user
        /\ k.facts = call[c].facts /\ k.waited = call[c].waited
    BY <1>1, <2>5 DEF Call
  <2> HIDE DEF seen
  <2>7. Read(k)'
    BY <2>2, <2>6 DEF Read
  <2>8. Seen(k)' /\ SeenAll(k)'
    <3>1. ids \subseteq Ids
      BY <1>1 DEF Call
    <3>2. ASSUME NEW i \in Ids, k.seen[i] # None
          PROVE  i \in k.ids /\ SeenRule(i, k.seen[i])'
      <4>1. i \in ids /\ k.seen[i] = event[Uuid[i]] /\ Uuid[i] \in Events
        BY <2>2, <2>6, <3>2 DEF seen, EventOf, OwnIds
      <4>2. event' = event /\ name' = name
        BY <1>2 DEF tables
      <4>3. QED
        BY <2>6, <4>1, <4>2 DEF SeenRule, Inv, EventsOK
    <3>3. ASSUME NEW i \in k.ids PROVE (k.seen[i] = None) <=> (Text[Uuid[i]] # i)
      <4>1. i \in Ids /\ Uuid[i] \in Events /\ k.seen[i] = EventOf(i)
        BY <2>2, <2>6, <3>1, <3>3 DEF seen, OwnIds
      <4>2. event[Uuid[i]] # None
        BY <4>1, NoCallAssumption DEF Inv, TypeOK
      <4>3. QED
        BY <4>1, <4>2 DEF EventOf
    <3>4. QED
      BY <2>6, <3>2, <3>3 DEF Seen, SeenAll
  <2>9. (NamesOwn(k.user, k.facts) /\ Saved(k) /\ Mine(k))'
    BY <1>1, <2>1, <2>6 DEF CallOK, NamesOwn, Saved, Mine, screen
  <2>10. call' = [call EXCEPT ![c] = k]
    BY <1>1, <2>1, <2>5 DEF Inv, TypeOK
  <2>11. QED
    BY <1>2, <2>1, <2>7, <2>8, <2>9, <2>10, QuietStep DEF CallOK, Inv, TypeOK, screen
<1>5. QED
  BY <1>3, <1>4

LEMMA FactType == ASSUME TypeOK, NEW row \in Row PROVE FactOf(row) \in Fact
  BY DEF TypeOK, FactOf, Row, Fact

LEMMA ReadNamesInv == ASSUME Inv, NEW c \in Calls, ReadNames(c) PROVE Inv'
<1> DEFINE facts == [i \in Ids |-> IF call[c].seen[i] = None THEN None ELSE FactOf(call[c].seen[i])]
<1>1. call[c] \in Call /\ CallOK(call[c]) /\ call[c].place = "naming"
  BY DEF Inv, TypeOK, CallsOK, ReadNames, At
<1>2. /\ UNCHANGED <<tables, audit, screen, faults>>
      /\ call' = [call EXCEPT ![c].place = "prompting", ![c].facts = facts]
  BY DEF ReadNames
<1>3. facts \in Facts
  BY <1>1, FactType DEF Facts, Call, Inv
<1>4. PICK k \in Call : k = [call[c] EXCEPT !.place = "prompting", !.facts = facts]
  BY <1>1, <1>3 DEF Call
<1>5. k.place = "prompting" /\ k.seen = call[c].seen /\ k.ids = call[c].ids
      /\ k.user = call[c].user /\ k.facts = facts /\ k.waited = call[c].waited
  BY <1>1, <1>4 DEF Call
<1>6. NamesOwn(k.user, k.facts)
  <2>1. SUFFICES ASSUME NEW i \in Ids, k.facts[i] # None, k.facts[i].name # None
                 PROVE  Owner[k.facts[i].name] = k.user
    BY DEF NamesOwn
  <2>2. k.seen[i] # None /\ k.facts[i] = FactOf(k.seen[i])
    BY <1>5, <2>1
  <2>3. k.seen[i].rule # None /\ k.facts[i].name = name[k.seen[i].rule]
    BY <2>1, <2>2 DEF FactOf
  <2>4. k.seen[i].rule \in Rules
    BY <2>2, <2>3 DEF Call, Row
  <2>5. /\ i \in k.ids /\ SeenRule(i, k.seen[i]) /\ OwnIds(k.user, k.ids)
    BY <1>1, <1>5, <2>2 DEF CallOK, Seen, Read
  <2>6. Owner[k.seen[i].rule] = k.user
    BY <2>3, <2>5 DEF SeenRule, OwnIds
  <2>7. QED
    BY <2>1, <2>3, <2>4, <2>6 DEF Inv, NamesOK
<1> HIDE DEF facts
<1>7. (Read(k) /\ Seen(k) /\ SeenAll(k) /\ Saved(k) /\ Mine(k))'
  BY <1>1, <1>2, <1>5 DEF CallOK, Read, Seen, SeenRule, SeenAll, Saved, Mine, tables, screen
<1>8. call' = [call EXCEPT ![c] = k]
  BY <1>1, <1>2, <1>4 DEF Inv, TypeOK
<1>9. CallOK(k)'
  BY <1>6, <1>7 DEF CallOK, NamesOwn
<1>10. QED
  BY <1>2, <1>8, <1>9, QuietStep DEF Inv, TypeOK, screen

LEMMA SummarizeInv == ASSUME Inv, NEW c \in Calls, Summarize(c) PROVE Inv'
<1>1. call[c] \in Call /\ CallOK(call[c]) /\ call[c].place = "prompting"
  BY DEF Inv, TypeOK, CallsOK, Summarize, At
<1>2. UNCHANGED <<tables, audit, faults>>
  BY DEF Summarize
<1>3. CASE Refuse(c)
  <2>1. faults' \in Nat /\ audit \subseteq audit' /\ audit' \subseteq AuditRow /\ AuditIsOwn'
    BY <1>2 DEF Inv, TypeOK, AuditIsOwn
  <2>2. QED
    BY <1>2, <1>3, <2>1, RefuseInv
<1>4. CASE call' = [call EXCEPT ![c].place = "saving"] /\ UNCHANGED screen
  <2>1. PICK k \in Call : k = [call[c] EXCEPT !.place = "saving"]
    BY <1>1 DEF Call
  <2>2. k.place = "saving" /\ k.seen = call[c].seen /\ k.ids = call[c].ids
        /\ k.user = call[c].user /\ k.facts = call[c].facts /\ k.waited = call[c].waited
    BY <1>1, <2>1 DEF Call
  <2>3. CallOK(k)'
    BY <1>1, <1>2, <1>4, <2>2
    DEF CallOK, Read, Seen, SeenRule, SeenAll, NamesOwn, Saved, Mine, tables, screen
  <2>4. call' = [call EXCEPT ![c] = k]
    BY <1>1, <1>4, <2>1 DEF Inv, TypeOK
  <2>5. QED
    BY <1>2, <1>4, <2>3, <2>4, QuietStep DEF Inv, TypeOK, screen
<1>5. QED
  BY <1>3, <1>4 DEF Summarize

\* The row of a request is the user's own.
LEMMA RowOwn ==
  ASSUME Inv, NEW c \in Calls, At(c, "saving"),
         audit' = audit \cup {AuditOf(call[c])}
  PROVE  audit' \subseteq AuditRow /\ AuditIsOwn'
<1>1. call[c] \in Call /\ CallOK(call[c]) /\ call[c].place = "saving"
  BY DEF Inv, TypeOK, CallsOK, At
<1>2. AuditOf(call[c]) \in AuditRow
  BY <1>1 DEF AuditOf, AuditRow, Call
<1>3. FactsOwn(call[c].user, call[c].ids, call[c].facts)
  BY <1>1 DEF FactsOwn, CallOK, Read, OwnIds, NamesOwn
<1>4. ASSUME NEW row \in audit' PROVE FactsOwn(row.user, row.ids, row.facts)
  <2>1. CASE row \in audit
    BY <2>1 DEF Inv, AuditIsOwn
  <2>2. CASE row = AuditOf(call[c])
    BY <1>3, <2>2 DEF AuditOf
  <2>3. QED
    BY <2>1, <2>2
<1>5. AuditIsOwn'
  BY <1>4 DEF AuditIsOwn, FactsOwn
<1>6. QED
  BY <1>2, <1>5 DEF Inv, TypeOK

LEMMA SaveInv == ASSUME Inv, NEW c \in Calls, Save(c) PROVE Inv'
<1>1. call[c] \in Call /\ CallOK(call[c]) /\ call[c].place = "saving" /\ At(c, "saving")
  BY DEF Inv, TypeOK, CallsOK, Save, At
<1>2. UNCHANGED <<tables, faults>>
  BY DEF Save
<1>3. CASE Refuse(c) /\ UNCHANGED audit
  <2>1. faults' \in Nat /\ audit \subseteq audit' /\ audit' \subseteq AuditRow /\ AuditIsOwn'
    BY <1>2, <1>3 DEF Inv, TypeOK, AuditIsOwn
  <2>2. QED
    BY <1>2, <1>3, <2>1, RefuseInv
<1>4. CASE /\ audit' = audit \cup {AuditOf(call[c])}
           /\ call' = [call EXCEPT ![c].place = "answering"] /\ UNCHANGED screen
  <2>1. audit' \subseteq AuditRow /\ AuditIsOwn'
    BY <1>1, <1>4, RowOwn
  <2>2. PICK k \in Call : k = [call[c] EXCEPT !.place = "answering"]
    BY <1>1 DEF Call
  <2>3. k.place = "answering" /\ k.seen = call[c].seen /\ k.ids = call[c].ids
        /\ k.user = call[c].user /\ k.facts = call[c].facts /\ k.waited = call[c].waited
    BY <1>1, <2>2 DEF Call
  <2>4. Saved(k)'
    BY <1>4, <2>3 DEF Saved, AuditOf
  <2>5. (Read(k) /\ Seen(k) /\ SeenAll(k) /\ NamesOwn(k.user, k.facts) /\ Mine(k))'
    BY <1>1, <1>2, <1>4, <2>3
    DEF CallOK, Read, Seen, SeenRule, SeenAll, NamesOwn, Mine, tables, screen
  <2>6. CallOK(k)'
    BY <2>4, <2>5 DEF CallOK
  <2>7. call' = [call EXCEPT ![c] = k]
    BY <1>1, <1>4, <2>2 DEF Inv, TypeOK
  <2>8. ShownIsAudited'
    BY <1>4 DEF Inv, ShownIsAudited, screen
  <2>9. QED
    BY <1>2, <1>4, <2>1, <2>6, <2>7, <2>8, RequestStep DEF Inv, TypeOK, screen
<1>5. QED
  BY <1>3, <1>4 DEF Save

LEMMA FailInv == ASSUME Inv, NEW c \in Calls, Fail(c) PROVE Inv'
<1>1. Refuse(c) /\ UNCHANGED tables /\ faults' \in Nat
  BY DEF Fail, Inv, TypeOK
<1>2. CASE UNCHANGED audit
  <2>1. audit \subseteq audit' /\ audit' \subseteq AuditRow /\ AuditIsOwn'
    BY <1>2 DEF Inv, TypeOK, AuditIsOwn
  <2>2. QED
    BY <1>1, <2>1, RefuseInv
<1>3. CASE At(c, "saving") /\ audit' = audit \cup {AuditOf(call[c])}
  <2>1. audit \subseteq audit' /\ audit' \subseteq AuditRow /\ AuditIsOwn'
    BY <1>3, RowOwn
  <2>2. QED
    BY <1>1, <2>1, RefuseInv
<1>4. QED
  BY <1>2, <1>3 DEF Fail, At

\* The answer comes after the row.
LEMMA AnswerInv == ASSUME Inv, NEW c \in Calls, Answer(c) PROVE Inv'
<1>1. call[c] \in Call /\ CallOK(call[c]) /\ call[c].place = "answering"
  BY DEF Inv, TypeOK, CallsOK, Answer, At
<1>2. UNCHANGED <<tables, audit, me, asked, closed, faults>> /\ call' = [call EXCEPT ![c] = None]
  BY DEF Answer
<1>3. CASE call[c].waited
  <2>1. view' = "ready" /\ shown' = call[c].facts
    BY <1>3 DEF Answer
  <2>2. AuditOf(call[c]) = [user |-> me, ids |-> NormalizeIDs(asked), facts |-> shown']
        /\ AuditOf(call[c]) \in audit
    BY <1>1, <1>3, <2>1 DEF CallOK, Saved, Mine, AuditOf
  <2>3. ShownIsAudited' /\ AuditIsOwn' /\ shown' \in Facts
    BY <1>1, <1>2, <2>1, <2>2 DEF ShownIsAudited, Inv, AuditIsOwn, Call
  <2>4. QED
    BY <1>2, <2>1, <2>3, RequestStep DEF Inv, TypeOK
<1>4. CASE ~call[c].waited
  BY <1>2, <1>4, QuietStep DEF Answer, Inv, TypeOK
<1>5. QED
  BY <1>3, <1>4

(***************************************************************************)
(* The explain screen                                                      *)
(***************************************************************************)
\* A request that nobody waits for any longer.
LEMMA Forsaken ==
  ASSUME Inv, NEW d \in Calls, call[d] # None
  PROVE  LET k == [call[d] EXCEPT !.waited = FALSE] IN k \in Call /\ CallOK(k)
<1>1. call[d] \in Call /\ CallOK(call[d])
  BY DEF Inv, TypeOK, CallsOK
<1>2. PICK k : k = [call[d] EXCEPT !.waited = FALSE]
  OBVIOUS
<1>3. k \in Call /\ k.place = call[d].place /\ k.seen = call[d].seen /\ k.ids = call[d].ids
      /\ k.user = call[d].user /\ k.facts = call[d].facts /\ k.waited = FALSE
  BY <1>1, <1>2 DEF Call
<1>4. CallOK(k)
  BY <1>1, <1>3 DEF CallOK, Read, Seen, SeenRule, SeenAll, NamesOwn, Saved, Mine, AuditOf
<1>5. QED
  BY <1>2, <1>3, <1>4

LEMMA GiveUpInv == ASSUME Inv, NEW c \in Calls, GiveUp(c) PROVE Inv'
<1>1. PICK k \in Call : k = [call[c] EXCEPT !.waited = FALSE] /\ CallOK(k)
  BY Forsaken DEF GiveUp
<1>2. /\ UNCHANGED <<tables, audit, me, asked, shown, closed>>
      /\ view' = "error" /\ faults' \in Nat
      /\ call' = [call EXCEPT ![c] = k]
  BY <1>1 DEF GiveUp, Inv, TypeOK
<1>3. CallOK(k)'
  BY <1>1, <1>2 DEF CallOK, Read, Seen, SeenRule, SeenAll, Saved, Mine, tables
<1>4. QED
  BY <1>2, <1>3, QuietStep

LEMMA CloseInv == ASSUME Inv, Close PROVE Inv'
<1>1. UNCHANGED <<tables, audit, me, asked, view, shown, faults>> /\ closed' \in BOOLEAN
  BY DEF Close
<1>2. ASSUME NEW c \in Calls
      PROVE  call'[c] \in Call \cup {None} /\ (call'[c] # None => CallOK(call[c])')
  <2>1. CASE call[c] = None
    BY <2>1 DEF Close
  <2>2. CASE call[c] # None
    <3>1. PICK k \in Call : k = [call[c] EXCEPT !.waited = FALSE] /\ CallOK(k)
      BY <2>2, Forsaken
    <3>2. call'[c] = k
      BY <2>2, <3>1 DEF Close
    <3>3. QED
      BY <1>1, <3>1, <3>2 DEF CallOK, Read, Seen, SeenRule, SeenAll, Saved, Mine, tables
  <2>3. QED
    BY <2>1, <2>2
<1>3. call' \in [Calls -> Call \cup {None}] /\ CallsOK'
  BY <1>2 DEF Close, CallsOK
<1>4. TypeOK'
  BY <1>1, <1>3 DEF Inv, TypeOK, tables
<1>5. QED
  BY <1>1, <1>3, <1>4 DEF Inv, EventsOK, NamesOK, AuditIsOwn, ShownIsAudited, tables

(***************************************************************************)
(* The theorems                                                            *)
(***************************************************************************)
LEMMA NextInv == Inv /\ [Next]_s_vars => Inv'
<1>1. SUFFICES ASSUME Inv, [Next]_s_vars PROVE Inv'
  OBVIOUS
<1>2. CASE UNCHANGED s_vars
  <2>1. UNCHANGED <<event, name, call, audit, me, asked, view, shown, closed, faults>>
    BY <1>2 DEF s_vars, tables, screen
  <2>2. CallsOK'
    BY <1>1, <2>1 DEF Inv, CallsOK, CallOK, Read, Seen, SeenRule, SeenAll, Saved, Mine
  <2>3. QED
    BY <1>1, <2>1, <2>2 DEF Inv, TypeOK, EventsOK, NamesOK, AuditIsOwn, ShownIsAudited
<1>3. CASE Next
  BY <1>1, <1>3, WorkInv, SettleInv, RenameInv, DeleteInv, AskInv, LoadInv, ReadEventsInv,
     ReadNamesInv, SummarizeInv, SaveInv, FailInv, AnswerInv, GiveUpInv, CloseInv
  DEF Next, HandlerStep
<1>4. QED
  BY <1>1, <1>2, <1>3

\* What has been summarized for a user is the user's own, for any requests that
\* overlap and whatever becomes of events and rules meanwhile.
THEOREM SummariesAreOwn == Spec => []AuditIsOwn
<1>1. Inv => AuditIsOwn
  BY DEF Inv
<1>2. QED
  BY <1>1, InitInv, NextInv, PTL DEF Spec

\* The screen shows nothing that the audit table does not have.
THEOREM ScreenShowsAudited == Spec => []ShownIsAudited
<1>1. Inv => ShownIsAudited
  BY DEF Inv
<1>2. QED
  BY <1>1, InitInv, NextInv, PTL DEF Spec

\* A prompt is made in one step only.
LEMMA PromptMade ==
  ASSUME Inv, [Next]_s_vars, NEW c \in Calls, At(c, "naming"), At(c, "prompting")'
  PROVE  ReadNames(c)
<1>1. call[c] \in Call /\ call[c].place = "naming" /\ call'[c] # None /\ call'[c].place = "prompting"
  BY DEF Inv, TypeOK, At
<1>2. call'[c] # call[c]
  BY <1>1
<1>3. CASE UNCHANGED s_vars
  BY <1>2, <1>3 DEF s_vars
<1>4. ASSUME NEW e \in Events, Work(e) \/ Settle(e) PROVE FALSE
  BY <1>2, <1>4 DEF Work, Settle
<1>5. ASSUME NEW r \in Rules, Rename(r) \/ Delete(r) PROVE FALSE
  BY <1>2, <1>5 DEF Rename, Delete
<1>6. CASE Close
  BY <1>1, <1>6 DEF Close, Call
<1>7. ASSUME NEW d \in Calls, NEW u \in Clients, NEW raw \in Requests, Ask(d, u, raw) PROVE FALSE
  BY <1>1, <1>7 DEF Ask, Arrived, Inv, TypeOK
<1>8. ASSUME NEW d \in Calls, Load(d) PROVE FALSE
  BY <1>1, <1>8 DEF Load, Arrived, Inv, TypeOK
<1>9. ASSUME NEW d \in Calls, GiveUp(d) PROVE FALSE
  BY <1>1, <1>9 DEF GiveUp, Inv, TypeOK, Call
<1>10. ASSUME NEW d \in Calls, Refuse(d) PROVE FALSE
  BY <1>1, <1>10 DEF Refuse, Inv, TypeOK
<1>11. ASSUME NEW d \in Calls, HandlerStep(d) PROVE ReadNames(c)
  <2>1. CASE ReadNames(d)
    BY <1>2, <1>11, <2>1 DEF ReadNames, Inv, TypeOK
  <2>2. CASE ReadEvents(d)
    <3>1. call'[c].place = "naming" \/ call'[c] = call[c]
      BY <1>1, <1>10, <2>2 DEF ReadEvents, At, Inv, TypeOK, Call
    <3>2. QED
      BY <1>1, <3>1
  <2>3. CASE Summarize(d) \/ Save(d) \/ Fail(d) \/ Answer(d)
    BY <1>1, <1>10, <2>3 DEF Summarize, Save, Fail, Answer, At, Inv, TypeOK, Call
  <2>4. QED
    BY <1>11, <2>1, <2>2, <2>3 DEF HandlerStep
<1>12. QED
  BY <1>3, <1>4, <1>5, <1>6, <1>7, <1>8, <1>9, <1>11 DEF Next

\* No prompt mixes two states of an event: an event that had a rule when it was
\* read has kept it, or has lost it with the rule's name.
THEOREM PromptsAreTrue == Spec => FactsTrue
<1> DEFINE True(c) ==
      At(c, "naming") /\ At(c, "prompting")' =>
         \A i \in call[c].ids :
           LET k == call'[c]
           IN  \/ Text[Uuid[i]] # i /\ k.facts[i] = None
               \/ k.facts[i] = FactOf(event[Uuid[i]])
               \/ k.seen[i].rule = None /\ k.facts[i] = [status |-> k.seen[i].status, name |-> None]
<1>1. ASSUME Inv, [Next]_s_vars PROVE [\A c \in Calls : True(c)]_s_vars
  <2>1. SUFFICES ASSUME NEW c \in Calls, At(c, "naming"), At(c, "prompting")', NEW i \in call[c].ids
                 PROVE  \/ Text[Uuid[i]] # i /\ call'[c].facts[i] = None
                        \/ call'[c].facts[i] = FactOf(event[Uuid[i]])
                        \/ /\ call'[c].seen[i].rule = None
                           /\ call'[c].facts[i] = [status |-> call'[c].seen[i].status, name |-> None]
    OBVIOUS
  <2>2. ReadNames(c)
    BY <1>1, <2>1, PromptMade
  <2>3. call[c] \in Call /\ CallOK(call[c]) /\ call[c].place = "naming" /\ i \in Ids
    BY <1>1, <2>1 DEF Inv, TypeOK, CallsOK, At, Call
  <2>4. /\ call'[c].seen = call[c].seen
        /\ call'[c].facts[i] = IF call[c].seen[i] = None THEN None ELSE FactOf(call[c].seen[i])
    BY <1>1, <2>2, <2>3 DEF ReadNames, Inv, TypeOK, Call
  <2>5. CASE call[c].seen[i] = None
    BY <2>1, <2>3, <2>4, <2>5 DEF CallOK, SeenAll
  <2>6. CASE call[c].seen[i] # None
    <3>1. SeenRule(i, call[c].seen[i]) /\ call'[c].facts[i] = FactOf(call[c].seen[i])
      BY <2>3, <2>4, <2>6 DEF CallOK, Seen
    <3>2. CASE call[c].seen[i].rule = None
      BY <2>4, <3>1, <3>2 DEF FactOf
    <3>3. CASE call[c].seen[i].rule # None
      BY <3>1, <3>3 DEF FactOf, SeenRule
    <3>4. QED
      BY <3>2, <3>3
  <2>7. QED
    BY <2>5, <2>6
<1>2. QED
  BY <1>1, InitInv, NextInv, PTL DEF Spec, FactsTrue

(***************************************************************************)
(* The spinner                                                             *)
(***************************************************************************)
\* The request that the screen waits for goes on, or another ends; or it is
\* refused, and the screen says so.
LEMMA WaitedStays ==
  ASSUME Inv, ExplainNotStuck, NEW c \in Calls,
         \/ /\ UNCHANGED <<view, closed>>
            /\ call'[c] # None /\ call'[c].waited = call[c].waited
            /\ \A d \in Calls : d # c => call'[d] = call[d]
         \/ Refuse(c)
  PROVE  ExplainNotStuck'
<1>1. CASE Refuse(c)
  BY <1>1 DEF Refuse, Inv, TypeOK, ExplainNotStuck
<1>2. QED
  BY <1>1 DEF ExplainNotStuck

LEMMA NotStuckStep ==
  ASSUME Inv, ExplainNotStuck, [Next]_s_vars
  PROVE  ExplainNotStuck'
<1>1. ASSUME UNCHANGED <<call, view, closed>> PROVE ExplainNotStuck'
  BY <1>1 DEF ExplainNotStuck
<1>2. ASSUME NEW e \in Events, Work(e) \/ Settle(e) PROVE ExplainNotStuck'
  BY <1>1, <1>2 DEF Work, Settle, screen
<1>3. ASSUME NEW r \in Rules, Rename(r) \/ Delete(r) PROVE ExplainNotStuck'
  BY <1>1, <1>3 DEF Rename, Delete, screen
<1>4. CASE Close
  BY <1>4 DEF Close, ExplainNotStuck
<1>5. ASSUME NEW c \in Calls, NEW u \in Clients, NEW raw \in Requests, Ask(c, u, raw)
      PROVE  ExplainNotStuck'
  BY <1>5 DEF Ask, screen, Inv, TypeOK, ExplainNotStuck
<1>6. ASSUME NEW c \in Calls, Load(c) PROVE ExplainNotStuck'
  <2>1. CASE view' = "error"
    BY <2>1 DEF ExplainNotStuck
  <2>2. CASE call' = [call EXCEPT ![c] = Arrived(me, asked, TRUE)]
    <3>1. Arrived(me, asked, TRUE) \in Call /\ Arrived(me, asked, TRUE).waited
      BY ArrivedType DEF Inv, TypeOK, Arrived
    <3>2. call'[c] # None /\ call'[c].waited
      BY <2>2, <3>1, NoCallAssumption DEF Inv, TypeOK
    <3>3. QED
      BY <3>2 DEF ExplainNotStuck
  <2>3. QED
    BY <1>6, <2>1, <2>2 DEF Load
<1>7. ASSUME NEW c \in Calls, GiveUp(c) PROVE ExplainNotStuck'
  BY <1>7 DEF GiveUp, ExplainNotStuck
<1>8. ASSUME NEW c \in Calls, HandlerStep(c) PROVE ExplainNotStuck'
  <2>1. CASE Answer(c)
    BY <2>1 DEF Answer, At, Inv, TypeOK, ExplainNotStuck
  <2>2. CASE Refuse(c)
    BY <2>2, WaitedStays
  <2>3. ASSUME call[c] \in Call,
               ReadEvents(c) \/ ReadNames(c) \/ Summarize(c) \/ Save(c), ~Refuse(c)
        PROVE  UNCHANGED screen /\ call'[c] # None /\ call'[c].waited = call[c].waited
                 /\ \A d \in Calls : d # c => call'[d] = call[d]
    BY <2>3, NoCallAssumption DEF ReadEvents, ReadNames, Summarize, Save, At, Inv, TypeOK, Call
  <2>4. CASE Fail(c)
    BY <2>2, <2>4 DEF Fail
  <2>5. QED
    BY <1>8, <2>1, <2>2, <2>3, <2>4, WaitedStays
      DEF HandlerStep, ReadEvents, ReadNames, Summarize, Save, At, screen, Inv, TypeOK
<1>9. CASE UNCHANGED s_vars
  BY <1>1, <1>9 DEF s_vars, screen
<1>10. QED
  BY <1>2, <1>3, <1>4, <1>5, <1>6, <1>7, <1>8, <1>9 DEF Next

LEMMA ExplainEnds == Spec => []ExplainNotStuck
<1>1. Init => ExplainNotStuck
  BY DEF Init, ExplainNotStuck
<1>2. Inv /\ ExplainNotStuck /\ [Next]_s_vars => ExplainNotStuck'
  BY NotStuckStep
<1>3. QED
  BY <1>1, <1>2, InitInv, NextInv, PTL DEF Spec
===============================================================================
