---------------------------- MODULE RuleBookProofs -----------------------------
(***************************************************************************)
(* Rules that are gone stay away, and an event is matched with a rule of   *)
(* its own user only: the proofs.  They rest on ids that are never given   *)
(* twice: what a worker has found, it has found in the table, and whatever *)
(* it finds there later under the same id is the same user's.              *)
(***************************************************************************)
EXTENDS RuleBook, WellFoundedInduction, TLAPS

\* What a request needs at its place.
PlaceOK(h) ==
    /\ pc[h] # "idle" => by[h] \in Users
    /\ pc[h] = "create" => body[h] \in Inputs
    /\ pc[h] \in {"list", "insert"} => body[h] = DemoFields
    /\ pc[h] \in {"patch", "merge"} => body[h] \in Patches
    /\ pc[h] \in {"patch", "merge", "delete"} => target[h] \in Rules /\ Created(target[h])
    /\ pc[h] = "merge" => current[h] \in Fields
    /\ pc[h] # "inject" => made[h] = 0

\* The last event that a simulation has inserted.
MadeOK(h) ==
    pc[h] = "inject" /\ made[h] > 0 =>
      \E d \in Events : Stored(d) /\ Event[d].user = by[h] /\ Event[d].place = made[h]

\* What a worker has found, and is about to write.
FoundOwn(w) ==
    found[w] # None =>
      /\ job[w] # None /\ Created(found[w])
      /\ rule[found[w]] # None => rule[found[w]].user = Event[job[w]].user

RequestTypes ==
    /\ pc \in [Handlers -> {"idle", "create", "patch", "merge", "delete", "list", "insert", "inject"}]
    /\ by \in [Handlers -> Users \cup {None}]
    /\ target \in [Handlers -> Rules \cup {None}]
    /\ body \in [Handlers -> Fields \cup Patches \cup {None}]
    /\ current \in [Handlers -> Fields \cup {None}]
    /\ wanted \in [Handlers -> 0..5] /\ made \in [Handlers -> 0..5]

QueueTypes ==
    /\ status \in [Events -> {"never", "none", "open", "processed", "failed"}]
    /\ matched \in [Events -> Rules \cup {None}]
    /\ job \in [Workers -> Events \cup {None}]
    /\ found \in [Workers -> Rules \cup {None}]

RequestsOK == RequestTypes /\ \A h \in Handlers : PlaceOK(h)
QueueOK == QueueTypes /\ MatchedIsOwn /\ \A w \in Workers : FoundOwn(w)
InOrder == SimulatedInOrder /\ \A h \in Handlers : MadeOK(h)

Inv == TypeOK /\ RequestsOK /\ QueueOK /\ InOrder

(***************************************************************************)
(* The parts of steps                                                      *)
(***************************************************************************)
\* Rules are added, changed and removed so that ids keep their users.
Kept ==
    /\ rule' \in [Rules -> Row \cup {None}]
    /\ order' \in Seq(Rules)
    /\ \A i, j \in DOMAIN order' : order'[i] = order'[j] => i = j
    /\ \A r \in Rules : Created(r) => Created(r)'
    /\ \A r \in Rules : rule'[r] # None => Created(r)'
    /\ \A r \in Rules : rule[r] = None /\ Created(r) => rule'[r] = None
    /\ \A r \in Rules : rule[r] # None /\ rule'[r] # None => rule'[r].user = rule[r].user

NoneGone == \A r \in Rules : rule[r] # None => rule'[r] # None
\* No event leaves the queue.
StillStored == \A e \in Events : Stored(e) => Stored(e)'

LEMMA MergeType ==
  ASSUME NEW old \in Fields, NEW patch \in PatchType PROVE Merge(old, patch) \in Fields
<1>1. DOMAIN old = {"name", "type", "threshold", "enabled"}
  BY DEF Fields
<1>2. Merge(old, patch) = [name |-> IF patch.name = None THEN old.name ELSE patch.name,
                           type |-> IF patch.type = None THEN old.type ELSE patch.type,
                           threshold |-> IF patch.threshold = None THEN old.threshold ELSE patch.threshold,
                           enabled |-> IF patch.enabled = None THEN old.enabled ELSE patch.enabled]
  BY <1>1 DEF Merge
<1>3. QED
  BY <1>2 DEF Fields, PatchType

LEMMA AddRuleKept ==
  ASSUME TypeOK, NEW u \in Users, NEW fields \in Fields, AddRule(u, fields)
  PROVE  Kept /\ NoneGone
<1>1. PICK r \in Rules : /\ ~Created(r)
                         /\ rule' = [rule EXCEPT ![r] = [user |-> u, fields |-> fields]]
                         /\ order' = Append(order, r)
  BY DEF AddRule
<1>2. [user |-> u, fields |-> fields] \in Row
  BY DEF Row
<1>3. rule' \in [Rules -> Row \cup {None}] /\ order' \in Seq(Rules)
  BY <1>1, <1>2 DEF TypeOK
<1>4. /\ DOMAIN order = 1..Len(order) /\ Len(order) \in Nat
      /\ DOMAIN order' = 1..(Len(order) + 1)
      /\ \A i \in 1..Len(order) : order'[i] = order[i]
      /\ order'[Len(order) + 1] = r
  BY <1>1 DEF TypeOK
<1>5. \A i, j \in DOMAIN order' : order'[i] = order'[j] => i = j
  <2>1. \A i \in 1..Len(order) : order[i] # r
    BY <1>1, <1>4 DEF Created
  <2>2. QED
    BY <1>4, <2>1 DEF TypeOK
<1>6. \A s \in Rules : Created(s) => Created(s)'
  BY <1>4 DEF Created
<1>7. Created(r)'
  BY <1>4 DEF Created
<1>8. rule[r] = None
  BY <1>1 DEF TypeOK, Created
<1>9. \A s \in Rules : s # r => rule'[s] = rule[s]
  BY <1>1 DEF TypeOK
<1>10. NoneGone
  BY <1>8, <1>9 DEF NoneGone
<1>11. QED
  BY <1>1, <1>3, <1>5, <1>6, <1>7, <1>8, <1>9, <1>10 DEF Kept, TypeOK, Created

LEMMA TypeParts == TypeOK <=> /\ RequestTypes /\ QueueTypes
                              /\ rule \in [Rules -> Row \cup {None}]
                              /\ order \in Seq(Rules)
                              /\ \A i, j \in DOMAIN order : order[i] = order[j] => i = j
                              /\ \A r \in Rules : rule[r] # None => Created(r)
  BY DEF TypeOK, RequestTypes, QueueTypes, Created

LEMMA SameKept == ASSUME TypeOK, UNCHANGED <<rule, order>> PROVE Kept /\ NoneGone
  BY DEF TypeOK, Kept, Created, NoneGone

LEMMA UpdateKept == ASSUME Inv, NEW h \in Handlers, Update(h) PROVE Kept /\ NoneGone
<1>1. order' = order
  BY DEF Update
<1>2. CASE ~Owns(by[h], target[h])
  BY <1>1, <1>2, SameKept DEF Update, Inv
<1>3. CASE Owns(by[h], target[h])
  <2>1. target[h] \in Rules /\ current[h] \in Fields /\ body[h] \in PatchType
    BY BodiesAssumption DEF Inv, RequestsOK, PlaceOK, Update
  <2>2. PICK f \in Fields : f = Merge(current[h], body[h])
    BY <2>1, MergeType
  <2>3. rule[target[h]] \in Row /\ rule[target[h]] # None
    BY <1>3, <2>1 DEF Owns, Inv, TypeOK
  <2>4. rule' = [rule EXCEPT ![target[h]] = [rule[target[h]] EXCEPT !.fields = f]]
    BY <1>3, <2>2 DEF Update
  <2>5. [rule[target[h]] EXCEPT !.fields = f] \in Row
        /\ [rule[target[h]] EXCEPT !.fields = f].user = rule[target[h]].user
    BY <2>2, <2>3 DEF Row
  <2>6. PICK row \in Row : /\ row.user = rule[target[h]].user
                           /\ rule' = [rule EXCEPT ![target[h]] = row]
    BY <2>4, <2>5
  <2>7. row # None
    BY NoneAssumption DEF Row
  <2>8. rule' \in [Rules -> Row \cup {None}]
    BY <2>6 DEF Inv, TypeOK
  <2>9. \A s \in Rules : /\ rule'[s] = None <=> rule[s] = None
                         /\ rule[s] # None => rule'[s].user = rule[s].user
    BY <2>1, <2>3, <2>6, <2>7 DEF Inv, TypeOK
  <2>10. QED
    BY <1>1, <2>8, <2>9 DEF Kept, NoneGone, Inv, TypeOK, Created
<1>4. QED
  BY <1>2, <1>3

LEMMA DeleteKept == ASSUME Inv, NEW h \in Handlers, Delete(h) PROVE Kept
<1>1. order' = order
  BY DEF Delete
<1>2. CASE ~Owns(by[h], target[h])
  BY <1>1, <1>2, SameKept DEF Delete, Inv
<1>3. CASE Owns(by[h], target[h])
  <2>1. target[h] \in Rules
    BY DEF Inv, RequestsOK, PlaceOK, Delete
  <2>2. rule' = [rule EXCEPT ![target[h]] = None]
    BY <1>3 DEF Delete, RemoveRule
  <2>3. rule' \in [Rules -> Row \cup {None}]
    BY <2>2 DEF Inv, TypeOK
  <2>4. \A s \in Rules : rule'[s] = None \/ rule'[s] = rule[s]
    BY <2>1, <2>2 DEF Inv, TypeOK
  <2>5. QED
    BY <1>1, <2>3, <2>4 DEF Kept, Inv, TypeOK, Created
<1>4. QED
  BY <1>2, <1>3
(***************************************************************************)
(* Requests                                                                *)
(***************************************************************************)
LEMMA DoneOK ==
  ASSUME RequestsOK, Kept, NEW h \in Handlers, Done(h) PROVE RequestsOK'
<1>1. RequestTypes'
  BY DEF RequestsOK, RequestTypes, Done
<1>2. ASSUME NEW g \in Handlers PROVE PlaceOK(g)'
  BY <1>2 DEF RequestsOK, RequestTypes, PlaceOK, Done, Kept
<1>3. QED
  BY <1>1, <1>2 DEF RequestsOK

LEMMA DoneMade ==
  ASSUME RequestsOK, \A h \in Handlers : MadeOK(h), StillStored, NEW h \in Handlers, Done(h)
  PROVE  \A g \in Handlers : MadeOK(g)'
  BY DEF RequestsOK, RequestTypes, MadeOK, Done, StillStored

LEMMA RequestsSame ==
  ASSUME RequestsOK, Kept, UNCHANGED requests PROVE RequestsOK'
<1>1. RequestTypes'
  BY DEF RequestsOK, RequestTypes, requests
<1>2. ASSUME NEW g \in Handlers PROVE PlaceOK(g)'
  BY <1>2 DEF RequestsOK, RequestTypes, PlaceOK, requests, Kept
<1>3. QED
  BY <1>1, <1>2 DEF RequestsOK

LEMMA BeginOK ==
  ASSUME RequestsOK, Kept, NEW h \in Handlers, NEW u \in Users, Receive(h, u)
  PROVE  RequestsOK' /\ \A g \in Handlers : MadeOK(g) => MadeOK(g)'
<1>1. PICK place \in {"create", "patch", "delete", "list", "inject"},
           r \in Rules \cup {None}, b \in Fields \cup Patches \cup {None}, n \in 0..5 :
        /\ Begin(h, place, u, r, b, n)
        /\ place = "create" => b \in Inputs
        /\ place = "list" => b = DemoFields
        /\ place = "patch" => b \in Patches
        /\ place \in {"patch", "delete"} => r \in Rules /\ Created(r)
  <2>1. ASSUME NEW n \in Counts PROVE Clamp(n) \in 0..5
    BY <2>1, DemoAssumption DEF Clamp
  <2>2. QED
    BY <2>1, BodiesAssumption, DemoAssumption DEF Receive
<1>2. RequestTypes'
  BY <1>1 DEF RequestsOK, RequestTypes, Begin
<1>3. ASSUME NEW g \in Handlers PROVE PlaceOK(g)'
  <2>1. CASE g = h
    BY <1>1, <2>1 DEF RequestsOK, RequestTypes, PlaceOK, Begin, Kept
  <2>2. CASE g # h
    BY <1>1, <2>2 DEF RequestsOK, RequestTypes, PlaceOK, Begin, Kept
  <2>3. QED
    BY <2>1, <2>2
<1>4. ASSUME NEW g \in Handlers, MadeOK(g) PROVE MadeOK(g)'
  BY <1>1, <1>4 DEF RequestsOK, RequestTypes, PlaceOK, MadeOK, Begin, queue, Stored
<1>5. QED
  BY <1>2, <1>3, <1>4 DEF RequestsOK

LEMMA GotoOK ==
  ASSUME RequestsOK, Kept, NEW h \in Handlers, pc[h] \in {"list", "insert"},
         NEW place \in {"insert", "inject"}, Goto(h, place), pc[h] = "list" \/ place = "inject"
  PROVE  RequestsOK' /\ \A g \in Handlers : MadeOK(g) /\ UNCHANGED status => MadeOK(g)'
<1>1. RequestTypes'
  BY DEF RequestsOK, RequestTypes, Goto
<1>2. ASSUME NEW g \in Handlers PROVE PlaceOK(g)'
  <2>1. CASE g = h
    BY <2>1 DEF RequestsOK, RequestTypes, PlaceOK, Goto, Kept
  <2>2. CASE g # h
    BY <2>2 DEF RequestsOK, RequestTypes, PlaceOK, Goto, Kept
  <2>3. QED
    BY <2>1, <2>2
<1>3. ASSUME NEW g \in Handlers, MadeOK(g), UNCHANGED status PROVE MadeOK(g)'
  BY <1>3 DEF RequestsOK, RequestTypes, PlaceOK, MadeOK, Goto, Stored
<1>4. QED
  BY <1>1, <1>2, <1>3 DEF RequestsOK

LEMMA QueueSame ==
  ASSUME QueueOK, Kept, NoneGone, UNCHANGED <<matched, job, found>>,
         status' \in [Events -> {"never", "none", "open", "processed", "failed"}]
  PROVE  QueueOK'
<1>1. QueueTypes'
  BY DEF QueueOK, QueueTypes
<1>2. ASSUME NEW e \in Events, matched'[e] # None PROVE Owns(Event[e].user, matched[e])'
  <2>1. matched[e] \in Rules /\ rule[matched[e]] # None /\ rule[matched[e]].user = Event[e].user
    BY <1>2 DEF QueueOK, QueueTypes, MatchedIsOwn, Owns
  <2>2. QED
    BY <2>1 DEF Owns, Kept, NoneGone
<1>3. ASSUME NEW w \in Workers PROVE FoundOwn(w)'
  <2>1. found[w] \in Rules \cup {None} /\ FoundOwn(w)
    BY DEF QueueOK, QueueTypes
  <2>2. QED
    BY <2>1 DEF FoundOwn, Kept
<1>4. QED
  BY <1>1, <1>2, <1>3 DEF QueueOK, MatchedIsOwn

LEMMA StatusSame ==
  ASSUME UNCHANGED status
  PROVE  StillStored /\ (SimulatedInOrder => SimulatedInOrder')
  BY DEF StillStored, Stored, SimulatedInOrder

\* The types follow from the parts.
LEMMA TypesFollow == ASSUME Kept, RequestsOK', QueueOK' PROVE TypeOK'
<1>1. /\ rule' \in [Rules -> Row \cup {None}] /\ order' \in Seq(Rules)
      /\ \A i, j \in DOMAIN order' : order'[i] = order'[j] => i = j
      /\ \A r \in Rules : rule'[r] # None => Created(r)'
  BY DEF Kept
<1>2. QED
  BY <1>1 DEF QueueOK, RequestsOK, TypeOK, RequestTypes, QueueTypes, Created

\* A request that has ended, and has left the queue as it was.
LEMMA Ended ==
  ASSUME Inv, Kept, NoneGone, NEW h \in Handlers, Done(h), UNCHANGED queue PROVE Inv'
<1>1. QueueOK'
  BY QueueSame DEF Inv, QueueOK, QueueTypes, queue
<1>2. InOrder'
  BY StatusSame, DoneMade DEF Inv, InOrder, queue
<1>3. RequestsOK'
  BY DoneOK DEF Inv
<1>4. TypeOK'
  BY <1>1, <1>3, TypesFollow
<1>5. QED
  BY <1>1, <1>2, <1>3, <1>4 DEF Inv

LEMMA InjectInv == ASSUME Inv, NEW h \in Handlers, Inject(h) PROVE Inv'
<1>1. Kept /\ NoneGone
  BY SameKept DEF Inv, Inject
<1>2. PICK e \in Events : /\ Event[e].user = by[h] /\ Event[e].place = made[h] + 1
                          /\ status[e] = "none" /\ status' = [status EXCEPT ![e] = "open"]
  <2>1. PICK e \in Events : /\ Event[e] = Simulated(by[h], made[h] + 1) /\ status[e] = "none"
                            /\ status' = [status EXCEPT ![e] = "open"]
    BY DEF Inject
  <2>2. Event[e].user = by[h] /\ Event[e].place = made[h] + 1
    BY <2>1 DEF Simulated
  <2>3. QED
    BY <2>1, <2>2
<1>3. pc[h] = "inject" /\ by[h] \in Users /\ made[h] \in 0..5 /\ wanted[h] \in 0..5
  BY DEF Inject, Inv, RequestsOK, RequestTypes, PlaceOK
<1>4. QueueOK'
  BY <1>1, <1>2, QueueSame DEF Inv, QueueOK, QueueTypes, Inject
<1>5. StillStored /\ Stored(e)' /\ \A d \in Events : d # e => (Stored(d)' <=> Stored(d))
  BY <1>2 DEF StillStored, Stored, Inv, QueueOK, QueueTypes
<1>6. SimulatedInOrder'
  <2>1. SUFFICES ASSUME NEW f \in Events, Stored(f)', Event[f].place > 1
                 PROVE  \E d \in Events : /\ Stored(d)' /\ Event[d].user = Event[f].user
                                          /\ Event[d].place = Event[f].place - 1
    BY DEF SimulatedInOrder, Stored
  <2>2. CASE f # e
    <3>1. PICK d \in Events : /\ Stored(d) /\ Event[d].user = Event[f].user
                              /\ Event[d].place = Event[f].place - 1
      BY <1>5, <2>1, <2>2 DEF Inv, InOrder, SimulatedInOrder
    <3>2. QED
      BY <1>5, <3>1 DEF StillStored
  <2>3. CASE f = e
    <3>1. PICK d \in Events : Stored(d) /\ Event[d].user = by[h] /\ Event[d].place = made[h]
      BY <1>2, <1>3, <2>1, <2>3 DEF Inv, InOrder, MadeOK
    <3>2. QED
      BY <1>2, <1>3, <1>5, <2>3, <3>1 DEF StillStored
  <2>4. QED
    BY <2>2, <2>3
<1>7. CASE Done(h)
  <2>1. RequestsOK' /\ \A g \in Handlers : MadeOK(g)'
    BY <1>1, <1>5, <1>7, DoneOK, DoneMade DEF Inv, InOrder
  <2>2. QED
    BY <1>1, <1>4, <1>6, <2>1, TypesFollow DEF Inv, InOrder
<1>8. CASE /\ made[h] + 1 < wanted[h] /\ made' = [made EXCEPT ![h] = @ + 1]
           /\ UNCHANGED <<pc, by, target, body, current, wanted>>
  <2>1. RequestTypes'
    BY <1>3, <1>8 DEF Inv, RequestsOK, RequestTypes
  <2>2. ASSUME NEW g \in Handlers PROVE PlaceOK(g)'
    BY <1>1, <1>3, <1>8 DEF Inv, RequestsOK, RequestTypes, PlaceOK, Kept
  <2>3. ASSUME NEW g \in Handlers PROVE MadeOK(g)'
    <3>1. CASE g = h
      BY <1>2, <1>3, <1>5, <1>8, <3>1 DEF MadeOK, Inv, RequestsOK, RequestTypes
    <3>2. CASE g # h
      BY <1>5, <1>8, <3>2 DEF MadeOK, Inv, InOrder, RequestsOK, RequestTypes, StillStored
    <3>3. QED
      BY <3>1, <3>2
  <2>4. QED
    BY <1>1, <1>4, <1>6, <2>1, <2>2, <2>3, TypesFollow DEF Inv, InOrder, RequestsOK
<1>9. QED
  BY <1>7, <1>8 DEF Inject

LEMMA ReadInv == ASSUME Inv, NEW h \in Handlers, Read(h) PROVE Inv'
<1>1. Kept /\ NoneGone
  BY SameKept DEF Inv, Read
<1>2. UNCHANGED queue
  BY DEF Read
<1>3. CASE ~Owns(by[h], target[h])
  BY <1>1, <1>2, <1>3, Ended DEF Read
<1>4. CASE Owns(by[h], target[h])
  <2>1. /\ pc[h] = "patch" /\ pc' = [pc EXCEPT ![h] = "merge"]
        /\ current' = [current EXCEPT ![h] = rule[target[h]].fields]
        /\ UNCHANGED <<by, target, body, wanted, made>>
    BY <1>4 DEF Read
  <2>2. target[h] \in Rules
    BY <2>1 DEF Inv, RequestsOK, PlaceOK
  <2>3. rule[target[h]].fields \in Fields
    BY <1>4, <2>2 DEF Owns, Inv, TypeOK, Row
  <2>4. RequestTypes'
    BY <2>1, <2>3 DEF Inv, RequestsOK, RequestTypes
  <2>5. ASSUME NEW g \in Handlers PROVE PlaceOK(g)' /\ MadeOK(g)'
    BY <1>1, <1>2, <2>1, <2>3
       DEF Inv, RequestsOK, RequestTypes, PlaceOK, InOrder, MadeOK, Kept, queue, Stored
  <2>6. QueueOK' /\ SimulatedInOrder'
    BY <1>1, <1>2, QueueSame, StatusSame DEF Inv, InOrder, QueueOK, QueueTypes, queue
  <2>7. QED
    BY <1>1, <2>4, <2>5, <2>6, TypesFollow DEF Inv, InOrder, RequestsOK
<1>5. QED
  BY <1>3, <1>4

LEMMA DeleteInv == ASSUME Inv, NEW h \in Handlers, Delete(h) PROVE Inv'
<1>1. Kept
  BY DeleteKept
<1>2. CASE ~Owns(by[h], target[h])
  <2>1. UNCHANGED <<rule, order, queue>> /\ Done(h)
    BY <1>2 DEF Delete, queue
  <2>2. QED
    BY <2>1, SameKept, Ended DEF Inv
<1>3. CASE Owns(by[h], target[h])
  <2>1. /\ rule' = [rule EXCEPT ![target[h]] = None]
        /\ matched' = [e \in Events |-> IF matched[e] = target[h] THEN None ELSE matched[e]]
        /\ UNCHANGED <<status, job, found>> /\ Done(h)
    BY <1>3 DEF Delete, RemoveRule
  <2>2. QueueTypes'
    BY <2>1 DEF Inv, QueueOK, QueueTypes
  <2>3. ASSUME NEW e \in Events, matched'[e] # None PROVE Owns(Event[e].user, matched[e])'
    <3>1. matched'[e] = matched[e] /\ matched[e] # target[h] /\ matched[e] \in Rules
      BY <2>1, <2>3 DEF Inv, QueueOK, QueueTypes
    <3>2. Owns(Event[e].user, matched[e])
      BY <2>3, <3>1 DEF Inv, QueueOK, MatchedIsOwn
    <3>3. rule'[matched[e]] = rule[matched[e]]
      BY <2>1, <3>1 DEF Inv, TypeOK
    <3>4. QED
      BY <3>1, <3>2, <3>3 DEF Owns
  <2>4. ASSUME NEW w \in Workers PROVE FoundOwn(w)'
    <3>1. found[w] \in Rules \cup {None} /\ FoundOwn(w)
      BY DEF Inv, QueueOK, QueueTypes
    <3>2. QED
      BY <1>1, <2>1, <3>1 DEF FoundOwn, Kept
  <2>5. QueueOK'
    BY <2>2, <2>3, <2>4 DEF QueueOK, MatchedIsOwn
  <2>6. RequestsOK' /\ InOrder'
    BY <1>1, <2>1, DoneOK, DoneMade, StatusSame DEF Inv, InOrder
  <2>7. QED
    BY <1>1, <2>5, <2>6, TypesFollow DEF Inv
<1>4. QED
  BY <1>2, <1>3

LEMMA RequestInv == ASSUME Inv, NEW h \in Handlers, RequestStep(h) PROVE Inv' /\ Kept
<1>1. CASE Create(h)
  <2>1. by[h] \in Users /\ body[h] \in Fields
    BY <1>1, BodiesAssumption DEF Create, Inv, RequestsOK, PlaceOK
  <2>2. Kept /\ NoneGone
    BY <1>1, <2>1, AddRuleKept DEF Create, Inv
  <2>3. QED
    BY <1>1, <2>2, Ended DEF Create
<1>2. CASE List(h)
  <2>1. Kept /\ NoneGone
    BY <1>2, SameKept DEF List, Inv
  <2>2. PICK place \in {"insert", "inject"} : Goto(h, place)
    BY <1>2 DEF List
  <2>3. RequestsOK' /\ \A g \in Handlers : MadeOK(g)'
    BY <1>2, <2>1, <2>2, GotoOK DEF List, Inv, InOrder, queue
  <2>4. QueueOK' /\ SimulatedInOrder'
    BY <1>2, <2>1, QueueSame, StatusSame DEF Inv, InOrder, QueueOK, QueueTypes, queue, List
  <2>5. QED
    BY <2>1, <2>3, <2>4, TypesFollow DEF Inv, InOrder
<1>3. CASE Ensure(h)
  <2>1. by[h] \in Users /\ body[h] \in Fields
    BY <1>3, DemoAssumption DEF Ensure, Inv, RequestsOK, PlaceOK
  <2>2. Kept /\ NoneGone
    BY <1>3, <2>1, AddRuleKept DEF Ensure, Inv
  <2>3. RequestsOK' /\ \A g \in Handlers : MadeOK(g)'
    BY <1>3, <2>2, GotoOK DEF Ensure, Inv, InOrder, queue
  <2>4. QueueOK' /\ SimulatedInOrder'
    BY <1>3, <2>2, QueueSame, StatusSame DEF Inv, InOrder, QueueOK, QueueTypes, queue, Ensure
  <2>5. QED
    BY <2>2, <2>3, <2>4, TypesFollow DEF Inv, InOrder
<1>4. CASE Inject(h)
  BY <1>4, InjectInv, SameKept DEF Inject, Inv
<1>5. CASE Read(h)
  BY <1>5, ReadInv, SameKept DEF Read, Inv
<1>6. CASE Update(h)
  BY <1>6, UpdateKept, Ended DEF Update
<1>7. CASE Delete(h)
  BY <1>7, DeleteInv, DeleteKept
<1>8. CASE Fail(h)
  BY <1>8, SameKept, Ended DEF Fail, Inv
<1>9. QED
  BY <1>1, <1>2, <1>3, <1>4, <1>5, <1>6, <1>7, <1>8 DEF RequestStep

(***************************************************************************)
(* The worker                                                              *)
(***************************************************************************)
\* The loop over the candidates ends at the first of them that covers the
\* amount: there is a first, the places being natural numbers.
LEMMA FirstMatchOf ==
  ASSUME TypeOK, NEW e \in Events
  PROVE  \/ Hits(e) = {} /\ FirstMatch(e) = None
         \/ \E i \in Hits(e) : /\ FirstMatch(e) = order[i]
                               /\ \A j \in Hits(e) : i <= j
<1>1. CASE Hits(e) = {}
  BY <1>1 DEF FirstMatch
<1>2. CASE Hits(e) # {}
  <2>1. Hits(e) \subseteq Nat
    BY DEF TypeOK, Hits, EnabledByUserAndType
  <2> DEFINE less == {ss \in Nat \X Nat : ss[1] < ss[2]}
  <2>2. IsWellFoundedOn(less, Nat)
    BY NatLessThanWellFounded DEF OpToRel
  <2>3. PICK i \in Hits(e) : \A j \in Hits(e) : ~(<<j, i>> \in less)
    <3> HIDE DEF less
    <3> QED
      BY <1>2, <2>1, <2>2, WFMin
  <2>4. \A j \in Hits(e) : i <= j
    <3>1. ASSUME NEW j \in Nat, NEW k \in Nat, j < k PROVE <<j, k>> \in less
      BY <3>1
    <3>2. ASSUME NEW j \in Hits(e) PROVE i <= j
      <4>1. i \in Nat /\ j \in Nat /\ <<j, i>> \notin less
        BY <2>1, <2>3
      <4>2. ~(j < i)
        BY <3>1, <4>1
      <4>3. QED
        BY <4>1, <4>2
    <3>3. QED
      BY <3>2
  <2>5. FirstMatch(e) = order[CHOOSE k \in Hits(e) : \A j \in Hits(e) : k <= j]
    BY <1>2 DEF FirstMatch
  <2>6. QED
    BY <2>4, <2>5
<1>3. QED
  BY <1>1, <1>2

LEMMA MatchIsOwn ==
  ASSUME TypeOK, NEW e \in Events, FirstMatch(e) # None
  PROVE  /\ FirstMatch(e) \in Rules /\ Created(FirstMatch(e))
         /\ rule[FirstMatch(e)] # None /\ rule[FirstMatch(e)].user = Event[e].user
<1>1. PICK i \in Hits(e) : FirstMatch(e) = order[i]
  BY FirstMatchOf
<1>2. i \in DOMAIN order /\ order[i] \in Rules /\ Owns(Event[e].user, order[i])
  BY DEF Hits, EnabledByUserAndType, TypeOK
<1>3. QED
  BY <1>1, <1>2 DEF Owns, Created

LEMMA WorkerInv ==
  ASSUME Inv, UNCHANGED <<rule, order, requests>>, QueueOK', StillStored,
         \A e \in Events : Stored(e)' => Stored(e)
  PROVE  Inv' /\ Kept
<1>1. Kept
  BY SameKept DEF Inv
<1>2. RequestsOK'
  BY <1>1, RequestsSame DEF Inv
<1>3. SimulatedInOrder'
  BY DEF Inv, InOrder, SimulatedInOrder, StillStored, Stored
<1>4. ASSUME NEW h \in Handlers PROVE MadeOK(h)'
  BY DEF Inv, InOrder, MadeOK, StillStored, requests
<1>5. QED
  BY <1>1, <1>2, <1>3, <1>4, TypesFollow DEF Inv, InOrder

LEMMA ProcessInv ==
  ASSUME Inv, NEW w \in Workers, NEW e \in Events, Process(w, e) PROVE Inv' /\ Kept
<1>1. FirstMatch(e) \in Rules \cup {None}
  BY MatchIsOwn DEF Inv
<1>2. QueueTypes'
  BY <1>1 DEF Process, Inv, QueueOK, QueueTypes
<1>3. ASSUME NEW v \in Workers PROVE FoundOwn(v)'
  <2>1. UNCHANGED <<rule, order>>
    BY DEF Process
  <2>2. CASE v = w
    <3>1. found'[v] = FirstMatch(e) /\ job'[v] = e /\ e # None
      BY <2>2, NoneAssumption DEF Process, Inv, QueueOK, QueueTypes
    <3>2. QED
      BY <2>1, <3>1, MatchIsOwn DEF FoundOwn, Created, Inv
  <2>3. CASE v # w
    <3>1. found'[v] = found[v] /\ job'[v] = job[v] /\ FoundOwn(v)
      BY <2>3 DEF Process, Inv, QueueOK, QueueTypes
    <3>2. QED
      BY <2>1, <3>1 DEF FoundOwn, Created
  <2>4. QED
    BY <2>2, <2>3
<1>4. QueueOK'
  BY <1>2, <1>3 DEF QueueOK, MatchedIsOwn, Owns, Process, Inv
<1>5. QED
  BY <1>4, WorkerInv, StatusSame DEF Process, Stored

LEMMA RejectInv ==
  ASSUME Inv, NEW e \in Events, Reject(e) PROVE Inv' /\ Kept
<1>1. Kept /\ NoneGone
  BY SameKept DEF Inv, Reject
<1>2. QueueOK'
  BY <1>1, QueueSame DEF Reject, Inv, QueueOK, QueueTypes
<1>3. StillStored /\ \A d \in Events : Stored(d)' => Stored(d)
  BY DEF Reject, Inv, QueueOK, QueueTypes, StillStored, Stored
<1>4. QED
  BY <1>2, <1>3, WorkerInv DEF Reject

LEMMA MarkInv ==
  ASSUME Inv, NEW w \in Workers, MarkProcessed(w) PROVE Inv' /\ Kept
<1>1. job[w] \in Events /\ found[w] \in Rules \cup {None} /\ UNCHANGED <<rule, order>>
  BY DEF MarkProcessed, Inv, QueueOK, QueueTypes
<1>2. QueueTypes'
  BY <1>1 DEF MarkProcessed, Inv, QueueOK, QueueTypes
<1>3. ASSUME NEW v \in Workers PROVE FoundOwn(v)'
  <2>1. found'[v] = None \/ (found'[v] = found[v] /\ job'[v] = job[v])
    BY DEF MarkProcessed, Inv, QueueOK, QueueTypes
  <2>2. FoundOwn(v)
    BY DEF Inv, QueueOK
  <2>3. QED
    BY <1>1, <2>1, <2>2 DEF FoundOwn, Created
<1>4. ASSUME NEW e \in Events, matched'[e] # None PROVE Owns(Event[e].user, matched[e])'
  <2>1. CASE matched'[e] = matched[e]
    BY <1>1, <1>4, <2>1 DEF Inv, QueueOK, MatchedIsOwn, Owns
  <2>2. CASE matched'[e] # matched[e]
    <3>1. e = job[w] /\ matched'[e] = found[w] /\ rule[found[w]] # None
      BY <1>4, <2>2 DEF MarkProcessed, Inv, QueueOK, QueueTypes
    <3>2. FoundOwn(w)
      BY DEF Inv, QueueOK
    <3>3. QED
      BY <1>1, <1>4, <3>1, <3>2 DEF FoundOwn, Owns
  <2>3. QED
    BY <2>1, <2>2
<1>5. QueueOK'
  BY <1>2, <1>3, <1>4 DEF QueueOK, MatchedIsOwn
<1>6. StillStored /\ \A d \in Events : Stored(d)' => Stored(d)
  BY <1>1 DEF MarkProcessed, Inv, QueueOK, QueueTypes, StillStored, Stored
<1>7. QED
  BY <1>5, <1>6, WorkerInv DEF MarkProcessed

(***************************************************************************)
(* The theorems                                                            *)
(***************************************************************************)
LEMMA InitInv == Init => Inv
<1>1. ASSUME Init PROVE Inv
  <2>1. PICK o \in Offers : status =
          [e \in Events |-> IF e \notin o THEN "never" ELSE IF e \in Arrivals THEN "open" ELSE "none"]
    BY <1>1 DEF Init
  <2>2. RequestsOK
    BY <1>1 DEF Init, RequestsOK, RequestTypes, PlaceOK
  <2>3. QueueOK
    BY <1>1, <2>1 DEF Init, QueueOK, QueueTypes, MatchedIsOwn, FoundOwn
  <2>4. \A e \in Events : Stored(e) => Event[e].place = 0
    BY <2>1, OffersAssumption DEF Stored
  <2>5. InOrder
    BY <1>1, <2>4 DEF Init, InOrder, SimulatedInOrder, MadeOK
  <2>6. TypeOK
    BY <1>1, <2>2, <2>3 DEF Init, TypeOK, RequestsOK, RequestTypes, QueueOK, QueueTypes
  <2>7. QED
    BY <2>2, <2>3, <2>5, <2>6 DEF Inv
<1>2. QED
  BY <1>1

LEMMA NextInv == ASSUME Inv, [Next]_vars PROVE Inv' /\ Kept
<1>1. ASSUME NEW h \in Handlers, RequestStep(h) PROVE Inv' /\ Kept
  BY <1>1, RequestInv
<1>2. ASSUME NEW h \in Handlers, NEW u \in Users, Receive(h, u) PROVE Inv' /\ Kept
  <2>1. UNCHANGED <<rule, order, queue>>
    BY <1>2 DEF Receive, Begin
  <2>2. Kept /\ NoneGone
    BY <2>1, SameKept DEF Inv
  <2>3. RequestsOK' /\ \A h_1 \in Handlers : MadeOK(h_1)'
    BY <1>2, <2>2, BeginOK DEF Inv, InOrder
  <2>4. QueueOK' /\ SimulatedInOrder'
    BY <2>1, <2>2, QueueSame, StatusSame DEF Inv, InOrder, QueueOK, QueueTypes, queue
  <2>5. QED
    BY <2>2, <2>3, <2>4, TypesFollow DEF Inv, InOrder
<1>3. CASE UNCHANGED vars
  <2>1. QueueOK'
    BY <1>3, SameKept, QueueSame DEF vars, queue, Inv, QueueOK, QueueTypes
  <2>2. QED
    BY <1>3, <2>1, WorkerInv, StatusSame DEF vars, queue, Stored
<1>4. QED
  BY <1>1, <1>2, <1>3, ProcessInv, RejectInv, MarkInv DEF Next

LEMMA SpecInv == Spec => []Inv
<1>1. Inv /\ [Next]_vars => Inv'
  BY NextInv
<1>2. QED
  BY <1>1, InitInv, PTL DEF Spec

\* The rule of a processed event is the event's user's own: MarkProcessed,
\* UpdateForUser and DeleteForUser of api/internal/events and rules.
THEOREM MatchesAreOwn == Spec => []MatchedIsOwn
<1>1. Inv => MatchedIsOwn
  BY DEF Inv, QueueOK
<1>2. QED
  BY <1>1, SpecInv, PTL

\* What a simulation leaves in the queue when it stops is the first of its
\* events: the loop of Simulate of api/internal/demo.
THEOREM SimulationsAreOrdered == Spec => []SimulatedInOrder
<1>1. Inv => SimulatedInOrder
  BY DEF Inv, InOrder
<1>2. QED
  BY <1>1, SpecInv, PTL

\* No statement brings a deleted rule back: UpdateForUser of api/internal/rules.
THEOREM DeletedRulesStay == Spec => DeletedStays
<1>1. Inv /\ [Next]_vars =>
        [\A r \in Rules : rule[r] = None /\ Created(r) => rule'[r] = None]_vars
  BY NextInv DEF Kept
<1>2. QED
  BY <1>1, SpecInv, PTL DEF Spec, DeletedStays

(***************************************************************************)
(* The oldest rule that applies                                            *)
(***************************************************************************)
LEMMA HitsApply ==
  ASSUME TypeOK, NEW e \in Events
  PROVE  /\ \A i \in Hits(e) : i \in DOMAIN order /\ order[i] \in Applying(e)
         /\ \A i \in DOMAIN order : order[i] \in Applying(e) => i \in Hits(e)
         /\ \A r \in Applying(e) : \E i \in Hits(e) : order[i] = r
<1>1. ASSUME NEW fields, NEW payload
      PROVE  Covers(fields, payload) <=> Passes(payload, fields.threshold)
  BY DEF Covers, Passes, HasAmount, Amount
<1>2. \A i \in DOMAIN order : order[i] \in Rules
  BY DEF TypeOK
<1>3. \A i \in DOMAIN order : i \in Hits(e) <=> order[i] \in Applying(e)
  BY <1>1, <1>2 DEF Hits, EnabledByUserAndType, Owns, Applying
<1>4. \A r \in Applying(e) : \E i \in DOMAIN order : order[i] = r
  BY DEF Applying, TypeOK
<1>5. Hits(e) \subseteq DOMAIN order
  BY DEF Hits, EnabledByUserAndType
<1>6. QED
  BY <1>3, <1>4, <1>5

LEMMA FirstMatchOldest ==
  ASSUME TypeOK, NEW e \in Events
  PROVE  \/ Applying(e) = {} /\ FirstMatch(e) = None
         \/ \E i \in DOMAIN order :
              /\ order[i] \in Applying(e) /\ order[i] = FirstMatch(e)
              /\ \A j \in 1..(i - 1) : order[j] \notin Applying(e)
<1>1. CASE Hits(e) = {} /\ FirstMatch(e) = None
  BY <1>1, HitsApply
<1>2. ASSUME NEW i \in Hits(e), FirstMatch(e) = order[i], \A j \in Hits(e) : i <= j
      PROVE  /\ i \in DOMAIN order /\ order[i] \in Applying(e) /\ order[i] = FirstMatch(e)
             /\ \A j \in 1..(i - 1) : order[j] \notin Applying(e)
  <2>1. i \in DOMAIN order /\ DOMAIN order = 1..Len(order) /\ Len(order) \in Nat
    BY HitsApply DEF TypeOK
  <2>2. ASSUME NEW j \in 1..(i - 1), order[j] \in Applying(e) PROVE FALSE
    <3>1. j \in DOMAIN order /\ j < i
      BY <2>1
    <3>2. i <= j
      BY <1>2, <2>2, <3>1, HitsApply
    <3>3. QED
      BY <2>1, <3>1, <3>2
  <2>3. QED
    BY <1>2, <2>1, <2>2, HitsApply
<1>3. QED
  BY <1>1, <1>2, FirstMatchOf

\* A worker has an event that it did not have only if it has just read its rules.
LEMMA TakenByProcess ==
  ASSUME Inv, [Next]_vars, NEW w \in Workers, NEW e \in Events, job[w] = None, job'[w] = e
  PROVE  Process(w, e)
<1>1. job' # job /\ e # None /\ job \in [Workers -> Events \cup {None}]
  BY NoneAssumption DEF Inv, QueueOK, QueueTypes
<1>2. ASSUME NEW h \in Handlers, RequestStep(h) PROVE UNCHANGED job
  BY <1>2 DEF RequestStep, Create, List, Ensure, Inject, Read, Update, Delete, Fail, queue
<1>3. ASSUME NEW h \in Handlers, NEW u \in Users, Receive(h, u) PROVE UNCHANGED job
  BY <1>3 DEF Receive, Begin, queue
<1>4. ASSUME NEW v \in Workers, MarkProcessed(v) PROVE job'[w] = None
  BY <1>1, <1>4 DEF MarkProcessed
<1>5. ASSUME NEW v \in Workers, NEW d \in Events, Process(v, d) PROVE Process(w, e)
  BY <1>1, <1>5 DEF Process
<1>6. ASSUME NEW d \in Events, Reject(d) PROVE UNCHANGED job
  BY <1>6 DEF Reject
<1>7. CASE UNCHANGED vars
  BY <1>1, <1>7 DEF vars, queue
<1>8. QED
  BY <1>1, <1>2, <1>3, <1>4, <1>5, <1>6, <1>7 DEF Next

\* The worker takes the oldest of the rules that apply: process of
\* api/internal/worker, and EnabledByUserAndType of api/internal/rules.
THEOREM OldestRuleApplies == Spec => OldestApplies
<1>1. ASSUME Inv, [Next]_vars
      PROVE  \A w \in Workers, e \in Events : job[w] = None /\ job'[w] = e =>
               \/ (Applying(e) = {}) /\ found'[w] = None
               \/ \E i \in DOMAIN order :
                    /\ order[i] \in Applying(e) /\ order[i] = found'[w]
                    /\ \A j \in 1..(i - 1) : order[j] \notin Applying(e)
  <2>1. SUFFICES ASSUME NEW w \in Workers, NEW e \in Events, job[w] = None, job'[w] = e
                 PROVE  \/ (Applying(e) = {}) /\ found'[w] = None
                        \/ \E i \in DOMAIN order :
                             /\ order[i] \in Applying(e) /\ order[i] = found'[w]
                             /\ \A j \in 1..(i - 1) : order[j] \notin Applying(e)
    OBVIOUS
  <2>2. Process(w, e)
    BY <1>1, <2>1, TakenByProcess
  <2>3. found'[w] = FirstMatch(e)
    BY <1>1, <2>2 DEF Process, Inv, QueueOK, QueueTypes
  <2>4. QED
    BY <1>1, <2>3, FirstMatchOldest DEF Inv
<1>2. QED
  BY <1>1, SpecInv, PTL DEF Spec, OldestApplies

(***************************************************************************)
(* One demo rule                                                           *)
(***************************************************************************)
\* Nobody gives the name of the demo rule to another rule, or takes it away.
NameReserved == (\A b \in Inputs : b.name # DemoName) /\ (\A b \in Patches : b.name = None)

Demo(u, r) == Owns(u, r) /\ rule[r].fields.name = DemoName
Ensuring(h) == pc[h] \in {"list", "insert", "inject"}

DemoOK ==
    /\ \A r, s \in Rules : \A u \in Users : Demo(u, r) /\ Demo(u, s) => r = s
    /\ \A g, h \in Handlers : Ensuring(g) /\ Ensuring(h) /\ by[g] = by[h] => g = h
    /\ \A h \in Handlers : pc[h] = "insert" => \A r \in Rules : ~Demo(by[h], r)
    /\ \A h \in Handlers : pc[h] = "merge" /\ rule[target[h]] # None =>
         current[h].name = rule[target[h]].fields.name

\* The rules have their names, and no demo rule is new.
NamesKept == \A r \in Rules : rule[r] # None /\ rule'[r] # None =>
               rule'[r].fields.name = rule[r].fields.name
NoNewDemo == \A u \in Users, r \in Rules : Demo(u, r)' => Demo(u, r)
\* A request goes on where it was, or has read what is there.
Goes(h) ==
    /\ Ensuring(h)' => Ensuring(h) /\ by'[h] = by[h]
    /\ pc'[h] = "insert" =>
         pc[h] = "insert" \/ \A r \in Rules : ~Demo(by[h], r)
    /\ pc'[h] = "merge" =>
         \/ pc[h] = "merge" /\ current'[h] = current[h] /\ target'[h] = target[h]
         \/ /\ rule'[target'[h]] = rule[target'[h]]
            /\ current'[h] = rule[target'[h]].fields

LEMMA DemoSteps ==
  ASSUME Inv, Inv', Kept, DemoOK, NamesKept, NoNewDemo, \A h \in Handlers : Goes(h)
  PROVE  DemoOK'
<1>1. \A r, s \in Rules : \A u \in Users : Demo(u, r)' /\ Demo(u, s)' => r = s
  BY DEF DemoOK, NoNewDemo
<1>2. \A g, h \in Handlers : Ensuring(g)' /\ Ensuring(h)' /\ by'[g] = by'[h] => g = h
  BY DEF DemoOK, Goes
<1>3. ASSUME NEW h \in Handlers, pc'[h] = "insert" PROVE \A r \in Rules : ~Demo(by[h], r)'
  <2>1. by'[h] \in Users /\ by'[h] = by[h]
    BY <1>3 DEF Inv, RequestsOK, PlaceOK, Goes, Ensuring
  <2>2. \A r \in Rules : ~Demo(by[h], r)
    BY <1>3 DEF DemoOK, Goes
  <2>3. QED
    BY <2>1, <2>2 DEF NoNewDemo, Demo, Owns
<1>4. ASSUME NEW h \in Handlers, pc'[h] = "merge", rule'[target'[h]] # None
      PROVE  current'[h].name = rule'[target'[h]].fields.name
  <2>1. target'[h] \in Rules
    BY <1>4 DEF Inv, RequestsOK, PlaceOK
  <2>2. CASE pc[h] = "merge" /\ current'[h] = current[h] /\ target'[h] = target[h]
    <3>1. Created(target[h])
      BY <2>2 DEF Inv, RequestsOK, PlaceOK
    <3>2. rule[target[h]] # None
      BY <1>4, <2>1, <2>2, <3>1 DEF Kept
    <3>3. QED
      BY <1>4, <2>1, <2>2, <3>2 DEF DemoOK, NamesKept
  <2>3. QED
    BY <1>4, <2>2 DEF Goes
<1>5. QED
  BY <1>1, <1>2, <1>3, <1>4 DEF DemoOK

LEMMA GoesDone ==
  ASSUME RequestTypes, NEW g \in Handlers, Done(g) PROVE \A h \in Handlers : Goes(h)
  BY DEF RequestTypes, Done, Goes, Ensuring

LEMMA GoesSame == ASSUME UNCHANGED requests PROVE \A h \in Handlers : Goes(h)
  BY DEF requests, Goes, Ensuring

LEMMA SameNames == ASSUME UNCHANGED rule PROVE NamesKept /\ NoNewDemo
  BY DEF NamesKept, NoNewDemo, Demo, Owns

LEMMA CreateNames ==
  ASSUME Inv, NameReserved, NEW h \in Handlers, Create(h) PROVE NamesKept /\ NoNewDemo
<1>1. PICK r \in Rules :
        /\ ~Created(r) /\ rule' = [rule EXCEPT ![r] = [user |-> by[h], fields |-> body[h]]]
  BY DEF Create, AddRule
<1>2. rule[r] = None /\ \A s \in Rules : s # r => rule'[s] = rule[s]
  BY <1>1 DEF Inv, TypeOK, Created
<1>3. rule'[r].fields.name # DemoName
  BY <1>1 DEF Create, NameReserved, Inv, TypeOK, RequestsOK, PlaceOK
<1>4. QED
  BY <1>2, <1>3 DEF NamesKept, NoNewDemo, Demo, Owns

LEMMA UpdateNames ==
  ASSUME Inv, DemoOK, NameReserved, NEW h \in Handlers, Update(h)
  PROVE  NamesKept /\ NoNewDemo
<1>1. CASE ~Owns(by[h], target[h])
  BY <1>1, SameNames DEF Update
<1>2. CASE Owns(by[h], target[h])
  <2>1. pc[h] = "merge" /\ rule[target[h]] # None
    BY <1>2 DEF Update, Owns
  <2>2. target[h] \in Rules /\ current[h] \in Fields /\ body[h].name = None
    BY <2>1 DEF Inv, RequestsOK, PlaceOK, NameReserved
  <2>3. rule[target[h]] \in Row
    BY <2>1, <2>2 DEF Inv, TypeOK
  <2>4. rule' = [rule EXCEPT ![target[h]] =
                   [rule[target[h]] EXCEPT !.fields = Merge(current[h], body[h])]]
    BY <1>2 DEF Update
  <2>5. Merge(current[h], body[h]).name = current[h].name
    BY <2>2 DEF Merge, Fields
  <2>6. rule'[target[h]] = [rule[target[h]] EXCEPT !.fields = Merge(current[h], body[h])]
    BY <2>2, <2>4 DEF Inv, TypeOK
  <2>7. rule'[target[h]].fields = Merge(current[h], body[h])
        /\ rule'[target[h]].user = rule[target[h]].user
    BY <2>3, <2>6 DEF Row
  <2>8. rule'[target[h]].fields.name = rule[target[h]].fields.name
    BY <2>1, <2>5, <2>7 DEF DemoOK
  <2>9. \A s \in Rules : s # target[h] => rule'[s] = rule[s]
    BY <2>4 DEF Inv, TypeOK
  <2>10. QED
    BY <2>1, <2>7, <2>8, <2>9 DEF NamesKept, NoNewDemo, Demo, Owns
<1>3. QED
  BY <1>1, <1>2

LEMMA DeleteNames ==
  ASSUME Inv, NEW h \in Handlers, Delete(h) PROVE NamesKept /\ NoNewDemo
<1>1. \A r \in Rules : rule'[r] = None \/ rule'[r] = rule[r]
  BY DEF Delete, RemoveRule, Inv, TypeOK
<1>2. QED
  BY <1>1 DEF NamesKept, NoNewDemo, Demo, Owns

\* ensureDemoRule creates the rule when there is none, and no other request
\* of the user is about to.
LEMMA EnsureDemo ==
  ASSUME Inv, Inv', Kept, DemoOK, NEW h \in Handlers, Ensure(h) PROVE DemoOK'
<1>1. PICK r \in Rules :
        /\ ~Created(r) /\ rule' = [rule EXCEPT ![r] = [user |-> by[h], fields |-> body[h]]]
  BY DEF Ensure, AddRule
<1>2. rule[r] = None /\ \A s \in Rules : s # r => rule'[s] = rule[s]
  BY <1>1 DEF Inv, TypeOK, Created
<1>3. rule'[r] = [user |-> by[h], fields |-> body[h]]
  BY <1>1 DEF Inv, TypeOK
<1>4. \A u \in Users, s \in Rules : Demo(u, s)' => Demo(u, s) \/ (s = r /\ u = by[h])
  BY <1>2, <1>3 DEF Demo, Owns
<1>5. \A s \in Rules : ~Demo(by[h], s)
  BY DEF DemoOK, Ensure
<1>6. /\ pc[h] = "insert" /\ pc' = [pc EXCEPT ![h] = "inject"]
      /\ UNCHANGED <<by, target, body, current, wanted, made>>
  BY DEF Ensure, Goto
<1>7. \A s, t \in Rules : \A u \in Users : Demo(u, s)' /\ Demo(u, t)' => s = t
  BY <1>4, <1>5 DEF DemoOK
<1>8. \A f, g \in Handlers : Ensuring(f)' /\ Ensuring(g)' /\ by'[f] = by'[g] => f = g
  BY <1>6 DEF DemoOK, Ensuring, Inv, RequestsOK, RequestTypes
<1>9. ASSUME NEW g \in Handlers, pc'[g] = "insert" PROVE \A s \in Rules : ~Demo(by[g], s)'
  <2>1. g # h /\ pc[g] = "insert" /\ by'[g] = by[g] /\ by[g] # by[h] /\ by[g] \in Users
    BY <1>6, <1>9 DEF DemoOK, Ensuring, Inv, RequestsOK, RequestTypes, PlaceOK
  <2>2. \A s \in Rules : ~Demo(by[g], s)
    BY <2>1 DEF DemoOK
  <2>3. QED
    BY <1>2, <1>3, <2>1, <2>2 DEF Demo, Owns
<1>10. ASSUME NEW g \in Handlers, pc'[g] = "merge", rule'[target'[g]] # None
       PROVE  current'[g].name = rule'[target'[g]].fields.name
  <2>1. pc[g] = "merge" /\ target[g] \in Rules /\ Created(target[g])
    BY <1>6, <1>10 DEF Inv, RequestsOK, RequestTypes, PlaceOK
  <2>2. rule'[target[g]] = rule[target[g]]
    BY <1>1, <1>2, <2>1
  <2>3. QED
    BY <1>6, <1>10, <2>1, <2>2 DEF DemoOK
<1>11. QED
  BY <1>7, <1>8, <1>9, <1>10 DEF DemoOK

\* A simulation starts when the user has no other.
LEMMA ReceiveDemo ==
  ASSUME Inv, DemoOK, ~DemoOverlap, NEW h \in Handlers, NEW u \in Users, Receive(h, u)
  PROVE  DemoOK'
<1>1. PICK place, r, b, n : Begin(h, place, u, r, b, n) /\ place \notin {"insert", "merge"}
                            /\ (place \in {"list", "inject"} =>
                                  \A g \in Handlers : Ensuring(g) => by[g] # u)
  BY DEF Receive, Ensuring
<1>2. /\ UNCHANGED <<rule, order, current>>
      /\ by'[h] = u /\ pc'[h] = place
      /\ \A g \in Handlers : g # h => pc'[g] = pc[g] /\ by'[g] = by[g] /\ target'[g] = target[g]
  BY <1>1 DEF Begin, Inv, RequestsOK, RequestTypes
<1>3. \A f, g \in Handlers : Ensuring(f)' /\ Ensuring(g)' /\ by'[f] = by'[g] => f = g
  BY <1>1, <1>2 DEF DemoOK, Ensuring
<1>4. QED
  BY <1>1, <1>2, <1>3 DEF DemoOK, Demo, Owns

LEMMA RequestDemo ==
  ASSUME Inv, Inv', Kept, DemoOK, NameReserved, NEW h \in Handlers, RequestStep(h)
  PROVE  DemoOK'
<1> USE DEF Inv
<1>1. CASE Create(h)
  BY <1>1, CreateNames, GoesDone, DemoSteps DEF Create, RequestsOK
<1>2. CASE List(h)
  <2>1. \A g \in Handlers : Goes(g)
    BY <1>2 DEF List, ListByUser, Goto, Goes, Ensuring, RequestsOK, RequestTypes, Demo
  <2>2. QED
    BY <1>2, <2>1, SameNames, DemoSteps DEF List
<1>3. CASE Ensure(h)
  BY <1>3, EnsureDemo
<1>4. CASE Inject(h)
  <2>1. CASE Done(h)
    BY <1>4, <2>1, SameNames, GoesDone, DemoSteps DEF Inject, RequestsOK
  <2>2. CASE UNCHANGED <<pc, by, target, body, current, wanted>>
    <3>1. \A g \in Handlers : Goes(g)
      BY <2>2 DEF Goes, Ensuring
    <3>2. QED
      BY <1>4, <3>1, SameNames, DemoSteps DEF Inject
  <2>3. QED
    BY <1>4, <2>1, <2>2 DEF Inject
<1>5. CASE Read(h)
  <2>1. CASE Done(h)
    BY <1>5, <2>1, SameNames, GoesDone, DemoSteps DEF Read, RequestsOK
  <2>2. CASE /\ pc' = [pc EXCEPT ![h] = "merge"]
             /\ current' = [current EXCEPT ![h] = rule[target[h]].fields]
             /\ UNCHANGED <<by, target, body, wanted, made>>
    <3>1. \A g \in Handlers : Goes(g)
      BY <1>5, <2>2 DEF Goes, Ensuring, Read, RequestsOK, RequestTypes
    <3>2. QED
      BY <1>5, <3>1, SameNames, DemoSteps DEF Read
  <2>3. QED
    BY <1>5, <2>1, <2>2 DEF Read
<1>6. CASE Update(h)
  BY <1>6, UpdateNames, GoesDone, DemoSteps DEF Update, RequestsOK
<1>7. CASE Delete(h)
  BY <1>7, DeleteNames, GoesDone, DemoSteps DEF Delete, RequestsOK
<1>8. CASE Fail(h)
  BY <1>8, SameNames, GoesDone, DemoSteps DEF Fail, RequestsOK
<1>9. QED
  BY <1>1, <1>2, <1>3, <1>4, <1>5, <1>6, <1>7, <1>8 DEF RequestStep

DemoInv == NameReserved /\ ~DemoOverlap => DemoOK

LEMMA NextDemo == ASSUME Inv, DemoInv, [Next]_vars PROVE DemoInv'
<1>1. SUFFICES ASSUME NameReserved, ~DemoOverlap, DemoOK PROVE DemoOK'
  BY DEF DemoInv, NameReserved
<1>2. Inv' /\ Kept
  BY NextInv
<1>3. ASSUME NEW h \in Handlers, RequestStep(h) PROVE DemoOK'
  BY <1>1, <1>2, <1>3, RequestDemo
<1>4. ASSUME NEW h \in Handlers, NEW u \in Users, Receive(h, u) PROVE DemoOK'
  BY <1>1, <1>4, ReceiveDemo
<1>5. CASE UNCHANGED <<rule, requests>>
  BY <1>1, <1>2, <1>5, SameNames, GoesSame, DemoSteps
<1>6. QED
  BY <1>3, <1>4, <1>5 DEF Next, Process, Reject, MarkProcessed, vars

\* There is one demo rule per user at most, if nobody gives its name to
\* another rule or takes it away: ensureDemoRule of api/internal/demo.
THEOREM DemoRuleIsOne == NameReserved => (Spec => []OneDemoRule)
<1>1. Init => DemoInv
  BY DEF Init, DemoInv, DemoOK, Demo, Owns, Ensuring
<1>2. Inv /\ DemoInv /\ [Next]_vars => DemoInv'
  BY NextDemo
<1>3. ASSUME NameReserved PROVE DemoInv => OneDemoRule
  BY <1>3 DEF DemoInv, DemoOK, OneDemoRule, Demo
<1>4. ASSUME NameReserved PROVE Spec => []OneDemoRule
  BY <1>1, <1>2, <1>3, <1>4, SpecInv, PTL DEF Spec
<1>5. QED
  BY <1>4
===============================================================================
