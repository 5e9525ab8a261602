-------------------------- MODULE WebhookIngestProofs -------------------------
(***************************************************************************)
(* Theorems about WebhookIngest, for every number of handlers, users, keys *)
(* and messages.                                                           *)
(***************************************************************************)
EXTENDS WebhookIngest, TLAPS

\* What a handler knows at each place of Ingest.
RequestKnown ==
    \A h \in Handlers :
        /\ pc[h] # "idle" => msg[h] \in Messages
        /\ pc[h] \notin {"idle", "lookup"} => user[h] \in Users
\* An insert under way is alone with its key, and the key is new.
InsertsExclusive ==
    \A g, h \in Handlers :
        /\ pc[g] = "inserting" /\ pc[h] = "inserting"
        /\ user[g] = user[h] /\ msg[g].key = msg[h].key
        => g = h
InsertsFresh ==
    \A h \in Handlers : pc[h] = "inserting" => Stored(user[h], msg[h].key) = {}
\* What a handler is about to answer with.
ReadyAnswers ==
    \A h \in Handlers :
        /\ pc[h] \in {"created", "found"} =>
             ev[h] \in Ids /\ row[ev[h]] # None /\ row[ev[h]].key = msg[h].key
        /\ pc[h] = "created" => row[ev[h]].body = msg[h].body

Inv ==
    /\ TypeOK /\ RequestKnown
    /\ InsertsExclusive /\ InsertsFresh /\ ReadyAnswers
    /\ OneEventPerKey /\ AnswersHonest /\ AcceptedOnce /\ ReplayFindsEvent

LEMMA Types ==
    /\ None \notin Users /\ None \notin Ids /\ None \notin Messages /\ None \notin Rows
    /\ \A m \in Messages : m.ref \in Refs /\ m.key \in Keys /\ m.body \in Bodies
    /\ MaxDups \in Nat /\ MaxFaults \in Nat /\ MaxRemaps \in Nat
BY NoneAssumption, MessagesAssumption, BoundsAssumption DEF MessageType, Rows

LEMMA InitInv == Init => Inv
BY Types
DEF Init, Inv, TypeOK, RequestKnown, InsertsExclusive, InsertsFresh, ReadyAnswers, Pcs,
    OneEventPerKey, AnswersHonest, AcceptedOnce, ReplayFindsEvent

\* The handler h is done with its request, and the rows are as before; what it
\* has answered, if anything, is true.
LEMMA DoneInv ==
    ASSUME Inv, NEW h \in Handlers, Done(h), UNCHANGED <<row, refUser>>,
           dups' \in 0..MaxDups, faults' \in 0..MaxFaults, remaps' \in 0..MaxRemaps,
           answers' \in SUBSET Answers, AnswersHonest', AcceptedOnce'
    PROVE  Inv'
<1> USE DEF Inv, TypeOK, Done, Goto
<1>1. pc'[h] = "idle" /\ \A g \in Handlers \ {h} :
        pc'[g] = pc[g] /\ msg'[g] = msg[g] /\ user'[g] = user[g] /\ ev'[g] = ev[g]
  OBVIOUS
<1>2. TypeOK'
  BY DEF Pcs
<1>3. RequestKnown' /\ InsertsExclusive' /\ ReadyAnswers'
  BY <1>1 DEF RequestKnown, InsertsExclusive, ReadyAnswers
<1>4. InsertsFresh' /\ ReplayFindsEvent' /\ OneEventPerKey'
  BY <1>1 DEF InsertsFresh, ReplayFindsEvent, OneEventPerKey, Stored
<1> QED
  BY <1>2, <1>3, <1>4

\* An answer that is no acknowledgement changes nothing that is promised.
LEMMA RefusalInv ==
    ASSUME Inv, NEW a \in Answers, a.status \notin {200, 202}, answers' = answers \cup {a},
           UNCHANGED row,
           \A h \in Handlers : pc'[h] = "created" => pc[h] = "created" /\ ev'[h] = ev[h]
    PROVE  answers' \in SUBSET Answers /\ AnswersHonest' /\ AcceptedOnce'
BY DEF Inv, TypeOK, AnswersHonest, AcceptedOnce

\* The handler h goes on and no row changes.
LEMMA GoesOn ==
    ASSUME Inv, NEW h \in Handlers, NEW place \in Pcs \ {"created"}, Goto(h, place),
           UNCHANGED <<row, answers>>, TypeOK',
           \A g \in Handlers \ {h} : msg'[g] = msg[g] /\ user'[g] = user[g] /\ ev'[g] = ev[g],
           place # "idle" => msg'[h] \in Messages,
           place \notin {"idle", "lookup"} => user'[h] \in Users,
           place = "inserting" =>
             /\ Stored(user'[h], msg'[h].key) = {}
             /\ \A g \in Handlers \ {h} : pc[g] = "inserting" =>
                  ~(user[g] = user'[h] /\ msg[g].key = msg'[h].key),
           place = "conflict" => Stored(user'[h], msg'[h].key) # {},
           place = "found" => ev'[h] \in Ids /\ row[ev'[h]] # None /\ row[ev'[h]].key = msg'[h].key
    PROVE  Inv'
<1> USE DEF Inv, TypeOK, Goto
<1>1. pc'[h] = place /\ \A g \in Handlers \ {h} : pc'[g] = pc[g]
  OBVIOUS
<1>2. RequestKnown' /\ ReadyAnswers'
  BY <1>1 DEF RequestKnown, ReadyAnswers
<1>3. InsertsExclusive'
  BY <1>1 DEF InsertsExclusive
<1>4. InsertsFresh' /\ ReplayFindsEvent' /\ OneEventPerKey'
  BY <1>1 DEF InsertsFresh, ReplayFindsEvent, OneEventPerKey, Stored
<1>5. AnswersHonest' /\ AcceptedOnce'
  BY <1>1 DEF AnswersHonest, AcceptedOnce
<1> QED
  BY <1>2, <1>3, <1>4, <1>5

\* A commit makes the event that nobody had, answered or not.
LEMMA CommitInv ==
    ASSUME Inv, NEW h \in Handlers, Commit(h)
    PROVE  Inv'
<1> USE Types DEF Inv, TypeOK, Commit, Goto
<1>1. PICK i \in Ids :
        /\ row[i] = None
        /\ row' = [row EXCEPT ![i] = [user |-> user[h], key |-> msg[h].key, body |-> msg[h].body]]
        /\ ev' = [ev EXCEPT ![h] = i]
  OBVIOUS
<1>2. /\ msg[h] \in Messages /\ user[h] \in Users
      /\ msg[h].key \in Keys /\ msg[h].body \in Bodies
  BY DEF RequestKnown
<1>3. /\ row'[i] = [user |-> user[h], key |-> msg[h].key, body |-> msg[h].body]
      /\ row'[i] \in Rows /\ row'[i] # None
      /\ \A j \in Ids \ {i} : row'[j] = row[j]
  BY <1>1, <1>2 DEF Rows
<1>4. /\ pc'[h] = "created" /\ ev'[h] = i
      /\ \A g \in Handlers \ {h} : pc'[g] = pc[g] /\ ev'[g] = ev[g]
      /\ UNCHANGED <<msg, user, answers>>
  BY <1>1
<1>5. TypeOK'
  BY <1>1, <1>3 DEF Pcs
<1>6. RequestKnown' /\ InsertsExclusive'
  BY <1>2, <1>4 DEF RequestKnown, InsertsExclusive
<1>7. InsertsFresh'
  <2> SUFFICES ASSUME NEW g \in Handlers, pc'[g] = "inserting"
               PROVE  Stored(user[g], msg[g].key)' = {}
    BY <1>4 DEF InsertsFresh
  <2>1. g # h /\ pc[g] = "inserting" /\ ~(user[g] = user[h] /\ msg[g].key = msg[h].key)
    BY <1>4 DEF InsertsExclusive
  <2>2. Stored(user[g], msg[g].key) = {}
    BY <2>1 DEF InsertsFresh
  <2> QED
    BY <1>3, <1>4, <2>1, <2>2 DEF Stored
<1>8. ReadyAnswers'
  BY <1>1, <1>3, <1>4 DEF ReadyAnswers
<1>9. OneEventPerKey'
  <2>1. Stored(user[h], msg[h].key) = {}
    BY DEF InsertsFresh
  <2> QED
    BY <1>3, <2>1 DEF OneEventPerKey, Stored
<1>10. AnswersHonest'
  BY <1>1, <1>3, <1>4 DEF AnswersHonest, Answers
<1>11. AcceptedOnce'
  <2>1. \A a \in answers : a.status = 202 => a.ev # i
    BY <1>1 DEF AnswersHonest
  <2>2. \A g \in Handlers : pc[g] = "created" => ev[g] # i
    BY <1>1 DEF ReadyAnswers
  <2> QED
    BY <1>4, <2>1, <2>2 DEF AcceptedOnce
<1>12. ReplayFindsEvent'
  BY <1>1, <1>3, <1>4 DEF ReplayFindsEvent, Stored
<1> QED
  BY <1>5, <1>6, <1>7, <1>8, <1>9, <1>10, <1>11, <1>12

LEMMA RespondInv ==
    ASSUME Inv, NEW h \in Handlers, Respond(h)
    PROVE  Inv'
<1> USE Types DEF Inv, TypeOK
<1>1. PICK s \in {200, 202} :
        /\ Answer(h, s)
        /\ s = 202 => pc[h] = "created"
        /\ pc[h] \in {"created", "found"}
  BY DEF Respond
<1> DEFINE a == [msg |-> msg[h], status |-> s, ev |-> ev[h]]
<1>2. /\ a \in Answers /\ a.msg = msg[h] /\ a.status = s /\ a.ev = ev[h]
      /\ row[a.ev] # None /\ row[a.ev].key = a.msg.key
      /\ a.ev # None /\ (s = 202 => row[a.ev].body = a.msg.body)
  BY <1>1 DEF Answers, ReadyAnswers, RequestKnown
<1>3. answers' = answers \cup {a} /\ UNCHANGED row
  BY <1>1 DEF Answer, Respond
<1>4. answers' \in SUBSET Answers
  BY <1>2, <1>3
<1> HIDE DEF a
<1>5. AnswersHonest'
  BY <1>2, <1>3 DEF AnswersHonest
<1>6. \A g \in Handlers : pc'[g] = "created" => g # h /\ pc[g] = "created" /\ ev'[g] = ev[g]
  BY <1>1 DEF Answer, Done, Goto
<1>7. AcceptedOnce'
  BY <1>1, <1>2, <1>3, <1>6 DEF AcceptedOnce
<1> QED
  BY <1>1, <1>4, <1>5, <1>7, DoneInv DEF Respond, Answer

LEMMA NextInv == Inv /\ [Next]_vars => Inv'
<1> SUFFICES ASSUME Inv, [Next]_vars PROVE Inv'
  OBVIOUS
<1> USE Types
<1>1. ASSUME NEW h \in Handlers, NEW m \in Messages, Deliver(h, m) PROVE Inv'
  <2>1. dups' \in 0..MaxDups
    BY <1>1 DEF Deliver, Inv, TypeOK
  <2>2. CASE m.valid
    <3>1. TypeOK'
      BY <1>1, <2>1, <2>2 DEF Deliver, Goto, Inv, TypeOK, Pcs
    <3>2. /\ Goto(h, "lookup") /\ msg' = [msg EXCEPT ![h] = m]
          /\ UNCHANGED <<row, answers, user, ev>>
      BY <1>1, <2>2 DEF Deliver
    <3> QED
      BY <3>1, <3>2, GoesOn DEF Inv, TypeOK, Pcs
  <2>3. CASE ~m.valid
    <3> DEFINE a == [msg |-> m, status |-> 400, ev |-> None]
    <3>1. /\ a \in Answers /\ a.status = 400 /\ answers' = answers \cup {a}
          /\ UNCHANGED <<row, refUser, handlers, faults, remaps>>
      BY <1>1, <2>3 DEF Deliver, Answers, handlers
    <3>2. answers' \in SUBSET Answers /\ AnswersHonest' /\ AcceptedOnce'
      BY <3>1, RefusalInv DEF handlers
    <3> QED
      BY <2>1, <3>1, <3>2
      DEF Inv, TypeOK, RequestKnown, InsertsExclusive, InsertsFresh, ReadyAnswers,
          OneEventPerKey, ReplayFindsEvent, Stored, handlers
  <2> QED
    BY <2>2, <2>3
<1>2. ASSUME NEW h \in Handlers, Lookup(h) PROVE Inv'
  <2>1. msg[h] \in Messages /\ refUser[msg[h].ref] \in Users
    BY <1>2 DEF Lookup, Inv, TypeOK, RequestKnown
  <2>2. TypeOK'
    BY <1>2, <2>1 DEF Lookup, Goto, Inv, TypeOK, Pcs
  <2> QED
    BY <1>2, <2>1, <2>2, GoesOn DEF Lookup, Inv, TypeOK, Pcs
<1>3. ASSUME NEW h \in Handlers, Insert(h) PROVE Inv'
  <2>1. msg[h] \in Messages /\ user[h] \in Users
    BY <1>3 DEF Insert, Inv, RequestKnown
  <2>2. PICK place \in {"inserting", "conflict"} :
          /\ Goto(h, place)
          /\ place = "inserting" <=> Stored(user[h], msg[h].key) = {}
    BY <1>3 DEF Insert
  <2>3. TypeOK'
    BY <1>3, <2>2 DEF Insert, Goto, Inv, TypeOK, Pcs
  <2> QED
    BY <1>3, <2>1, <2>2, <2>3, GoesOn DEF Insert, Pcs
<1>4. ASSUME NEW h \in Handlers, ReadExisting(h) PROVE Inv'
  <2>1. Stored(user[h], msg[h].key) # {}
    BY <1>4 DEF ReadExisting, Inv, ReplayFindsEvent
  <2>2. PICK i \in Stored(user[h], msg[h].key) : ev' = [ev EXCEPT ![h] = i]
    BY <1>4, <2>1 DEF ReadExisting
  <2>3. i \in Ids /\ row[i] # None /\ row[i].key = msg[h].key
    BY DEF Stored
  <2>4. Goto(h, "found") /\ UNCHANGED <<row, refUser, msg, user, answers, dups, faults, remaps>>
    BY <1>4, <2>1 DEF ReadExisting
  <2>5. msg[h] \in Messages /\ user[h] \in Users
    BY <1>4 DEF ReadExisting, Inv, RequestKnown
  <2>6. TypeOK'
    BY <2>2, <2>3, <2>4 DEF Goto, Inv, TypeOK, Pcs
  <2>7. ev'[h] = i /\ \A g \in Handlers \ {h} : ev'[g] = ev[g]
    BY <2>2, <2>3 DEF Inv, TypeOK
  <2> QED
    BY <2>3, <2>4, <2>5, <2>6, <2>7, GoesOn DEF Pcs
<1>5. ASSUME NEW h \in Handlers, NEW s \in {404, 500}, Answer(h, s), pc[h] \in Pcs \ {"idle", "found"},
             ev[h] \in Ids \cup {None}, UNCHANGED <<row, refUser, dups, remaps>>, faults' \in 0..MaxFaults
      PROVE  Inv'
  <2> DEFINE a == [msg |-> msg[h], status |-> s, ev |-> ev[h]]
  <2>1. a \in Answers /\ a.status \notin {200, 202} /\ answers' = answers \cup {a}
    BY <1>5 DEF Answer, Answers, Inv, RequestKnown
  <2>2. \A g \in Handlers : pc'[g] = "created" => pc[g] = "created" /\ ev'[g] = ev[g]
    BY <1>5 DEF Answer, Done, Goto, Inv, TypeOK
  <2>3. answers' \in SUBSET Answers /\ AnswersHonest' /\ AcceptedOnce'
    BY <1>5, <2>1, <2>2, RefusalInv
  <2> QED
    BY <1>5, <2>3, DoneInv DEF Answer, Inv, TypeOK
<1>6. ASSUME NEW h \in Handlers, UnknownRef(h) \/ CallFails(h) PROVE Inv'
  <2>1. faults' \in 0..MaxFaults /\ UNCHANGED <<row, refUser, dups, remaps>>
    BY <1>6 DEF UnknownRef, CallFails, Fault, Inv, TypeOK
  <2>2. (Answer(h, 404) \/ Answer(h, 500)) /\ pc[h] \in Pcs \ {"idle", "found"}
    BY <1>6 DEF UnknownRef, CallFails, Pcs
  <2>3. ev[h] \in Ids \cup {None}
    BY DEF Inv, TypeOK
  <2> QED
    BY <1>5, <2>1, <2>2, <2>3
<1>7. ASSUME NEW h \in Handlers, Die(h) PROVE Inv'
  <2>1. Done(h) /\ UNCHANGED <<row, refUser, answers, dups, remaps>> /\ faults' \in 0..MaxFaults
    BY <1>7 DEF Die, Fault, Inv, TypeOK
  <2>2. \A g \in Handlers : pc'[g] = "created" => pc[g] = "created" /\ ev'[g] = ev[g]
    BY <2>1 DEF Done, Goto, Inv, TypeOK
  <2>3. AnswersHonest' /\ AcceptedOnce'
    BY <2>1, <2>2 DEF AnswersHonest, AcceptedOnce, Inv
  <2> QED
    BY <2>1, <2>3, DoneInv DEF Inv, TypeOK
<1>8. ASSUME NEW r \in Refs, NEW u \in Users, SetUserRef(r, u) PROVE Inv'
  BY <1>8 DEF SetUserRef, handlers, Inv, TypeOK, RequestKnown, InsertsExclusive, InsertsFresh,
              ReadyAnswers, OneEventPerKey, AnswersHonest, AcceptedOnce, ReplayFindsEvent, Stored
<1>9. CASE UNCHANGED vars
  BY <1>9 DEF vars, handlers, Inv, TypeOK, RequestKnown, InsertsExclusive, InsertsFresh,
              ReadyAnswers, OneEventPerKey, AnswersHonest, AcceptedOnce, ReplayFindsEvent, Stored
<1> QED
  BY <1>1, <1>2, <1>3, <1>4, <1>6, <1>7, <1>8, <1>9, CommitInv, RespondInv DEF Next, HandlerStep

LEMMA InvAlways == Spec => []Inv
BY InitInv, NextInv, PTL DEF Spec

\* However many deliveries of a key overlap, on whichever processes, a user
\* has at most one event under the key.
THEOREM IngestIdempotent == Spec => []OneEventPerKey
BY InvAlways, PTL DEF Inv

\* What the provider is told is true, whatever fails before or after.
THEOREM IngestHonest == Spec => []AnswersHonest
BY InvAlways, PTL DEF Inv

\* One delivery of an event is told that it is the first, and no other.
THEOREM IngestAcceptsOnce == Spec => []AcceptedOnce
BY InvAlways, PTL DEF Inv

\* CreatePending never loses the insert and then finds nothing to return.
THEOREM ReplaysSucceed == Spec => []ReplayFindsEvent
BY InvAlways, PTL DEF Inv

\* A redelivery, with the same or another body, leaves the stored event as it is.
THEOREM StoredEventsFinal == Spec => EventsImmutable
<1>1. Inv /\ [Next]_vars => [\A i \in Ids : row[i] # None => row'[i] = row[i]]_vars
  <2> SUFFICES ASSUME Inv, [Next]_vars, NEW i \in Ids, row[i] # None PROVE row'[i] = row[i]
    OBVIOUS
  <2>1. ASSUME NEW h \in Handlers, Commit(h) PROVE row'[i] = row[i]
    BY <2>1 DEF Commit, Inv, TypeOK
  <2>2. CASE UNCHANGED row
    BY <2>2
  <2> QED
    BY <2>1, <2>2 DEF Next, HandlerStep, Deliver, Lookup, UnknownRef, Insert, ReadExisting,
                      Respond, CallFails, Die, SetUserRef, vars
<1> QED
  BY <1>1, InvAlways, PTL DEF Spec, EventsImmutable

===============================================================================
