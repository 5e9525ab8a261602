-------------------------- MODULE RefreshTokensProofs -------------------------
(***************************************************************************)
(* Theorems about RefreshTokens, for every number of requests, accounts    *)
(* and tokens.                                                             *)
(***************************************************************************)
EXTENDS RefreshTokens, TLAPS

\* What a request knows at each place of Register, Login and Refresh.
RequestKnown ==
    \A h \in Handlers :
        /\ pc[h] = "idle" => old[h] = None
        /\ pc[h] \in {"select", "locked", "stale", "consumed"} => old[h] \in Tokens
        /\ pc[h] \notin {"idle", "select"} => who[h] \in accounts
        /\ pc[h] \notin {"idle", "select"} /\ old[h] # None => who[h] = owner[old[h]]
        /\ old[h] # None => row[old[h]] # "new"
        /\ fresh[h] # None => row[fresh[h]] # "new" /\ parent[fresh[h]] = old[h]
        /\ pc[h] = "issued" <=> fresh[h] # None
\* A row that is locked is there, and one request has it.
LocksExclusive ==
    \A h \in Handlers : pc[h] \in {"locked", "stale"} =>
        /\ row[old[h]] = "live"
        /\ pc[h] = "stale" => old[h] \in expired
        /\ \A g \in Handlers \ {h} : pc[g] \in {"locked", "stale"} => old[g] # old[h]
\* Tokens descend from tokens that have been saved before them.
LineageOK ==
    \A t \in Tokens :
        /\ row[t] = "new" => parent[t] = None /\ session[t] = None
        /\ row[t] # "new" => session[t] \in Tokens /\ row[session[t]] # "new"
        /\ parent[t] # None => row[parent[t]] # "new"
AnswersKnown ==
    \A a \in answers :
        /\ a.fresh # None => row[a.fresh] # "new"
        /\ a.status = 401 => a.old \in Tokens

Aux == RequestKnown /\ LocksExclusive /\ LineageOK /\ AnswersKnown
Inv == TypeOK /\ Aux /\ ExchangedOnce /\ OneLivePerSession /\ OwnerInherited /\ AnswersHonest

LEMMA Types == None \notin Emails /\ None \notin Tokens /\ MaxFaults \in Nat
BY NoneAssumption, FaultsAssumption

LEMMA InitInv == Init => Inv
<1> SUFFICES ASSUME Init PROVE Inv
  OBVIOUS
<1> USE Types DEF Init
<1>1. TypeOK
  BY DEF TypeOK, Pcs
<1>2. Aux
  BY DEF Aux, RequestKnown, LocksExclusive, LineageOK, AnswersKnown
<1>3. ExchangedOnce /\ OneLivePerSession
  BY DEF ExchangedOnce, OneLivePerSession, AtMostOne, Exchanging, Successors, Live, Renewing
<1>4. OwnerInherited /\ AnswersHonest
  BY DEF OwnerInherited, AnswersHonest
<1> QED
  BY <1>1, <1>2, <1>3, <1>4 DEF Inv

\* A request that is neither in the middle of an exchange before the step nor
\* after it, or is in the middle of the same one, changes no lineage.
LEMMA ExchangesKept ==
    ASSUME Inv, row' \in [Tokens -> {"new", "live", "gone"}], UNCHANGED <<session, parent>>,
           \A t \in Tokens : row'[t] = row[t] \/ row'[t] = "gone",
           \A h \in Handlers, t \in Tokens : h \in Exchanging(t)' => h \in Exchanging(t)
    PROVE  ExchangedOnce' /\ OneLivePerSession'
<1>1. ExchangedOnce'
  BY DEF Inv, TypeOK, ExchangedOnce, AtMostOne, Exchanging, Successors
<1>2. \A s \in Tokens : Live(s)' \subseteq Live(s) /\ Renewing(s)' \subseteq Renewing(s)
  BY DEF Live, Renewing, Exchanging
<1>3. OneLivePerSession'
  BY <1>2 DEF Inv, OneLivePerSession, AtMostOne
<1> QED
  BY <1>1, <1>3

\* The request h is over and at most its own token is gone; what it has
\* answered, if anything, is true.
LEMMA DoneInv ==
    ASSUME Inv, NEW h \in Handlers, Done(h),
           UNCHANGED <<expired, owner, session, parent>>,
           accounts' \in SUBSET Emails, accounts \subseteq accounts', faults' \in 0..MaxFaults,
           row' = row \/ (pc[h] \in {"locked", "stale"} /\ row' = [row EXCEPT ![old[h]] = "gone"]),
           answers' \in SUBSET Answers, AnswersHonest', AnswersKnown'
    PROVE  Inv'
<1> USE Types DEF Inv, Aux, TypeOK, Done, Goto
<1>1. /\ pc'[h] = "idle" /\ who'[h] = None /\ old'[h] = None /\ fresh'[h] = None
      /\ \A g \in Handlers \ {h} :
           pc'[g] = pc[g] /\ who'[g] = who[g] /\ old'[g] = old[g] /\ fresh'[g] = fresh[g]
  OBVIOUS
<1>2. pc[h] \in {"locked", "stale"} => old[h] \in Tokens /\ row[old[h]] = "live"
  BY DEF RequestKnown, LocksExclusive
<1>3. /\ row' \in [Tokens -> {"new", "live", "gone"}]
      /\ \A t \in Tokens : /\ row'[t] = row[t] \/ row'[t] = "gone"
                           /\ row'[t] = "new" <=> row[t] = "new"
  BY <1>2
<1>4. TypeOK'
  BY <1>3 DEF Pcs
<1>5. RequestKnown' /\ LineageOK'
  BY <1>1, <1>3 DEF RequestKnown, LineageOK
<1>6. LocksExclusive'
  BY <1>1, <1>2 DEF LocksExclusive, RequestKnown
<1>7. ExchangedOnce' /\ OneLivePerSession'
  <2>1. \A g \in Handlers, t \in Tokens : g \in Exchanging(t)' => g \in Exchanging(t)
    BY <1>1 DEF Exchanging
  <2> QED
    BY <1>3, <2>1, ExchangesKept
<1>8. OwnerInherited'
  BY DEF OwnerInherited
<1> QED
  BY <1>4, <1>5, <1>6, <1>7, <1>8

\* The request h goes on and no row changes.
LEMMA GoesOn ==
    ASSUME Inv, NEW h \in Handlers, NEW place \in Pcs, Goto(h, place),
           UNCHANGED <<rows, answers, faults, fresh>>, place # "issued",
           accounts' \in SUBSET Emails, accounts \subseteq accounts',
           who' \in [Handlers -> Emails \cup {None}], old' \in [Handlers -> Tokens \cup {None}],
           \A g \in Handlers \ {h} : who'[g] = who[g] /\ old'[g] = old[g],
           place = "idle" => old'[h] = None,
           place \in {"select", "locked", "stale", "consumed"} => old'[h] \in Tokens,
           place \notin {"idle", "select"} => who'[h] \in accounts',
           place \notin {"idle", "select"} /\ old'[h] # None => who'[h] = owner[old'[h]],
           old'[h] # None => row[old'[h]] # "new",
           pc[h] # "issued",
           place \in {"locked", "stale"} =>
             /\ row[old'[h]] = "live"
             /\ place = "stale" => old'[h] \in expired
             /\ \A g \in Handlers \ {h} : pc[g] \in {"locked", "stale"} => old[g] # old'[h],
           place \in {"consumed", "issue"} /\ old'[h] # None =>
             pc[h] = "consumed" /\ old'[h] = old[h]
    PROVE  Inv'
<1> USE Types DEF Inv, Aux, TypeOK, Goto, rows
<1>1. pc'[h] = place /\ \A g \in Handlers \ {h} : pc'[g] = pc[g]
  OBVIOUS
<1>2. TypeOK'
  OBVIOUS
<1>3. RequestKnown'
  BY <1>1 DEF RequestKnown
<1>4. LocksExclusive'
  BY <1>1 DEF LocksExclusive
<1>5. LineageOK' /\ AnswersKnown' /\ OwnerInherited' /\ AnswersHonest'
  BY DEF LineageOK, AnswersKnown, OwnerInherited, AnswersHonest
<1>6. ExchangedOnce' /\ OneLivePerSession'
  <2>1. \A g \in Handlers, t \in Tokens : g \in Exchanging(t)' => g \in Exchanging(t)
    BY <1>1 DEF Exchanging
  <2> QED
    BY <2>1, ExchangesKept
<1> QED
  BY <1>2, <1>3, <1>4, <1>5, <1>6

\* IssuePair and IssueFails: the new token t takes the place of the exchange h.
LEMMA SaveInv ==
    ASSUME Inv, NEW h \in Handlers, pc[h] = "issue", NEW t \in Tokens, Save(h, t),
           UNCHANGED <<accounts, expired, answers>>, faults' \in 0..MaxFaults,
           \A g \in Handlers \ {h} :
             pc'[g] = pc[g] /\ who'[g] = who[g] /\ old'[g] = old[g] /\ fresh'[g] = fresh[g],
           \/ Goto(h, "issued") /\ fresh' = [fresh EXCEPT ![h] = t] /\ UNCHANGED <<who, old>>
           \/ Done(h)
    PROVE  Inv'
<1> USE Types DEF Inv, Aux, TypeOK, Goto, Save
<1>1. /\ row[t] = "new" /\ row'[t] = "live"
      /\ owner'[t] = who[h] /\ parent'[t] = old[h]
      /\ session'[t] = IF old[h] = None THEN t ELSE session[old[h]]
      /\ \A u \in Tokens \ {t} : /\ row'[u] = row[u] /\ owner'[u] = owner[u]
                                 /\ parent'[u] = parent[u] /\ session'[u] = session[u]
  OBVIOUS
<1>2. /\ who[h] \in accounts
      /\ old[h] # None => /\ who[h] = owner[old[h]]
                          /\ old[h] \in Tokens /\ row[old[h]] = "gone" /\ old[h] # t
                          /\ session[old[h]] \in Tokens /\ row[session[old[h]]] # "new"
  <2>1. who[h] \in accounts /\ (old[h] # None => who[h] = owner[old[h]])
    BY DEF RequestKnown
  <2>2. ASSUME old[h] # None
        PROVE  row[old[h]] = "gone"
    BY <2>2 DEF ExchangedOnce, Exchanging
  <2> QED
    BY <1>1, <2>1, <2>2 DEF LineageOK
<1>3. \/ pc'[h] = "issued" /\ fresh'[h] = t /\ old'[h] = old[h] /\ who'[h] = who[h]
      \/ pc'[h] = "idle" /\ old'[h] = None /\ fresh'[h] = None /\ who'[h] = None
  BY DEF Done
<1>4. TypeOK'
  BY <1>1, <1>2 DEF Pcs, Done
<1>5. RequestKnown'
  BY <1>1, <1>2, <1>3 DEF RequestKnown
<1>6. LocksExclusive'
  BY <1>1, <1>3 DEF LocksExclusive, RequestKnown
<1>7. LineageOK' /\ AnswersKnown'
  BY <1>1, <1>2 DEF LineageOK, AnswersKnown, Answers
<1>8. ExchangedOnce'
  <2> SUFFICES ASSUME NEW u \in Tokens
               PROVE  (/\ AtMostOne(Exchanging(u), Successors(u))
                       /\ Exchanging(u) \cup Successors(u) # {} => row[u] = "gone")'
    BY DEF ExchangedOnce
  <2>1. CASE u = old[h]
    <3>1. h \in Exchanging(u)
      BY <2>1 DEF Exchanging
    <3>2. Exchanging(u) = {h} /\ Successors(u) = {} /\ row[u] = "gone"
      BY <3>1 DEF ExchangedOnce, AtMostOne
    <3>3. Exchanging(u)' = {} /\ Successors(u)' = {t} /\ row'[u] = "gone"
      BY <1>1, <1>3, <3>2 DEF Exchanging, Successors
    <3> QED
      BY <3>3 DEF AtMostOne
  <2>2. CASE u # old[h]
    <3>1. Exchanging(u)' = Exchanging(u) /\ Successors(u)' = Successors(u)
      BY <1>1, <1>3, <2>2 DEF Exchanging, Successors, LineageOK
    <3>2. row[u] = "gone" => row'[u] = "gone"
      BY <1>1
    <3> QED
      BY <3>1, <3>2 DEF ExchangedOnce, AtMostOne
  <2> QED
    BY <2>1, <2>2
<1>9. OneLivePerSession'
  <2> SUFFICES ASSUME NEW s \in Tokens
               PROVE  AtMostOne(Live(s), Renewing(s))'
    BY DEF OneLivePerSession
  <2>1. AtMostOne(Live(s), Renewing(s))
    BY DEF OneLivePerSession
  <2>2. Renewing(s)' = Renewing(s) \ {h}
    BY <1>1, <1>3 DEF Renewing, Exchanging, RequestKnown
  <2>3. CASE old[h] # None /\ session[old[h]] = s
    <3>1. h \in Renewing(s)
      BY <1>2, <2>3 DEF Renewing, Exchanging
    <3>2. Live(s) = {} /\ Renewing(s) = {h}
      BY <2>1, <3>1 DEF AtMostOne
    <3>3. Live(s)' = {t} /\ Renewing(s)' = {}
      BY <1>1, <2>2, <2>3, <3>2 DEF Live
    <3> QED
      BY <3>3 DEF AtMostOne
  <2>4. CASE old[h] = None /\ s = t
    <3>1. Live(s) = {} /\ Renewing(s) = {}
      BY <1>1, <2>4 DEF Live, Renewing, Exchanging, LineageOK, ExchangedOnce
    <3>2. Live(s)' = {t} /\ Renewing(s)' = {}
      BY <1>1, <2>2, <2>4, <3>1 DEF Live
    <3> QED
      BY <3>2 DEF AtMostOne
  <2>5. CASE ~(old[h] # None /\ session[old[h]] = s) /\ ~(old[h] = None /\ s = t)
    <3>1. Live(s)' = Live(s)
      BY <1>1, <2>5 DEF Live, LineageOK
    <3> QED
      BY <2>1, <2>2, <3>1 DEF AtMostOne
  <2> QED
    BY <2>3, <2>4, <2>5
<1>10. OwnerInherited'
  BY <1>1, <1>2 DEF OwnerInherited, LineageOK
<1>11. AnswersHonest'
  BY <1>1 DEF AnswersHonest, AnswersKnown, Answers
<1> QED
  BY <1>4, <1>5, <1>6, <1>7, <1>8, <1>9, <1>10, <1>11

\* Consume ends the life of the token that the request has locked.
LEMMA ConsumeInv ==
    ASSUME Inv, NEW h \in Handlers, Consume(h)
    PROVE  Inv'
<1> USE Types DEF Inv, Aux, TypeOK, Goto, Consume
<1>1. old[h] \in Tokens /\ row[old[h]] = "live" /\ who[h] = owner[old[h]]
  BY DEF RequestKnown, LocksExclusive
<1>2. /\ pc'[h] = "consumed" /\ (\A g \in Handlers \ {h} : pc'[g] = pc[g])
      /\ row'[old[h]] = "gone" /\ (\A t \in Tokens \ {old[h]} : row'[t] = row[t])
  BY <1>1
<1>3. TypeOK'
  BY <1>1 DEF Pcs
<1>4. RequestKnown' /\ LineageOK' /\ AnswersKnown'
  BY <1>1, <1>2 DEF RequestKnown, LineageOK, AnswersKnown
<1>5. LocksExclusive'
  BY <1>2 DEF LocksExclusive, RequestKnown
<1>6. Exchanging(old[h]) = {} /\ Successors(old[h]) = {}
  BY <1>1 DEF ExchangedOnce
<1>7. ExchangedOnce'
  <2> SUFFICES ASSUME NEW u \in Tokens
               PROVE  (/\ AtMostOne(Exchanging(u), Successors(u))
                       /\ Exchanging(u) \cup Successors(u) # {} => row[u] = "gone")'
    BY DEF ExchangedOnce
  <2>1. Successors(u)' = Successors(u)
    BY DEF Successors
  <2>2. Exchanging(u)' = IF u = old[h] THEN {h} ELSE Exchanging(u)
    BY <1>2, <1>6 DEF Exchanging
  <2> QED
    BY <1>1, <1>2, <1>6, <2>1, <2>2 DEF ExchangedOnce, AtMostOne
<1>8. OneLivePerSession'
  <2> SUFFICES ASSUME NEW s \in Tokens
               PROVE  AtMostOne(Live(s), Renewing(s))'
    BY DEF OneLivePerSession
  <2>1. AtMostOne(Live(s), Renewing(s))
    BY DEF OneLivePerSession
  <2>2. CASE session[old[h]] = s
    <3>1. Live(s) = {old[h]} /\ Renewing(s) = {}
      BY <1>1, <2>1, <2>2 DEF Live, AtMostOne
    <3>2. Live(s)' = {}
      BY <1>2, <3>1 DEF Live
    <3>3. Renewing(s)' \subseteq {h}
      BY <1>2, <3>1 DEF Renewing, Exchanging
    <3> QED
      BY <3>2, <3>3 DEF AtMostOne
  <2>3. CASE session[old[h]] # s
    <3>1. Live(s)' = Live(s)
      BY <1>2, <2>3 DEF Live
    <3>2. Renewing(s)' = Renewing(s)
      BY <1>2, <2>3 DEF Renewing, Exchanging
    <3> QED
      BY <2>1, <3>1, <3>2 DEF AtMostOne
  <2> QED
    BY <2>2, <2>3
<1>9. OwnerInherited' /\ AnswersHonest'
  BY <1>1, <1>2 DEF OwnerInherited, AnswersHonest, AnswersKnown
<1> QED
  BY <1>3, <1>4, <1>5, <1>7, <1>8, <1>9

\* A true answer.
LEMMA AnswerInv ==
    ASSUME Inv, NEW h \in Handlers, NEW status \in {200, 401}, Answer(h, status),
           UNCHANGED <<accounts, expired, owner, session, parent>>, faults' \in 0..MaxFaults,
           row' = row \/ (pc[h] \in {"locked", "stale"} /\ row' = [row EXCEPT ![old[h]] = "gone"]),
           status = 200 => pc[h] = "issued",
           status = 401 => old[h] \in Tokens /\ (row[old[h]] = "gone" \/ old[h] \in expired)
    PROVE  Inv'
<1> USE Types DEF Inv, Aux, TypeOK, Answer
<1>1. [status |-> status, old |-> old[h], fresh |-> fresh[h]] \in Answers
  BY DEF Answers
<1>2. /\ fresh[h] # None => row[fresh[h]] # "new" /\ parent[fresh[h]] = old[h]
      /\ status = 200 => fresh[h] # None
      /\ pc[h] \in {"locked", "stale"} => old[h] \in Tokens /\ row[old[h]] = "live"
  BY DEF RequestKnown, LocksExclusive
<1>3. \A t \in Tokens : /\ row'[t] = "new" <=> row[t] = "new"
                        /\ row[t] = "gone" => row'[t] = "gone"
  BY <1>2
<1>4. AnswersKnown'
  BY <1>1, <1>2, <1>3 DEF AnswersKnown, Answers
<1>5. AnswersHonest'
  BY <1>1, <1>2, <1>3 DEF AnswersHonest, AnswersKnown, Answers
<1> QED
  BY <1>1, <1>4, <1>5, DoneInv

LEMMA NextInv == Inv /\ [Next]_vars => Inv'
<1> SUFFICES ASSUME Inv, [Next]_vars PROVE Inv'
  OBVIOUS
<1> USE Types
<1>t. TypeOK /\ Aux
  BY DEF Inv
<1>f. Fault => faults' \in 0..MaxFaults
  BY <1>t DEF Fault, TypeOK
<1>a. UNCHANGED answers => (answers' \in SUBSET Answers /\
        (UNCHANGED <<row, parent, expired>> => AnswersHonest' /\ AnswersKnown'))
  BY DEF Inv, Aux, TypeOK, AnswersHonest, AnswersKnown
<1>1. ASSUME NEW h \in Handlers, HandlerStep(h)
      PROVE  Inv'
  <2> USE <1>t, <1>f DEF rows, TypeOK, Aux
  <2>1. CASE Select(h)
    <3>1. old[h] \in Tokens /\ row[old[h]] = "live" /\ fresh[h] = None
      BY <2>1 DEF Select, RequestKnown
    <3>2. who'[h] = owner[old[h]] /\ who'[h] \in accounts
      BY <2>1, <3>1 DEF Select
    <3>3. CASE old[h] \in expired
      BY <2>1, <3>1, <3>2, <3>3, GoesOn DEF Select, Pcs
    <3>4. CASE old[h] \notin expired
      BY <2>1, <3>1, <3>2, <3>4, GoesOn DEF Select, Pcs
    <3> QED
      BY <3>3, <3>4
  <2>2. CASE SelectFails(h)
    BY <1>a, <2>2, DoneInv DEF SelectFails
  <2>3. CASE Unknown(h)
    BY <2>3, AnswerInv DEF Unknown, RequestKnown
  <2>4. CASE Sweep(h)
    BY <2>4, AnswerInv DEF Sweep, RequestKnown, LocksExclusive
  <2>5. CASE Consume(h)
    BY <2>5, ConsumeInv
  <2>6. CASE ConsumeFails(h)
    <3>1. AnswersHonest' /\ AnswersKnown'
      <4>1. \A t \in Tokens : /\ row'[t] = "new" <=> row[t] = "new"
                              /\ row[t] = "gone" => row'[t] = "gone"
        BY <2>6 DEF ConsumeFails, RequestKnown, LocksExclusive
      <4> QED
        BY <2>6, <4>1 DEF Inv, ConsumeFails, AnswersHonest, AnswersKnown, Answers
    <3> QED
      BY <1>a, <2>6, <3>1, DoneInv DEF ConsumeFails
  <2>7. CASE LoadUser(h)
    BY <2>7, GoesOn DEF LoadUser, RequestKnown, Pcs
  <2>8. CASE LoadUserFails(h)
    <3>1. old[h] \in Tokens /\ row[old[h]] = "gone"
      BY <2>8 DEF Inv, LoadUserFails, RequestKnown, ExchangedOnce, Exchanging
    <3> QED
      BY <2>8, <3>1, AnswerInv DEF LoadUserFails
  <2>9. CASE IssuePair(h)
    BY <2>9, SaveInv DEF IssuePair, Goto
  <2>10. CASE IssueFails(h)
    <3>1. CASE UNCHANGED rows
      BY <1>a, <2>10, <3>1, DoneInv DEF IssueFails
    <3>2. CASE (\E t \in Tokens : Save(h, t)) /\ UNCHANGED expired
      BY <2>10, <3>2, SaveInv DEF IssueFails, Done, Goto
    <3> QED
      BY <2>10, <3>1, <3>2 DEF IssueFails
  <2>11. CASE Respond(h)
    BY <2>11, AnswerInv DEF Respond
  <2>12. CASE Die(h)
    BY <1>a, <2>12, DoneInv DEF Die
  <2> QED
    BY <1>1, <2>1, <2>2, <2>3, <2>4, <2>5, <2>6, <2>7, <2>8, <2>9, <2>10, <2>11, <2>12
    DEF HandlerStep
<1>2. ASSUME NEW h \in Handlers, NEW e \in Emails,
             Register(h, e) \/ RegisterFails(h, e) \/ Login(h, e)
      PROVE  Inv'
  <2> USE <1>t, <1>f DEF rows, TypeOK, Aux
  <2>0. pc[h] = "idle" => old[h] = None
    BY DEF RequestKnown
  <2>1. CASE Register(h, e)
    BY <2>0, <2>1, GoesOn DEF Register, Pcs
  <2>2. CASE RegisterFails(h, e)
    <3>1. TypeOK' /\ RequestKnown'
      BY <2>2 DEF RegisterFails, handlers, RequestKnown
    <3>2. LocksExclusive' /\ LineageOK' /\ AnswersKnown' /\ OwnerInherited' /\ AnswersHonest'
      BY <2>2 DEF Inv, RegisterFails, handlers, LocksExclusive, LineageOK, AnswersKnown,
                  OwnerInherited, AnswersHonest
    <3>3. ExchangedOnce' /\ OneLivePerSession'
      BY <2>2, ExchangesKept DEF RegisterFails, handlers, Exchanging
    <3> QED
      BY <3>1, <3>2, <3>3 DEF Inv
  <2>3. CASE Login(h, e)
    BY <2>0, <2>3, GoesOn DEF Login, Pcs
  <2> QED
    BY <1>2, <2>1, <2>2, <2>3
<1>3. ASSUME NEW h \in Handlers, NEW t \in Tokens, Refresh(h, t)
      PROVE  Inv'
  <2>1. row[t] # "new"
    BY <1>t, <1>3 DEF Refresh, Aux, AnswersKnown
  <2> QED
    BY <1>t, <1>3, <2>1, GoesOn DEF Refresh, rows, TypeOK, Pcs
<1>4. ASSUME NEW t \in Tokens, Expire(t)
      PROVE  Inv'
  <2> USE <1>4 DEF Expire, handlers
  <2>1. TypeOK' /\ Aux' /\ OwnerInherited' /\ AnswersHonest'
    BY DEF Inv, TypeOK, Aux, RequestKnown, LocksExclusive, LineageOK, AnswersKnown,
           OwnerInherited, AnswersHonest
  <2>2. ExchangedOnce' /\ OneLivePerSession'
    BY <1>t, ExchangesKept DEF TypeOK, Exchanging
  <2> QED
    BY <2>1, <2>2 DEF Inv
<1>5. CASE UNCHANGED vars
  BY <1>5 DEF vars, rows, handlers, Inv, TypeOK, Aux, RequestKnown, LocksExclusive, LineageOK,
       AnswersKnown, OwnerInherited, AnswersHonest, ExchangedOnce, OneLivePerSession,
       AtMostOne, Exchanging, Successors, Live, Renewing
<1> QED
  BY <1>1, <1>2, <1>3, <1>4, <1>5 DEF Next

LEMMA Invariant == Spec => []Inv
BY InitInv, NextInv, PTL DEF Spec

\* However many requests present a refresh token at once, one of them at most
\* exchanges it: SELECT FOR UPDATE and DELETE in ConsumeRefreshToken.
THEOREM TokensExchangedOnce == Spec => []ExchangedOnce
<1>1. Inv => ExchangedOnce
  BY DEF Inv
<1> QED
  BY <1>1, Invariant, PTL

\* Rotation leaves one usable refresh token per login at most, also when
\* statements fail after they have taken effect and when processes die.
THEOREM OneTokenPerSession == Spec => []OneLivePerSession
<1>1. Inv => OneLivePerSession
  BY DEF Inv
<1> QED
  BY <1>1, Invariant, PTL

\* No exchange ever hands a session to another user.
THEOREM SessionsKeepOwner == Spec => []OwnerInherited
<1>1. Inv => OwnerInherited
  BY DEF Inv
<1> QED
  BY <1>1, Invariant, PTL

\* A token that Refresh answers with is in the table, and one that it answers
\* 401 to can never be used again, by this client or another.
THEOREM RefreshAnswersHonest == Spec => []AnswersHonest
<1>1. Inv => AnswersHonest
  BY DEF Inv
<1> QED
  BY <1>1, Invariant, PTL
(***************************************************************************)
(* Sessions survive                                                        *)
(***************************************************************************)

\* A step at which no exchange is given up, and no token goes but an expired one
\* and one that is exchanged.
LEMMA SurvivesFrame ==
    ASSUME SessionsSurvive, faults' = 0 => faults = 0, expired \subseteq expired',
           \A t \in Tokens :
             /\ row'[t] = "gone" => row[t] = "gone" \/ t \in expired' \/ Exchanging(t)' # {}
             /\ Exchanging(t) # {} => Exchanging(t)' # {} \/ Successors(t)' # {}
             /\ Successors(t) # {} => Successors(t)' # {}
    PROVE  SessionsSurvive'
BY DEF SessionsSurvive

\* The request h is not in the middle of an exchange, and no lineage changes.
LEMMA SurvivesOutside ==
    ASSUME Inv, SessionsSurvive, NEW h \in Handlers, pc[h] \notin {"consumed", "issue"},
           faults' = 0 => faults = 0, UNCHANGED <<expired, parent>>,
           \A g \in Handlers \ {h} : pc'[g] = pc[g] /\ old'[g] = old[g],
           \A t \in Tokens : row'[t] = "gone" => row[t] = "gone" \/ t \in expired
    PROVE  SessionsSurvive'
<1>1. \A t \in Tokens : Exchanging(t) \subseteq Exchanging(t)' /\ Successors(t)' = Successors(t)
  BY DEF Exchanging, Successors
<1> QED
  BY <1>1, SurvivesFrame

LEMMA SurvivesNext ==
    ASSUME Inv, SessionsSurvive, [Next]_vars
    PROVE  SessionsSurvive'
<1> USE Types DEF Inv, TypeOK, Goto, Done, Answer, rows, handlers
<1>1. ASSUME NEW h \in Handlers, Fault PROVE SessionsSurvive'
  BY <1>1 DEF Fault, SessionsSurvive
<1>2. ASSUME NEW h \in Handlers, Select(h) \/ Unknown(h) \/ Respond(h) PROVE SessionsSurvive'
  <2>1. /\ pc[h] \in {"select", "issued"} /\ UNCHANGED <<row, expired, parent, faults>>
        /\ \A g \in Handlers \ {h} : pc'[g] = pc[g] /\ old'[g] = old[g]
    BY <1>2 DEF Select, Unknown, Respond
  <2> QED
    BY <2>1, SurvivesOutside
<1>3. ASSUME NEW h \in Handlers, Sweep(h) PROVE SessionsSurvive'
  <2>1. /\ pc[h] = "stale" /\ old[h] \in expired
        /\ UNCHANGED <<expired, parent>>
        /\ \A g \in Handlers \ {h} : pc'[g] = pc[g] /\ old'[g] = old[g]
    BY <1>3 DEF Sweep, Aux, LocksExclusive
  <2>2. CASE row' = [row EXCEPT ![old[h]] = "gone"] /\ UNCHANGED faults
    BY <2>1, <2>2, SurvivesOutside
  <2> QED
    BY <1>1, <1>3, <2>2 DEF Sweep
<1>4. ASSUME NEW h \in Handlers, Consume(h) PROVE SessionsSurvive'
  <2>1. old[h] \in Tokens /\ UNCHANGED <<expired, parent, old, faults>> /\ pc[h] = "locked"
    BY <1>4 DEF Consume, Aux, RequestKnown
  <2>2. /\ pc'[h] = "consumed" /\ \A g \in Handlers \ {h} : pc'[g] = pc[g]
        /\ \A t \in Tokens \ {old[h]} : row'[t] = row[t]
    BY <1>4, <2>1 DEF Consume
  <2>3. h \in Exchanging(old[h])'
    BY <2>1, <2>2 DEF Exchanging
  <2>4. \A t \in Tokens : Exchanging(t) \subseteq Exchanging(t)' /\ Successors(t)' = Successors(t)
    BY <2>1, <2>2 DEF Exchanging, Successors
  <2> QED
    BY <2>1, <2>2, <2>3, <2>4, SurvivesFrame
<1>5. ASSUME NEW h \in Handlers, LoadUser(h) PROVE SessionsSurvive'
  <2>1. \A t \in Tokens : Exchanging(t)' = Exchanging(t) /\ Successors(t)' = Successors(t)
    BY <1>5 DEF LoadUser, Exchanging, Successors
  <2> QED
    BY <1>5, <2>1, SurvivesFrame DEF LoadUser
<1>6. ASSUME NEW h \in Handlers, IssuePair(h) PROVE SessionsSurvive'
  <2>1. PICK t \in Tokens : Save(h, t)
    BY <1>6 DEF IssuePair
  <2>2. /\ row[t] = "new" /\ row'[t] = "live" /\ parent'[t] = old[h]
        /\ \A u \in Tokens \ {t} : row'[u] = row[u] /\ parent'[u] = parent[u]
    BY <2>1 DEF Save
  <2>3. UNCHANGED <<expired, old, faults>> /\ \A g \in Handlers \ {h} : pc'[g] = pc[g]
    BY <1>6 DEF IssuePair
  <2>4. parent[t] = None
    BY <2>2 DEF Aux, LineageOK
  <2>5. \A u \in Tokens : Successors(u) \subseteq Successors(u)'
    BY <2>2, <2>4 DEF Successors
  <2>6. ASSUME NEW u \in Tokens, Exchanging(u) # {}
        PROVE  Exchanging(u)' # {} \/ Successors(u)' # {}
    <3>1. CASE h \in Exchanging(u)
      BY <2>2, <3>1 DEF Exchanging, Successors
    <3>2. CASE h \notin Exchanging(u)
      BY <2>3, <2>6, <3>2 DEF Exchanging
    <3> QED
      BY <3>1, <3>2
  <2> QED
    BY <2>2, <2>3, <2>5, <2>6, SurvivesFrame
<1>7. ASSUME NEW h \in Handlers, NEW e \in Emails, Register(h, e) \/ Login(h, e)
      PROVE  SessionsSurvive'
  <2>1. /\ pc[h] = "idle" /\ UNCHANGED <<row, expired, parent, old, faults>>
        /\ \A g \in Handlers \ {h} : pc'[g] = pc[g]
    BY <1>7 DEF Register, Login
  <2> QED
    BY <2>1, SurvivesOutside
<1>8. ASSUME NEW h \in Handlers, NEW t \in Tokens, Refresh(h, t) PROVE SessionsSurvive'
  <2>1. /\ pc[h] = "idle" /\ UNCHANGED <<row, expired, parent, faults>>
        /\ \A g \in Handlers \ {h} : pc'[g] = pc[g] /\ old'[g] = old[g]
    BY <1>8 DEF Refresh
  <2> QED
    BY <2>1, SurvivesOutside
<1>9. ASSUME NEW t \in Tokens, Expire(t) PROVE SessionsSurvive'
  <2>1. \A u \in Tokens : Exchanging(u)' = Exchanging(u) /\ Successors(u)' = Successors(u)
    BY <1>9 DEF Expire, Exchanging, Successors
  <2> QED
    BY <1>9, <2>1, SurvivesFrame DEF Expire
<1>10. CASE UNCHANGED vars
  BY <1>10 DEF vars, SessionsSurvive, Exchanging, Successors
<1> HIDE DEF Inv, TypeOK, Goto, Done, Answer, rows, handlers
<1>11. ASSUME NEW h \in Handlers, HandlerStep(h) PROVE SessionsSurvive'
  BY <1>1, <1>2, <1>3, <1>4, <1>5, <1>6, <1>11
  DEF HandlerStep, SelectFails, ConsumeFails, LoadUserFails, IssueFails, Die
<1> QED
  BY <1>1, <1>7, <1>8, <1>9, <1>10, <1>11 DEF Next, RegisterFails

\* As long as no call fails, the app is left without a usable token of a session
\* only by its expiry, in whatever overlap it refreshes: what Refresh deletes it
\* replaces.
THEOREM RefreshEndsNoSession == Spec => []SessionsSurvive
<1>1. Init => SessionsSurvive
  BY DEF Init, SessionsSurvive
<1> QED
  BY <1>1, SurvivesNext, Invariant, PTL DEF Spec
===============================================================================
