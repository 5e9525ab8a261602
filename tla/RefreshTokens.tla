----------------------------- MODULE RefreshTokens ----------------------------
(***************************************************************************)
(* Register, login and refresh of the API (api/internal/auth): accounts,   *)
(* the table refresh_tokens, and concurrent requests over both.  Access    *)
(* tokens are signed, not stored, and do not appear.                       *)
(***************************************************************************)
EXTENDS Integers, FiniteSets

CONSTANTS
    Handlers,    \* requests served at a time
    Emails,
    Tokens,      \* the values of NewRefreshToken
    None,
    MaxFaults    \* failing calls, lost answers and dying handlers

ASSUME NoneAssumption == None \notin Emails \cup Tokens
ASSUME FaultsAssumption == MaxFaults \in Nat

VARIABLES
    accounts,    \* the e-mail addresses in users
    row,         \* of each token: new, live (a row of refresh_tokens), or gone
    expired,     \* the tokens whose expires_at is over
    owner,       \* users.id of the row, by e-mail address
    session,     \* the token of the register or login that a token descends from
    parent,      \* the token it was exchanged for
    pc, who, old, fresh,    \* of each handler: its place, its user, the token it
                            \* was sent, the token it has saved
    answers,     \* the 200 (201 included) and 401 that have reached the clients
    faults

rows == <<row, expired, owner, session, parent>>
handlers == <<pc, who, old, fresh>>
vars == <<accounts, rows, handlers, answers, faults>>

Pcs == {"idle", "select", "locked", "stale", "consumed", "issue", "issued"}
Answers == [status : {200, 401}, old : Tokens \cup {None}, fresh : Tokens \cup {None}]

\* The types, and the foreign key of refresh_tokens.user_id.
TypeOK ==
    /\ accounts \in SUBSET Emails
    /\ row \in [Tokens -> {"new", "live", "gone"}]
    /\ expired \in SUBSET Tokens
    /\ owner \in [Tokens -> Emails \cup {None}]
    /\ session \in [Tokens -> Tokens \cup {None}]
    /\ parent \in [Tokens -> Tokens \cup {None}]
    /\ pc \in [Handlers -> Pcs]
    /\ who \in [Handlers -> Emails \cup {None}]
    /\ old \in [Handlers -> Tokens \cup {None}]
    /\ fresh \in [Handlers -> Tokens \cup {None}]
    /\ answers \in SUBSET Answers
    /\ faults \in 0..MaxFaults
    /\ \A t \in Tokens : row[t] # "new" => owner[t] \in accounts

Init ==
    /\ accounts = {}
    /\ row = [t \in Tokens |-> "new"]
    /\ expired = {}
    /\ owner = [t \in Tokens |-> None]
    /\ session = [t \in Tokens |-> None]
    /\ parent = [t \in Tokens |-> None]
    /\ pc = [h \in Handlers |-> "idle"]
    /\ who = [h \in Handlers |-> None]
    /\ old = [h \in Handlers |-> None]
    /\ fresh = [h \in Handlers |-> None]
    /\ answers = {}
    /\ faults = 0

Fault == faults < MaxFaults /\ faults' = faults + 1
Goto(h, place) == pc' = [pc EXCEPT ![h] = place]

\* The request is over, answered or not.
Done(h) ==
    /\ Goto(h, "idle")
    /\ who' = [who EXCEPT ![h] = None]
    /\ old' = [old EXCEPT ![h] = None]
    /\ fresh' = [fresh EXCEPT ![h] = None]

Answer(h, status) ==
    /\ answers' = answers \cup {[status |-> status, old |-> old[h], fresh |-> fresh[h]]}
    /\ Done(h)

\* The bound on the tokens: a request that may need one starts while there are
\* more new ones than the requests before it may still use.
Presented == {old[h] : h \in {g \in Handlers : pc[g] \in {"select", "locked"}}}
Supply ==
    Cardinality({t \in Tokens : row[t] = "new"}) >
        Cardinality(Presented) + Cardinality({h \in Handlers : pc[h] \in {"consumed", "issue"}})

\* CreateUser: the INSERT, or 409 for the unique e-mail address, which leaves
\* everything as it is.
Register(h, e) ==
    /\ pc[h] = "idle"
    /\ Supply
    /\ e \notin accounts
    /\ accounts' = accounts \cup {e}
    /\ Goto(h, "issue")
    /\ who' = [who EXCEPT ![h] = e]
    /\ UNCHANGED <<rows, old, fresh, answers, faults>>

\* The INSERT is reported as failed, and has happened.
RegisterFails(h, e) ==
    /\ pc[h] = "idle"
    /\ Fault
    /\ accounts' = accounts \cup {e}
    /\ UNCHANGED <<rows, handlers, answers>>

\* UserByEmail and the password check; when either fails the answer is 401 or
\* 500 and nothing has changed.
Login(h, e) ==
    /\ pc[h] = "idle"
    /\ Supply
    /\ e \in accounts
    /\ Goto(h, "issue")
    /\ who' = [who EXCEPT ![h] = e]
    /\ UNCHANGED <<accounts, rows, old, fresh, answers, faults>>

\* A client sends a refresh token it was given, at any time and any number
\* of times.
Refresh(h, t) ==
    /\ pc[h] = "idle"
    /\ row[t] = "gone" \/ t \in expired \cup Presented \/ Supply
    /\ \E a \in answers : a.fresh = t
    /\ Goto(h, "select")
    /\ old' = [old EXCEPT ![h] = t]
    /\ UNCHANGED <<accounts, rows, who, fresh, answers, faults>>

\* Mutated form of Select: SELECT without FOR UPDATE.
SelectUnlocked(h) ==
    /\ pc[h] = "select"
    /\ row[old[h]] = "live"
    /\ who' = [who EXCEPT ![h] = owner[old[h]]]
    /\ Goto(h, IF old[h] \in expired THEN "stale" ELSE "locked")
    /\ UNCHANGED <<accounts, rows, old, fresh, answers, faults>>

\* Mutated form of Select: the test of expires_at the wrong way round.
SelectInverted(h) ==
    /\ pc[h] = "select"
    /\ row[old[h]] = "live"
    /\ \A g \in Handlers : pc[g] \in {"locked", "stale"} => old[g] # old[h]
    /\ who' = [who EXCEPT ![h] = owner[old[h]]]
    /\ Goto(h, IF old[h] \in expired THEN "locked" ELSE "stale")
    /\ UNCHANGED <<accounts, rows, old, fresh, answers, faults>>

\* SELECT ... FOR UPDATE waits for the transaction that has the row, and then
\* looks at expires_at.
Select(h) ==
    /\ pc[h] = "select"
    /\ row[old[h]] = "live"
    /\ \A g \in Handlers : pc[g] \in {"locked", "stale"} => old[g] # old[h]
    /\ who' = [who EXCEPT ![h] = owner[old[h]]]
    /\ Goto(h, IF old[h] \in expired THEN "stale" ELSE "locked")
    /\ UNCHANGED <<accounts, rows, old, fresh, answers, faults>>

\* The SELECT fails: 500.
SelectFails(h) ==
    /\ pc[h] = "select"
    /\ Fault
    /\ Done(h)
    /\ UNCHANGED <<accounts, rows, answers>>

\* Mutated form of Unknown: SKIP LOCKED, a row somebody has is no row.
UnknownSkipLocked(h) ==
    /\ pc[h] = "select"
    /\ \/ row[old[h]] # "live"
       \/ \E g \in Handlers : pc[g] \in {"locked", "stale"} /\ old[g] = old[h]
    /\ Answer(h, 401)
    /\ UNCHANGED <<accounts, rows, faults>>

\* No such row, or no more: ErrInvalidRefresh.
Unknown(h) ==
    /\ pc[h] = "select"
    /\ row[old[h]] # "live"
    /\ Answer(h, 401)
    /\ UNCHANGED <<accounts, rows, faults>>

\* The expired token is deleted, which may fail unnoticed.
Sweep(h) ==
    /\ pc[h] = "stale"
    /\ \/ row' = [row EXCEPT ![old[h]] = "gone"] /\ UNCHANGED faults
       \/ UNCHANGED row /\ Fault
    /\ Answer(h, 401)
    /\ UNCHANGED <<accounts, expired, owner, session, parent>>

\* Mutated form of Consume: the token is not deleted.
ConsumeKeeping(h) ==
    /\ pc[h] = "locked"
    /\ Goto(h, "consumed")
    /\ UNCHANGED <<accounts, rows, who, old, fresh, answers, faults>>

\* DELETE and COMMIT.
Consume(h) ==
    /\ pc[h] = "locked"
    /\ row' = [row EXCEPT ![old[h]] = "gone"]
    /\ Goto(h, "consumed")
    /\ UNCHANGED <<accounts, expired, owner, session, parent, who, old, fresh, answers, faults>>

\* The DELETE or the COMMIT is reported as failed, and may have happened: 500.
ConsumeFails(h) ==
    /\ pc[h] = "locked"
    /\ row' \in {row, [row EXCEPT ![old[h]] = "gone"]}
    /\ Fault
    /\ Done(h)
    /\ UNCHANGED <<accounts, expired, owner, session, parent, answers>>

\* UserByID.  A failure of the call is answered like an invalid token, which
\* is gone by now.
LoadUser(h) ==
    /\ pc[h] = "consumed"
    /\ Goto(h, "issue")
    /\ UNCHANGED <<accounts, rows, who, old, fresh, answers, faults>>

LoadUserFails(h) ==
    /\ pc[h] = "consumed"
    /\ Fault
    /\ Answer(h, 401)
    /\ UNCHANGED <<accounts, rows>>

\* The INSERT of SaveRefreshToken: a token never seen before.
Save(h, t) ==
    /\ row[t] = "new"
    /\ row' = [row EXCEPT ![t] = "live"]
    /\ owner' = [owner EXCEPT ![t] = who[h]]
    /\ parent' = [parent EXCEPT ![t] = old[h]]
    /\ session' = [session EXCEPT ![t] = IF old[h] = None THEN t ELSE session[old[h]]]

IssuePair(h) ==
    /\ pc[h] = "issue"
    /\ \E t \in Tokens : Save(h, t) /\ fresh' = [fresh EXCEPT ![h] = t]
    /\ Goto(h, "issued")
    /\ UNCHANGED <<accounts, expired, who, old, answers, faults>>

\* The INSERT is reported as failed, and may have happened: 500, with the old
\* token gone.
IssueFails(h) ==
    /\ pc[h] = "issue"
    /\ Fault
    /\ Done(h)
    /\ \/ UNCHANGED rows
       \/ (\E t \in Tokens : Save(h, t)) /\ UNCHANGED expired
    /\ UNCHANGED <<accounts, answers>>

Respond(h) ==
    /\ pc[h] = "issued"
    /\ Answer(h, 200)
    /\ UNCHANGED <<accounts, rows, faults>>

\* The connection is cut or the process dies: an open transaction is rolled
\* back, everything committed stays.
Die(h) ==
    /\ pc[h] # "idle"
    /\ Fault
    /\ Done(h)
    /\ UNCHANGED <<accounts, rows, answers>>

\* expires_at of a token comes to pass.
Expire(t) ==
    /\ t \notin expired
    /\ row[t] = "live"
    /\ expired' = expired \cup {t}
    /\ UNCHANGED <<accounts, row, owner, session, parent, handlers, answers, faults>>

HandlerStep(h) ==
    \/ Select(h) \/ SelectFails(h) \/ Unknown(h) \/ Sweep(h)
    \/ Consume(h) \/ ConsumeFails(h) \/ LoadUser(h) \/ LoadUserFails(h)
    \/ IssuePair(h) \/ IssueFails(h)
    \/ Respond(h) \/ Die(h)

Next ==
    \/ \E h \in Handlers :
         \/ HandlerStep(h)
         \/ \E e \in Emails : Register(h, e) \/ RegisterFails(h, e) \/ Login(h, e)
         \/ \E t \in Tokens : Refresh(h, t)
    \/ \E t \in Tokens : Expire(t)

Spec == Init /\ [][Next]_vars

(***************************************************************************)
(* Properties                                                              *)
(***************************************************************************)

\* The requests that have consumed a token and not saved its successor yet.
Exchanging(t) == {h \in Handlers : pc[h] \in {"consumed", "issue"} /\ old[h] = t}
Successors(t) == {s \in Tokens : parent[s] = t}

\* The two sets have one element between them, if any.
AtMostOne(S, T) ==
    /\ \A a, b \in S : a = b
    /\ \A a, b \in T : a = b
    /\ S = {} \/ T = {}

\* A refresh token is exchanged at most once, however many requests present
\* it at the same time, and is no longer in the table when it has been.
ExchangedOnce ==
    \A t \in Tokens :
        /\ AtMostOne(Exchanging(t), Successors(t))
        /\ Exchanging(t) \cup Successors(t) # {} => row[t] = "gone"

Live(s) == {t \in Tokens : session[t] = s /\ row[t] = "live"}
Renewing(s) == {h \in Handlers : \E t \in Tokens : session[t] = s /\ h \in Exchanging(t)}

\* Rotation: of all tokens that descend from one login, one at most is good
\* for a refresh, and none is while a refresh is under way.
OneLivePerSession == \A s \in Tokens : AtMostOne(Live(s), Renewing(s))

\* A token passes on to the user it was issued to.
OwnerInherited ==
    \A t \in Tokens : parent[t] # None => owner[t] = owner[parent[t]]

\* What the app is told of a token is so: a token it is given is in the table
\* and continues the one it sent, and a token that is refused, at which the app
\* ends the session, is of no use to anybody any more.
AnswersHonest ==
    \A a \in answers :
        /\ a.status = 200 => /\ a.fresh # None
                             /\ row[a.fresh] # "new" /\ parent[a.fresh] = a.old
        /\ a.status = 401 => row[a.old] = "gone" \/ a.old \in expired

\* A session that no refresh token continues has expired or was cut by a
\* fault: refreshing alone, in whatever overlap, never ends one.
SessionsSurvive ==
    faults = 0 => \A t \in Tokens :
        row[t] = "gone" => t \in expired \/ Exchanging(t) \cup Successors(t) # {}
===============================================================================
