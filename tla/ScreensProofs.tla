----------------------------- MODULE ScreensProofs -----------------------------
(***************************************************************************)
(* The screens of the app keep their promises in whatever order calls are  *)
(* begun, answered and fail: the proofs, screen by screen.                 *)
(***************************************************************************)
EXTENDS Screens, SummariesProofs

(***************************************************************************)
(* The screen of one event                                                 *)
(***************************************************************************)
DetailInv ==
    /\ d_status \in D!Statuses \cup {None}
    /\ d_calls \in [Calls -> D!Places \cup {None}]
    /\ D!PollIffActive

LEMMA DetailInit == D!Init => DetailInv
  BY DEF D!Init, DetailInv, D!Statuses, D!Places, D!PollIffActive

\* Of an answer that is not 404.
LEMMA DetailAnswer == ASSUME DetailInv, NEW c \in Calls, D!Answer(c) PROVE DetailInv'
<1>1. d_calls' \in [Calls -> D!Places \cup {None}]
  BY DEF D!Answer, DetailInv
<1>2. d_poll' = D!Active(d_calls[c]) /\ d_seen' = d_calls[c] /\ d_view' = "ready" /\ ~d_closed' /\ d_status' = d_status
  BY DEF D!Answer, D!SyncPoll, DetailInv
<1>3. QED
  BY <1>1, <1>2 DEF DetailInv, D!PollIffActive, D!Active

\* A call without a spinner is one of an event in the queue.
LEMMA DetailLoad == ASSUME DetailInv, NEW c \in Calls, D!Load(c) PROVE DetailInv'
<1>1. d_calls' \in [Calls -> D!Places \cup {None}]
  BY DEF D!Load, DetailInv, D!Places
<1>2. QED
  BY <1>1 DEF D!Load, DetailInv, D!PollIffActive

LEMMA DetailStep == DetailInv /\ [D!Next]_(D!vars) => DetailInv'
<1>1. SUFFICES ASSUME DetailInv, [D!Next]_(D!vars) PROVE DetailInv'
  OBVIOUS
<1>2. CASE D!Work
  BY <1>1, <1>2 DEF D!Work, DetailInv, D!Statuses, D!PollIffActive, D!Active
<1>3. CASE D!Retry
  BY <1>1, <1>3 DEF D!Retry, DetailInv, D!Statuses, D!PollIffActive, D!Active
<1>4. CASE D!Close
  BY <1>1, <1>4 DEF D!Close, DetailInv, D!PollIffActive
<1>5. ASSUME NEW c \in Calls, D!Get(c) PROVE DetailInv'
  BY <1>1, <1>5 DEF D!Get, D!GetForUser, DetailInv, D!Places, D!PollIffActive, D!Active
<1>6. ASSUME NEW c \in Calls, D!Tick(c) \/ D!TryAgain(c) PROVE DetailInv'
  BY <1>1, <1>6, DetailLoad DEF D!Tick, D!TryAgain
<1>7. ASSUME NEW c \in Calls, D!AnswerFails(c) PROVE DetailInv'
  BY <1>1, <1>7 DEF D!AnswerFails, DetailInv, D!PollIffActive
<1>8. ASSUME NEW c \in Calls, D!AnswerClosed(c) PROVE DetailInv'
  BY <1>1, <1>8 DEF D!AnswerClosed, DetailInv, D!PollIffActive, D!Active
<1>9. CASE UNCHANGED D!vars
  BY <1>1, <1>9 DEF D!vars, DetailInv, D!PollIffActive, D!Active
<1>10. QED
  BY <1>1, <1>2, <1>3, <1>4, <1>5, <1>6, <1>7, <1>8, <1>9, DetailAnswer DEF D!Next

(***************************************************************************)
(* The status bar                                                          *)
(***************************************************************************)
HealthInv == h_calls \in [Calls -> H!Places \cup {None}] /\ H!PolledIffSignedIn

LEMMA HealthInit == H!Init => HealthInv
  BY DEF H!Init, HealthInv, H!PolledIffSignedIn

\* A spinner that a call leaves is one that the call will end.
LEMMA HealthRefresh ==
  ASSUME HealthInv, NEW cs \in SUBSET Calls, cs # {}, H!Refresh(cs)
  PROVE  /\ h_calls' \in [Calls -> H!Places \cup {None}]
         /\ \E c \in Calls : h_calls'[c] # None
         /\ h_view' # "idle"
<1>1. PICK c \in Calls : c \in cs
  OBVIOUS
<1>2. h_calls' \in [Calls -> H!Places \cup {None}]
  BY DEF H!Refresh, HealthInv, H!Places
<1>3. h_calls'[c] = "asked" /\ "asked" # None
  BY <1>1, NothingAssumption DEF H!Refresh, H!Places
<1>4. h_view' # "idle"
  BY DEF H!Refresh
<1>5. QED
  BY <1>2, <1>3, <1>4

\* The API goes on with a call.
LEMMA HealthCheck ==
  ASSUME HealthInv, NEW c \in Calls, NEW p \in H!Places,
         h_calls' = [h_calls EXCEPT ![c] = p], UNCHANGED <<h_auth, h_timers, h_view>>
  PROVE  HealthInv'
<1>1. h_calls' \in [Calls -> H!Places \cup {None}]
  BY DEF HealthInv
<1>2. h_calls'[c] # None
  BY NothingAssumption DEF HealthInv
<1>3. QED
  BY <1>1, <1>2 DEF HealthInv, H!PolledIffSignedIn

LEMMA HealthStep == HealthInv /\ [H!Next]_(H!vars) => HealthInv'
<1>1. SUFFICES ASSUME HealthInv, [H!Next]_(H!vars) PROVE HealthInv'
  OBVIOUS
<1>2. CASE H!Change
  BY <1>1, <1>2 DEF H!Change, HealthInv, H!PolledIffSignedIn
<1>3. CASE H!SignOut
  BY <1>1, <1>3 DEF H!SignOut, HealthInv, H!PolledIffSignedIn
<1>4. ASSUME NEW c \in Calls, NEW d \in Calls, H!Restore(c, d) PROVE HealthInv'
  <2>1. h_timers' = 1 /\ h_auth' = "in" /\ H!Refresh({c, d})
    BY <1>4 DEF H!Restore, H!Restart
  <2>2. QED
    BY <1>1, <2>1, HealthRefresh DEF HealthInv, H!PolledIffSignedIn
<1>5. ASSUME NEW c \in Calls, H!SignIn(c) PROVE HealthInv'
  <2>1. h_timers' = 1 /\ h_auth' = "in" /\ H!Refresh({c})
    BY <1>5 DEF H!SignIn, H!Restart
  <2>2. QED
    BY <1>1, <2>1, HealthRefresh DEF HealthInv, H!PolledIffSignedIn
<1>6. ASSUME NEW c \in Calls, H!Tick(c) \/ H!Tap(c) PROVE HealthInv'
  <2>1. UNCHANGED <<h_timers, h_auth>> /\ H!Refresh({c})
    BY <1>6 DEF H!Tick, H!Tap
  <2>2. QED
    BY <1>1, <2>1, HealthRefresh DEF HealthInv, H!PolledIffSignedIn
<1>7. ASSUME NEW c \in Calls, H!Check(c) \/ H!QueueStats(c) PROVE HealthInv'
  BY <1>1, <1>7, HealthCheck DEF H!Check, H!QueueStats, H!Places
<1>8. ASSUME NEW c \in Calls, H!Answer(c) PROVE HealthInv'
  BY <1>1, <1>8 DEF H!Answer, HealthInv, H!PolledIffSignedIn
<1>9. ASSUME NEW c \in Calls, H!AnswerFails(c) PROVE HealthInv'
  BY <1>1, <1>9 DEF H!AnswerFails, HealthInv, H!PolledIffSignedIn
<1>10. CASE UNCHANGED H!vars
  BY <1>1, <1>10 DEF H!vars, HealthInv, H!PolledIffSignedIn
<1>11. QED
  BY <1>1, <1>2, <1>3, <1>4, <1>5, <1>6, <1>7, <1>8, <1>9, <1>10 DEF H!Next

\* The screen of an event says that it refreshes itself exactly when it does
\* (EventDetailCubit), and one timer polls the health of the API while somebody
\* is signed in, none otherwise (OpsHealthCubit).
THEOREM PollsAreWatched == D!Spec /\ H!Spec => []PollsIffWatched
<1>1. DetailInv /\ HealthInv => PollsIffWatched
  BY DEF DetailInv, HealthInv, PollsIffWatched
<1>2. QED
  BY <1>1, DetailInit, DetailStep, HealthInit, HealthStep, PTL DEF D!Spec, H!Spec

(***************************************************************************)
(* The rules                                                               *)
(***************************************************************************)
\* As long as no call overlaps another there is one at most, and a list on its
\* way is the API's, save for what others have changed.
Alone == ~r_overlapped => \A c, d \in Calls : r_calls[c] # None /\ r_calls[d] # None => c = d
Current(rows) == \A r \in Items \ r_foreign : rows[r] = R!Listing[r]
AnswerCurrent ==
    ~r_overlapped =>
      \A c \in Calls : r_calls[c] # None /\ r_calls[c].place = "listed" => Current(r_calls[c].rows)

RulesTyped ==
    /\ r_table \in [Items -> Values \cup {None, "gone"}]
    /\ r_calls \in [Calls -> R!Calling \cup {None}]
    /\ r_sheet \in Items \cup {None, "new"}
RulesInv == RulesTyped /\ Alone /\ AnswerCurrent /\ R!ListIsCurrent /\ R!NothingStuck

LEMMA CallType ==
  ASSUME NEW kind \in R!Kinds, NEW place \in {"asked", "refused", "done", "listing", "listed"},
         NEW r \in Items \cup {None}, NEW v \in Values \cup {None}
  PROVE  R!Call(kind, place, r, v) \in R!Calling
  BY DEF R!Call, R!Calling, R!NoRules

LEMMA RulesInit == R!Init => RulesInv
<1>1. SUFFICES ASSUME R!Init PROVE RulesInv
  OBVIOUS
<1>2. PICK c \in Calls : r_calls = [d \in Calls |->
        IF d = c THEN R!Call("load", "listing", None, None) ELSE None]
  BY <1>1 DEF R!Init
<1>3. R!Call("load", "listing", None, None) \in R!Calling
  BY CallType DEF R!Kinds
<1>4. RulesTyped
  BY <1>1, <1>2, <1>3 DEF R!Init, RulesTyped
<1>5. Alone
  BY <1>2 DEF Alone
<1>6. r_calls[c] # None /\ r_calls[c].place = "listing"
  BY <1>2, <1>3, NothingAssumption DEF R!Call
<1>7. AnswerCurrent
  BY <1>2, <1>6 DEF AnswerCurrent
<1>8. R!ListIsCurrent /\ R!NothingStuck
  BY <1>1, <1>6 DEF R!Init, R!ListIsCurrent, R!AtRest, R!NothingStuck
<1>9. QED
  BY <1>4, <1>5, <1>7, <1>8 DEF RulesInv

\* The user begins a call, which is a load or makes the form busy.
LEMMA RulesBegin ==
  ASSUME RulesInv, NEW c \in Calls, NEW k \in R!Calling, R!Begin(c, k),
         k.place # "listed",
         \/ k.place = "listing" /\ UNCHANGED r_busy
         \/ k.kind # "load" /\ UNCHANGED r_view
  PROVE  RulesInv'
<1>1. /\ r_calls[c] = None /\ r_calls' = [r_calls EXCEPT ![c] = k]
      /\ r_overlapped' = ~R!AtRest
      /\ UNCHANGED <<r_table, r_items, r_sheet, r_closed, r_foreign>>
  BY DEF R!Begin
<1>2. /\ r_calls'[c] = k /\ k # None
      /\ \A d \in Calls : d # c => r_calls'[d] = r_calls[d]
  BY <1>1, NothingAssumption DEF RulesInv, RulesTyped
<1>3. RulesTyped'
  BY <1>1 DEF RulesInv, RulesTyped
<1>4. ~r_overlapped' => \A d \in Calls : r_calls[d] = None
  BY <1>1 DEF R!AtRest
<1>5. Alone' /\ AnswerCurrent'
  BY <1>2, <1>4 DEF Alone, AnswerCurrent
<1>6. R!ListIsCurrent'
  BY <1>2 DEF R!ListIsCurrent, R!AtRest
<1>7. R!NothingStuck'
  <2>1. ~r_closed' => ~r_closed
    BY <1>1
  <2>2. CASE k.place = "listing" /\ UNCHANGED r_busy
    BY <1>1, <1>2, <2>1, <2>2 DEF RulesInv, R!NothingStuck
  <2>3. CASE k.kind # "load" /\ UNCHANGED r_view
    BY <1>1, <1>2, <2>1, <2>3 DEF RulesInv, R!NothingStuck
  <2>4. QED
    BY <2>2, <2>3
<1>8. QED
  BY <1>3, <1>5, <1>6, <1>7 DEF RulesInv

\* What a form that has gone leaves of a call.
LEMMA FormGone ==
  ASSUME RulesTyped, NEW c \in Calls
  PROVE  LET k == R!WithoutForm[c]
         IN  /\ k \in R!Calling \cup {None} /\ (k = None <=> r_calls[c] = None)
             /\ k # None => /\ k.place = r_calls[c].place /\ k.kind = r_calls[c].kind
                            /\ k.rows = r_calls[c].rows
<1>1. CASE r_calls[c] = None
  BY <1>1 DEF R!WithoutForm
<1>2. CASE r_calls[c] # None
  <2>1. r_calls[c] \in R!Calling
    BY <1>2 DEF RulesTyped
  <2>2. R!WithoutForm[c] = [r_calls[c] EXCEPT !.form = FALSE]
    BY <1>2 DEF R!WithoutForm
  <2>3. R!WithoutForm[c] \in R!Calling
    BY <2>1, <2>2 DEF R!Calling
  <2>4. QED
    BY <1>2, <2>1, <2>2, <2>3, NothingAssumption DEF R!Calling
<1>3. QED
  BY <1>1, <1>2

\* A step that neither begins nor ends a call, moves none, and leaves the list alone.
Unmoved(c) ==
    /\ r_calls'[c] = None <=> r_calls[c] = None
    /\ r_calls[c] # None => /\ r_calls'[c].place = r_calls[c].place
                            /\ r_calls'[c].kind = r_calls[c].kind
                            /\ r_calls'[c].rows = r_calls[c].rows
LEMMA RulesUnmoved ==
  ASSUME RulesInv, RulesTyped', \A c \in Calls : Unmoved(c),
         UNCHANGED <<r_view, r_items, r_error, r_busy, r_overlapped>>,
         r_closed => r_closed',
         r_foreign \subseteq r_foreign',
         \A r \in Items \ r_foreign' : r_table'[r] = r_table[r]
  PROVE  RulesInv'
<1>1. \A r \in Items \ r_foreign' : r \in Items \ r_foreign /\ R!Listing'[r] = R!Listing[r]
  BY DEF R!Listing
<1>2. Alone'
  BY DEF RulesInv, Alone, Unmoved
<1>3. AnswerCurrent'
  BY <1>1 DEF RulesInv, AnswerCurrent, Current, Unmoved
<1>4. R!ListIsCurrent'
  BY <1>1 DEF RulesInv, R!ListIsCurrent, R!AtRest, Unmoved
<1>5. R!NothingStuck'
  BY DEF RulesInv, R!NothingStuck, Unmoved
<1>6. QED
  BY <1>2, <1>3, <1>4, <1>5 DEF RulesInv
\* The call of c goes on as k.
LEMMA RulesMoves ==
  ASSUME RulesInv, NEW c \in Calls, NEW k \in R!Calling,
         r_calls[c] # None, r_calls' = [r_calls EXCEPT ![c] = k], k.kind = r_calls[c].kind,
         r_table' \in [Items -> Values \cup {None, "gone"}],
         UNCHANGED <<r_items, r_sheet, r_busy, r_closed, r_overlapped, r_foreign>>,
         UNCHANGED r_table \/ (UNCHANGED r_view /\ r_calls[c].place = "asked"),
         \/ /\ UNCHANGED r_view
            /\ r_calls[c].place = "listing" => k.place = "listed"
            /\ r_calls[c].place # "listed"
         \/ k.place = "listing",
         k.place = "listed" => k.rows = R!Listing'
  PROVE  RulesInv'
<1>1. /\ r_calls'[c] = k /\ k # None
      /\ \A d \in Calls : d # c => r_calls'[d] = r_calls[d]
  BY NothingAssumption DEF RulesInv, RulesTyped
<1>2. RulesTyped'
  BY DEF RulesInv, RulesTyped
<1>3. Alone'
  BY <1>1 DEF RulesInv, Alone
<1>4. ~r_overlapped => \A d \in Calls : d # c => r_calls[d] = None
  BY DEF RulesInv, Alone
<1>5. AnswerCurrent'
  BY <1>1, <1>4 DEF AnswerCurrent, Current
<1>6. R!ListIsCurrent'
  BY <1>1 DEF R!ListIsCurrent, R!AtRest
<1>7. R!NothingStuck'
  BY <1>1 DEF RulesInv, R!NothingStuck
<1>8. QED
  BY <1>2, <1>3, <1>5, <1>6, <1>7 DEF RulesInv

\* The call of c ends, perhaps with its form, and the list is what it says.
LEMMA RulesEnds ==
  ASSUME RulesInv, NEW c \in Calls,
         (UNCHANGED r_sheet /\ R!End(c)) \/ R!Return(c),
         UNCHANGED <<r_table, r_overlapped, r_foreign>>,
         ~r_closed' /\ ~r_error' /\ ~r_overlapped => Current(r_items'),
         ~r_closed' => ~r_closed,
         ~r_closed' /\ r_view' = "loading" =>
           UNCHANGED r_view /\ r_calls[c] # None /\ r_calls[c].place \notin {"listing", "listed"},
         ~r_closed' => ~r_busy'
  PROVE  RulesInv'
<1>1. /\ r_calls' \in [Calls -> R!Calling \cup {None}] /\ r_calls'[c] = None
      /\ \A d \in Calls : d # c => Unmoved(d)
      /\ r_sheet' \in Items \cup {None, "new"}
  <2>1. CASE R!Return(c) /\ r_calls[c].form
    <3>1. r_calls' = [R!WithoutForm EXCEPT ![c] = None] /\ r_sheet' = None
      BY <2>1 DEF R!Return
    <3>2. R!WithoutForm = [d \in Calls |-> R!WithoutForm[d]]
      BY DEF R!WithoutForm
    <3>3. QED
      BY <3>1, <3>2, FormGone DEF RulesInv, Unmoved
  <2>2. CASE R!End(c) /\ UNCHANGED r_sheet
    BY <2>2 DEF R!End, RulesInv, RulesTyped, Unmoved
  <2>3. QED
    BY <2>1, <2>2 DEF R!Return
<1>2. RulesTyped'
  BY <1>1 DEF RulesInv, RulesTyped
<1>3. Alone'
  BY <1>1 DEF RulesInv, Alone, Unmoved
<1>4. AnswerCurrent'
  BY <1>1 DEF RulesInv, AnswerCurrent, Current, Unmoved, R!Listing
<1>5. R!ListIsCurrent'
  BY DEF R!ListIsCurrent, Current, R!Listing
<1>6. R!NothingStuck'
  BY <1>1 DEF RulesInv, R!NothingStuck, Unmoved
<1>7. QED
  BY <1>2, <1>3, <1>4, <1>5, <1>6 DEF RulesInv

LEMMA RulesUser ==
  ASSUME RulesInv,
         NEW c \in Calls, R!Refresh(c) \/ R!Save(c) \/ R!Remove(c)
  PROVE  RulesInv'
<1>1. CASE R!Refresh(c)
  <2>1. R!Call("load", "listing", None, None) \in R!Calling
    BY CallType DEF R!Kinds
  <2>2. QED
    BY <1>1, <2>1, RulesBegin DEF R!Refresh, R!Call
<1>2. CASE R!Save(c)
  <2>1. PICK v \in Values, kind \in {"create", "update"}, r \in Items \cup {None} :
          R!Begin(c, R!Call(kind, "asked", r, v)) /\ UNCHANGED r_view
    BY <1>2 DEF R!Save, RulesInv, RulesTyped
  <2>2. R!Call(kind, "asked", r, v) \in R!Calling
    BY CallType DEF R!Kinds
  <2>3. QED
    BY <2>1, <2>2, RulesBegin DEF R!Call
<1>3. CASE R!Remove(c)
  <2>1. PICK r \in Items : R!Begin(c, R!Call("remove", "asked", r, None)) /\ UNCHANGED r_view
    BY <1>3 DEF R!Remove
  <2>2. R!Call("remove", "asked", r, None) \in R!Calling
    BY CallType DEF R!Kinds
  <2>3. QED
    BY <2>1, <2>2, RulesBegin DEF R!Call
<1>4. QED
  BY <1>1, <1>2, <1>3
LEMMA RulesApi ==
  ASSUME RulesInv, NEW c \in Calls, R!List(c) \/ R!Write(c)
  PROVE  RulesInv'
<1> DEFINE k == r_calls[c]
<1>1. k \in R!Calling
  BY DEF R!List, R!Write, RulesInv, RulesTyped
<1>2. CASE R!List(c)
  <2>1. R!Listing \in [Items -> Values \cup {None}] /\ R!Listing' = R!Listing
    BY <1>2 DEF R!List, R!Listing, RulesInv, RulesTyped
  <2>2. [k EXCEPT !.place = "listed", !.rows = R!Listing] \in R!Calling
    BY <1>1, <2>1 DEF R!Calling
  <2>3. QED
    BY <1>1, <1>2, <2>1, <2>2, RulesMoves DEF R!List, R!state, R!Calling, RulesInv, RulesTyped
<1>3. CASE R!Write(c)
  <2>1. ASSUME NEW p \in {"done", "refused"} PROVE [k EXCEPT !.place = p] \in R!Calling
    BY <1>1 DEF R!Calling
  <2>2. PICK p \in {"done", "refused"} : r_calls' = [r_calls EXCEPT ![c] = [k EXCEPT !.place = p]]
    BY <1>3 DEF R!Write
  <2>3. r_table' \in [Items -> Values \cup {None, "gone"}]
    BY <1>1, <1>3 DEF R!Write, R!Calling, RulesInv, RulesTyped
  <2>4. /\ r_calls[c] # None /\ k.place = "asked"
        /\ UNCHANGED <<r_view, r_items, r_error, r_busy, r_sheet, r_closed, r_overlapped, r_foreign>>
    BY <1>3 DEF R!Write, R!state
  <2>5. [k EXCEPT !.place = p].kind = k.kind /\ [k EXCEPT !.place = p].place = p
    BY <1>1 DEF R!Calling
  <2>6. QED
    BY <2>1, <2>2, <2>3, <2>4, <2>5, RulesMoves
<1>4. QED
  BY <1>2, <1>3

\* What the cubit does with an answer.
LEMMA RulesAnswered ==
  ASSUME RulesInv, NEW c \in Calls,
         R!Written(c) \/ R!Listed(c) \/ R!WriteFails(c) \/ R!ListFails(c) \/ R!AnswerClosed(c)
  PROVE  RulesInv'
<1> DEFINE k == r_calls[c]
<1>1. k \in R!Calling
  BY DEF R!Written, R!Listed, R!WriteFails, R!ListFails, R!AnswerClosed, RulesInv, RulesTyped
<1>2. CASE R!Written(c)
  <2>1. [k EXCEPT !.place = "listing"] \in R!Calling
    BY <1>1 DEF R!Calling
  <2>2. [k EXCEPT !.place = "listing"].kind = k.kind /\ [k EXCEPT !.place = "listing"].place = "listing"
    BY <1>1 DEF R!Calling
  <2>3. QED
    BY <1>2, <2>1, <2>2, RulesMoves DEF R!Written, RulesInv, RulesTyped
<1>3. CASE R!Listed(c)
  <2>1. ~r_overlapped => Current(r_items')
    BY <1>3 DEF R!Listed, RulesInv, AnswerCurrent
  <2>2. r_view' # "loading"
    BY <1>3 DEF R!Listed
  <2>3. QED
    BY <1>3, <2>1, <2>2, RulesEnds DEF R!Listed
<1>4. CASE R!WriteFails(c)
  BY <1>4, RulesEnds DEF R!WriteFails
<1>5. CASE R!ListFails(c)
  BY <1>5, RulesEnds DEF R!ListFails
<1>6. CASE R!AnswerClosed(c)
  BY <1>6, RulesEnds DEF R!AnswerClosed, R!state
<1>7. QED
  BY <1>2, <1>3, <1>4, <1>5, <1>6

LEMMA RulesStep == RulesInv /\ [R!Next]_(R!vars) => RulesInv'
<1>1. SUFFICES ASSUME RulesInv, [R!Next]_(R!vars) PROVE RulesInv'
  OBVIOUS
<1>2. CASE R!Dismiss
  <2>1. \A c \in Calls : Unmoved(c)
    BY <1>1, <1>2, FormGone DEF R!Dismiss, RulesInv, Unmoved
  <2>2. r_calls' \in [Calls -> R!Calling \cup {None}]
    <3>1. R!WithoutForm = [c \in Calls |-> R!WithoutForm[c]]
      BY DEF R!WithoutForm
    <3>2. QED
      BY <1>1, <1>2, <3>1, FormGone DEF R!Dismiss, RulesInv
  <2>3. RulesTyped'
    BY <1>1, <1>2, <2>2 DEF R!Dismiss, RulesInv, RulesTyped
  <2>4. QED
    BY <1>1, <1>2, <2>1, <2>3, RulesUnmoved DEF R!Dismiss, R!state
<1>3. CASE R!SignOut
  <2>1. RulesTyped' /\ \A c \in Calls : Unmoved(c)
    BY <1>1, <1>3 DEF R!SignOut, RulesInv, RulesTyped, Unmoved
  <2>2. QED
    BY <1>1, <1>3, <2>1, RulesUnmoved DEF R!SignOut, R!state
<1>4. ASSUME NEW s \in Items \cup {"new"}, R!Open(s) PROVE RulesInv'
  <2>1. RulesTyped' /\ \A c \in Calls : Unmoved(c)
    BY <1>1, <1>4 DEF R!Open, RulesInv, RulesTyped, Unmoved
  <2>2. QED
    BY <1>1, <1>4, <2>1, RulesUnmoved DEF R!Open, R!state
<1>5. ASSUME NEW r \in Items, R!Elsewhere(r) PROVE RulesInv'
  <2>1. PICK v \in Values \cup {"gone"} : r_table' = [r_table EXCEPT ![r] = v]
    BY <1>5 DEF R!Elsewhere
  <2>2. RulesTyped' /\ \A c \in Calls : Unmoved(c)
    BY <1>1, <1>5, <2>1 DEF R!Elsewhere, RulesInv, RulesTyped, Unmoved
  <2>3. r_foreign' = r_foreign \cup {r} /\ \A x \in Items \ r_foreign' : r_table'[x] = r_table[x]
    BY <1>1, <1>5, <2>1 DEF R!Elsewhere, RulesInv, RulesTyped
  <2>4. QED
    BY <1>1, <1>5, <2>2, <2>3, RulesUnmoved DEF R!Elsewhere, R!state
<1>6. CASE UNCHANGED R!vars
  <2>1. RulesTyped' /\ \A c \in Calls : Unmoved(c)
    BY <1>1, <1>6 DEF R!vars, RulesInv, RulesTyped, Unmoved
  <2>2. QED
    BY <1>1, <1>6, <2>1, RulesUnmoved DEF R!vars, R!state
<1>7. QED
  BY <1>1, <1>2, <1>3, <1>4, <1>5, <1>6, RulesUser, RulesApi, RulesAnswered DEF R!Next

LEMMA RulesHold == R!Spec => []RulesInv
  BY RulesInit, RulesStep, PTL DEF R!Spec

\* At rest and without an error the list is the API's, save for what others have
\* changed, if calls have not overlapped (RulesCubit).
THEOREM ListCurrent == R!Spec => []RulesCurrent
<1>1. RulesInv => RulesCurrent
  BY DEF RulesInv, RulesCurrent
<1>2. QED
  BY <1>1, RulesHold, PTL
(***************************************************************************)
(* The events list                                                         *)
(***************************************************************************)
\* One call at most is waited for by a demo, which does nothing else.
Waits(l) == e_loads[l] # None /\ e_loads[l].then \in {"wait", "check"}
DemoWaits ==
    ~e_closed => \A l, m \in Calls : Waits(l) => e_pc = "loading" /\ (Waits(m) => l = m)

ListInv == E!TypeOK /\ E!WatchedIffNeeded /\ E!SpinnerHasReason /\ DemoWaits

LEMMA ListInit == E!Init => ListInv
<1>1. SUFFICES ASSUME E!Init PROVE ListInv
  OBVIOUS
<1>2. PICK l \in Calls : e_loads = [m \in Calls |->
        IF m = l THEN [place |-> "asked", filter |-> None, rows |-> E!NoRows, then |-> "nothing"] ELSE None]
  BY <1>1 DEF E!Init
<1>3. [place |-> "asked", filter |-> None, rows |-> E!NoRows, then |-> "nothing"] \in E!Load
  BY DEF E!Load, E!NoRows, E!Followers
<1>4. e_loads \in [Calls -> E!Load \cup {None}] /\ e_loads[l] # None
  BY <1>2, <1>3, NothingAssumption
<1>5. E!TypeOK
  <2>1. e_queue \in [E!Received -> E!Statuses \cup {None}]
    BY <1>1 DEF E!Init, E!Statuses
  <2>2. e_items \in [E!Received -> E!Statuses \cup {None}]
    BY <1>1 DEF E!Init, E!NoRows
  <2>3. 0 \in 0..MaxRounds /\ 0 \in 0..MaxFaults /\ 0 \in 0..MaxListReclaims
    BY ListAssumption, BoundsAssumption
  <2>4. e_left \in Nat /\ ~(e_left > 0)
    BY <1>1 DEF E!Init
  <2>5. QED
    BY <1>1, <1>4, <2>1, <2>2, <2>3, <2>4 DEF E!Init, E!TypeOK
<1>6. ~E!HasActiveQueue(e_items)
  BY <1>1, NothingAssumption DEF E!Init, E!NoRows, E!HasActiveQueue, E!Active, E!Statuses
<1>7. E!WatchedIffNeeded /\ E!SpinnerHasReason
  BY <1>1, <1>4, <1>6 DEF E!Init, E!WatchedIffNeeded, E!Needed, E!SpinnerHasReason
<1>8. DemoWaits
  BY <1>2 DEF DemoWaits, Waits
<1>9. QED
  BY <1>5, <1>7, <1>8 DEF ListInv

\* What a call that begins leaves of the others.
LEMMA Asked ==
  ASSUME E!TypeOK, NEW l \in Calls, NEW f \in E!Statuses \cup {None}, NEW then \in E!Followers,
         E!Ask(l, f, then)
  PROVE  /\ e_loads[l] = None /\ e_loads' \in [Calls -> E!Load \cup {None}]
         /\ e_loads'[l] # None /\ e_loads'[l].then = then
         /\ \A m \in Calls : m # l => e_loads'[m] = e_loads[m]
<1> DEFINE k == [place |-> "asked", filter |-> f, rows |-> E!NoRows, then |-> then]
<1>1. k \in E!Load
  BY DEF E!Load, E!NoRows
<1>2. e_loads[l] = None /\ e_loads' = [e_loads EXCEPT ![l] = k]
  BY DEF E!Ask
<1>3. k # None /\ k.then = then
  BY <1>1, NothingAssumption
<1> HIDE DEF k
<1>4. QED
  BY <1>1, <1>2, <1>3 DEF E!TypeOK

\* The queue goes on, or a call is answered by the API.
LEMMA ListQueue ==
  ASSUME ListInv, e_queue' \in [E!Received -> E!Statuses \cup {None}],
         e_retries' \in 0..MaxListReclaims,
         UNCHANGED <<e_view, e_items, e_filter, e_live, e_timer, e_demoBusy, e_pc, e_left,
                     e_created, e_rounds, e_closed, e_forsaken, e_faults>>,
         e_loads' \in [Calls -> E!Load \cup {None}],
         \A l \in Calls : /\ e_loads'[l] = None <=> e_loads[l] = None
                          /\ e_loads[l] # None => e_loads'[l].then = e_loads[l].then
  PROVE  ListInv'
<1>1. E!TypeOK'
  BY DEF ListInv, E!TypeOK
<1>2. E!WatchedIffNeeded'
  BY DEF ListInv, E!WatchedIffNeeded, E!Needed, E!HasActiveQueue
<1>3. E!SpinnerHasReason' /\ DemoWaits'
  BY DEF ListInv, E!SpinnerHasReason, DemoWaits, Waits
<1>4. QED
  BY <1>1, <1>2, <1>3 DEF ListInv

\* A load that nothing follows begins.
LEMMA ListLoads ==
  ASSUME ListInv, NEW l \in Calls, NEW f \in E!Statuses \cup {None},
         E!Ask(l, f, "nothing"), E!Spinner,
         UNCHANGED <<e_queue, e_items, e_filter, e_live, e_timer, e_demoBusy, e_pc, e_left,
                     e_created, e_rounds, e_closed, e_forsaken, e_faults, e_retries>>
  PROVE  ListInv'
<1>1. /\ e_loads[l] = None /\ e_loads' \in [Calls -> E!Load \cup {None}]
      /\ e_loads'[l] # None /\ e_loads'[l].then = "nothing"
      /\ \A m \in Calls : m # l => e_loads'[m] = e_loads[m]
  BY Asked DEF ListInv, E!Followers
<1>2. e_view' \in {e_view, "loading"}
  BY DEF E!Spinner
<1>3. E!TypeOK'
  BY <1>1, <1>2 DEF ListInv, E!TypeOK
<1>4. E!WatchedIffNeeded'
  BY <1>1 DEF ListInv, E!WatchedIffNeeded, E!Needed, E!HasActiveQueue
<1>5. E!SpinnerHasReason' /\ DemoWaits'
  BY <1>1 DEF ListInv, E!SpinnerHasReason, DemoWaits, Waits
<1>6. QED
  BY <1>3, <1>4, <1>5 DEF ListInv
\* A call that ends lets the demo go on that waits for it.
LEMMA Returned ==
  ASSUME ListInv, NEW l \in Calls, ~e_closed, e_loads[l] # None, E!Return(l)
  PROVE  /\ e_loads' \in [Calls -> E!Load \cup {None}]
         /\ e_loads'[l] = None /\ \A m \in Calls : m # l => e_loads'[m] = e_loads[m]
         /\ UNCHANGED <<e_demoBusy, e_left, e_created, e_rounds>>
         /\ IF Waits(l) THEN e_pc = "loading" /\ e_pc' \in {"delaying", "checking"} ELSE e_pc' = e_pc
<1>1. /\ e_loads' \in [Calls -> E!Load \cup {None}]
      /\ e_loads'[l] = None /\ \A m \in Calls : m # l => e_loads'[m] = e_loads[m]
      /\ UNCHANGED <<e_demoBusy, e_left, e_created, e_rounds>>
  BY DEF E!Return, ListInv, E!TypeOK
<1>2. CASE Waits(l)
  <2>1. e_pc = "loading"
    BY <1>2 DEF ListInv, DemoWaits
  <2>2. e_pc' \in {"delaying", "checking"}
    BY <1>2 DEF E!Return, Waits
  <2>3. QED
    BY <1>1, <1>2, <2>1, <2>2
<1>3. CASE ~Waits(l)
  <2>1. e_pc' = e_pc
    BY <1>3 DEF E!Return, Waits
  <2>2. QED
    BY <1>1, <1>3, <2>1
<1>4. QED
  BY <1>2, <1>3

LEMMA ListEnds ==
  ASSUME ListInv, NEW l \in Calls, ~e_closed, e_loads[l] # None, E!Return(l),
         UNCHANGED <<e_queue, e_closed, e_retries>>, e_faults' \in 0..MaxFaults,
         e_items' \in [E!Received -> E!Statuses \cup {None}],
         e_view' \in {"ready", "empty", "error"}, e_view' = "empty" => e_items' = E!NoRows,
         e_filter' \in E!Statuses \cup {None}, e_forsaken' \in BOOLEAN,
         e_live' \in BOOLEAN, e_timer' \in BOOLEAN,
         E!WatchedIffNeeded'
  PROVE  ListInv'
<1>1. /\ e_loads' \in [Calls -> E!Load \cup {None}]
      /\ e_loads'[l] = None /\ \A m \in Calls : m # l => e_loads'[m] = e_loads[m]
      /\ UNCHANGED <<e_demoBusy, e_left, e_created, e_rounds>>
      /\ IF Waits(l) THEN e_pc = "loading" /\ e_pc' \in {"delaying", "checking"} ELSE e_pc' = e_pc
  BY Returned
<1>2. e_pc' \in {"none", "simulating", "loading", "delaying", "checking"} /\ (e_pc' = "none" <=> e_pc = "none")
  BY <1>1 DEF ListInv, E!TypeOK
<1>3. E!TypeOK'
  BY <1>1, <1>2 DEF ListInv, E!TypeOK
<1>4. \A m \in Calls : Waits(m)' => Waits(m) /\ m # l
  BY <1>1 DEF Waits
<1>5. DemoWaits'
  BY <1>1, <1>4 DEF ListInv, DemoWaits
<1>6. E!SpinnerHasReason'
  BY DEF E!SpinnerHasReason
<1>7. QED
  BY <1>3, <1>5, <1>6 DEF ListInv

\* The watch is adjusted to the rows that are shown.
LEMMA WatchSynced ==
  ASSUME ListInv, ~e_closed, E!SyncLiveWatch(e_items'), UNCHANGED e_demoBusy,
         e_forsaken' => e_forsaken /\ e_demoBusy,
         e_demoBusy => e_forsaken' = e_forsaken
  PROVE  e_live' \in BOOLEAN /\ e_timer' \in BOOLEAN /\ E!WatchedIffNeeded'
<1>1. /\ e_live \in BOOLEAN /\ e_timer \in BOOLEAN /\ e_demoBusy \in BOOLEAN
      /\ e_live = e_timer /\ (e_demoBusy /\ ~e_forsaken => e_live)
  BY DEF ListInv, E!TypeOK, E!WatchedIffNeeded, E!Needed
<1>2. CASE e_demoBusy
  <2>1. e_live' = e_live /\ e_timer' = e_timer /\ e_demoBusy' /\ e_forsaken' = e_forsaken
    BY <1>2 DEF E!SyncLiveWatch, E!watch
  <2>2. QED
    BY <1>1, <1>2, <2>1 DEF E!WatchedIffNeeded, E!Needed
<1>3. CASE ~e_demoBusy /\ E!HasActiveQueue(e_items')
  <2>1. e_live' = TRUE /\ e_timer' = TRUE
    BY <1>3 DEF E!SyncLiveWatch, E!StartLiveWatch
  <2>2. QED
    BY <1>3, <2>1 DEF E!WatchedIffNeeded, E!Needed, E!HasActiveQueue
<1>4. CASE ~e_demoBusy /\ ~E!HasActiveQueue(e_items')
  <2>1. e_live' = FALSE /\ e_timer' = FALSE
    BY <1>1, <1>4 DEF E!SyncLiveWatch, E!StopLiveWatch, E!watch
  <2>2. ~E!HasActiveQueue(e_items)' /\ ~e_demoBusy'
    BY <1>4 DEF E!HasActiveQueue
  <2>3. QED
    BY <2>1, <2>2 DEF E!WatchedIffNeeded, E!Needed
<1>5. QED
  BY <1>2, <1>3, <1>4

LEMMA FilterCopied ==
  ASSUME ListInv, NEW l \in Calls, e_loads[l] # None, E!CopyFilter(e_loads[l].filter)
  PROVE  e_filter' \in E!Statuses \cup {None}
  BY DEF E!CopyFilter, ListInv, E!TypeOK, E!Load

LEMMA ListAnswered == ASSUME ListInv, NEW l \in Calls, E!Answer(l) PROVE ListInv'
<1>1. /\ ~e_closed /\ e_loads[l] # None /\ E!Return(l) /\ E!CopyFilter(e_loads[l].filter)
      /\ UNCHANGED <<e_queue, e_closed, e_faults, e_retries>>
  BY DEF E!Answer, E!bounds
<1>2. e_items' = e_loads[l].rows /\ e_items' \in [E!Received -> E!Statuses \cup {None}]
  BY <1>1 DEF E!Answer, ListInv, E!TypeOK, E!Load
<1>3. e_view' \in {"ready", "empty", "error"} /\ (e_view' = "empty" => e_items' = E!NoRows)
  BY DEF E!Answer
<1>4. e_forsaken \in BOOLEAN /\ e_demoBusy \in BOOLEAN /\ e_forsaken' = (e_forsaken /\ e_demoBusy)
  BY DEF E!Answer, ListInv, E!TypeOK
<1>5. E!SyncLiveWatch(e_items') /\ UNCHANGED e_demoBusy
  BY <1>2 DEF E!Answer, E!Return
<1>6. /\ e_forsaken' \in BOOLEAN
      /\ (e_forsaken' => e_forsaken /\ e_demoBusy) /\ (e_demoBusy => e_forsaken' = e_forsaken)
  BY <1>4
<1>7. e_live' \in BOOLEAN /\ e_timer' \in BOOLEAN /\ E!WatchedIffNeeded'
  BY <1>1, <1>5, <1>6, WatchSynced
<1>8. e_faults' \in 0..MaxFaults
  BY <1>1 DEF ListInv, E!TypeOK
<1>9. QED
  BY <1>1, <1>2, <1>3, <1>6, <1>7, <1>8, FilterCopied, ListEnds

LEMMA ListFailed == ASSUME ListInv, NEW l \in Calls, E!AnswerFails(l) PROVE ListInv'
<1>1. /\ ~e_closed /\ e_loads[l] # None /\ E!Return(l) /\ E!CopyFilter(e_loads[l].filter)
      /\ e_view' = "error"
      /\ UNCHANGED <<e_queue, e_items, e_closed, e_retries, e_demoBusy>>
  BY DEF E!AnswerFails, E!Return
<1>2. e_faults' \in 0..MaxFaults /\ e_items' \in [E!Received -> E!Statuses \cup {None}]
  BY <1>1, BoundsAssumption DEF E!AnswerFails, ListInv, E!TypeOK
<1>3. /\ e_forsaken \in BOOLEAN /\ e_demoBusy \in BOOLEAN
      /\ e_forsaken' = (e_forsaken /\ (e_demoBusy \/ e_loads[l].then # "sync"))
  BY DEF E!AnswerFails, ListInv, E!TypeOK
<1>4. e_live' \in BOOLEAN /\ e_timer' \in BOOLEAN /\ E!WatchedIffNeeded'
  <2>1. CASE e_loads[l].then = "sync"
    <3>1. (e_forsaken' => e_forsaken /\ e_demoBusy) /\ (e_demoBusy => e_forsaken' = e_forsaken)
      BY <1>3, <2>1
    <3>2. E!SyncLiveWatch(e_items')
      BY <1>1, <2>1 DEF E!AnswerFails
    <3>3. QED
      BY <1>1, <3>1, <3>2, WatchSynced
  <2>2. CASE e_loads[l].then # "sync"
    <3>1. e_forsaken' = e_forsaken
      BY <1>3, <2>2
    <3>2. e_live' = e_live /\ e_timer' = e_timer
      BY <2>2 DEF E!AnswerFails, E!watch
    <3>3. \A m \in Calls : e_loads[m] # None /\ e_loads[m].then = "sync" =>
            e_loads'[m] # None /\ e_loads'[m].then = "sync"
      BY <1>1, <2>2, Returned
    <3>4. E!Needed' <=> E!Needed
      BY <1>1 DEF E!Needed, E!HasActiveQueue
    <3>5. QED
      BY <1>1, <3>1, <3>2, <3>3, <3>4 DEF ListInv, E!TypeOK, E!WatchedIffNeeded
  <2>3. QED
    BY <2>1, <2>2
<1>5. e_forsaken' \in BOOLEAN
  BY <1>3
<1>6. QED
  BY <1>1, <1>2, <1>4, <1>5, FilterCopied, ListEnds
\* The demo asks for the list and waits for it.
LEMMA ListWaits ==
  ASSUME ListInv, ~e_closed => ~\E m \in Calls : Waits(m), ~e_closed => e_demoBusy,
         NEW l \in Calls, NEW then \in {"wait", "check"},
         E!Ask(l, e_filter, then), E!Spinner, e_pc' = "loading",
         e_queue' \in [E!Received -> E!Statuses \cup {None}],
         e_created' \in E!Received \cup {None}, e_rounds' \in 0..MaxRounds,
         UNCHANGED <<e_items, e_filter, e_live, e_timer, e_demoBusy, e_left,
                     e_closed, e_forsaken, e_faults, e_retries>>
  PROVE  ListInv'
<1>1. /\ e_loads[l] = None /\ e_loads' \in [Calls -> E!Load \cup {None}]
      /\ e_loads'[l] # None /\ e_loads'[l].then = then
      /\ \A m \in Calls : m # l => e_loads'[m] = e_loads[m]
  BY Asked DEF ListInv, E!TypeOK, E!Followers
<1>2. e_view' \in {e_view, "loading"}
  BY DEF E!Spinner
<1>3. E!TypeOK'
  BY <1>1, <1>2 DEF ListInv, E!TypeOK
<1>4. E!WatchedIffNeeded'
  BY <1>1 DEF ListInv, E!WatchedIffNeeded, E!Needed, E!HasActiveQueue
<1>5. E!SpinnerHasReason' /\ DemoWaits'
  BY <1>1 DEF ListInv, E!SpinnerHasReason, DemoWaits, Waits
<1>6. QED
  BY <1>3, <1>4, <1>5 DEF ListInv

LEMMA Inserted ==
  ASSUME ListInv, NEW e \in E!Received, E!Insert(e)
  PROVE  e_queue' \in [E!Received -> E!Statuses \cup {None}]
  BY DEF E!Insert, ListInv, E!TypeOK, E!Statuses

LEMMA DemoStarts == ASSUME ListInv, E!RunGuidedDemo PROVE ListInv'
<1>1. /\ ~e_closed /\ ~e_closed' /\ ~e_demoBusy /\ e_left' \in Nat /\ e_left' > 0
      /\ e_demoBusy' = TRUE /\ e_pc' = "simulating" /\ e_live' = TRUE /\ e_timer' = TRUE
      /\ UNCHANGED <<e_queue, e_view, e_items, e_filter, e_created, e_rounds,
                     e_loads, e_closed, e_forsaken, e_faults, e_retries>>
  BY ListAssumption DEF E!RunGuidedDemo, E!StartLiveWatch, E!shown, E!bounds
<1>2. E!TypeOK'
  BY <1>1 DEF ListInv, E!TypeOK
<1>3. E!WatchedIffNeeded' /\ E!SpinnerHasReason'
  BY <1>1 DEF ListInv, E!WatchedIffNeeded, E!Needed, E!SpinnerHasReason
<1>4. e_pc = "none"
  BY <1>1 DEF ListInv, E!TypeOK
<1>5. DemoWaits'
  BY <1>1, <1>4 DEF ListInv, DemoWaits, Waits
<1>6. QED
  BY <1>2, <1>3, <1>5 DEF ListInv

LEMMA DemoSimulates == ASSUME ListInv, NEW l \in Calls, NEW e \in E!Received, E!Simulate(l, e) PROVE ListInv'
<1>1. /\ ~e_closed /\ e_pc = "simulating" /\ e_pc' = "loading"
      /\ E!Ask(l, e_filter, "wait") /\ E!Spinner
      /\ e_created' = e /\ e_rounds' = 0
      /\ UNCHANGED <<e_items, e_filter, e_live, e_timer, e_demoBusy, e_left,
                     e_closed, e_forsaken, e_faults, e_retries>>
  BY DEF E!Simulate, E!watch, E!bounds
<1>2. e_queue' \in [E!Received -> E!Statuses \cup {None}]
  BY Inserted DEF E!Simulate, E!Inject
<1>3. e_demoBusy /\ ~\E m \in Calls : Waits(m)
  BY <1>1 DEF ListInv, E!TypeOK, DemoWaits
<1>4. e_rounds' \in 0..MaxRounds
  BY <1>1, ListAssumption
<1>5. QED
  BY <1>1, <1>2, <1>3, <1>4, ListWaits

LEMMA DemoPolls == ASSUME ListInv, NEW l \in Calls, E!Poll(l) PROVE ListInv'
<1>1. /\ e_pc = "delaying" /\ e_pc' = "loading"
      /\ E!Ask(l, e_filter, "check") /\ E!Spinner
      /\ UNCHANGED <<e_queue, e_items, e_filter, e_live, e_timer, e_demoBusy, e_left, e_created,
                     e_closed, e_forsaken, e_faults, e_retries>>
  BY DEF E!Poll, E!watch, E!bounds
<1>2. e_queue' \in [E!Received -> E!Statuses \cup {None}] /\ e_created' \in E!Received \cup {None}
  BY <1>1 DEF ListInv, E!TypeOK
<1>3. (~e_closed => e_demoBusy) /\ (~e_closed => ~\E m \in Calls : Waits(m))
  BY <1>1 DEF ListInv, E!TypeOK, DemoWaits
<1>4. e_rounds' \in 0..MaxRounds
  BY ListAssumption DEF E!Poll, ListInv, E!TypeOK
<1>5. QED
  BY <1>1, <1>2, <1>3, <1>4, ListWaits

LEMMA DemoFails == ASSUME ListInv, E!SimulateFails PROVE ListInv'
<1>1. /\ ~e_closed /\ ~e_closed' /\ e_pc = "simulating" /\ e_pc' = "none" /\ e_left' = 0
      /\ e_demoBusy' = FALSE /\ e_live' = FALSE /\ e_timer' = FALSE /\ e_forsaken' = TRUE
      /\ UNCHANGED <<e_view, e_items, e_filter, e_created, e_rounds, e_loads, e_closed, e_retries>>
  BY DEF E!SimulateFails, E!StopLiveWatch, E!shown
<1>2. e_queue' \in [E!Received -> E!Statuses \cup {None}]
  <2>1. CASE UNCHANGED e_queue
    BY <2>1 DEF ListInv, E!TypeOK
  <2>2. QED
    BY <2>1, Inserted DEF E!SimulateFails, E!Inject
<1>3. e_faults' \in 0..MaxFaults
  BY BoundsAssumption DEF E!SimulateFails, ListInv, E!TypeOK
<1>4. E!TypeOK'
  <2>1. e_left' \in Nat /\ ~(e_left' > 0)
    BY <1>1
  <2>2. QED
    BY <1>1, <1>2, <1>3, <2>1 DEF ListInv, E!TypeOK
<1>5. E!WatchedIffNeeded' /\ E!SpinnerHasReason'
  BY <1>1 DEF ListInv, E!WatchedIffNeeded, E!SpinnerHasReason
<1>6. DemoWaits'
  BY <1>1 DEF ListInv, DemoWaits, Waits
<1>7. QED
  BY <1>4, <1>5, <1>6 DEF ListInv

\* The next event, another look at this one, or the demo's last load.
LEMMA DemoGoesOn == ASSUME ListInv, NEW l \in Calls, E!Check(l) PROVE ListInv'
<1>1. /\ ~e_closed /\ ~e_closed' /\ e_pc = "checking" /\ e_demoBusy /\ e_left \in Nat /\ e_left > 0
      /\ \A m \in Calls : ~Waits(m)
      /\ UNCHANGED <<e_queue, e_items, e_filter, e_live, e_timer, e_closed, e_forsaken,
                     e_faults, e_retries>>
  BY DEF E!Check, E!watch, E!bounds, ListInv, E!TypeOK, DemoWaits
<1>2. CASE e_left > 1 /\ E!Proceed(l) /\ e_created' = None /\ e_rounds' = 0
  <2>1. /\ e_pc' = "simulating" /\ e_left' = e_left - 1
        /\ UNCHANGED <<e_demoBusy, e_view, e_loads>>
    BY <1>2 DEF E!Proceed
  <2>2. e_left' \in Nat /\ e_left' > 0 /\ e_rounds' \in 0..MaxRounds
    BY <1>1, <1>2, <2>1, ListAssumption
  <2>3. E!TypeOK'
    BY <1>1, <1>2, <2>1, <2>2 DEF ListInv, E!TypeOK
  <2>4. E!WatchedIffNeeded' /\ E!SpinnerHasReason' /\ DemoWaits'
    BY <1>1, <2>1 DEF ListInv, E!WatchedIffNeeded, E!Needed, E!HasActiveQueue,
         E!SpinnerHasReason, DemoWaits, Waits
  <2>5. QED
    BY <2>3, <2>4 DEF ListInv
<1>3. CASE ~(e_left > 1) /\ E!Proceed(l) /\ e_created' = None /\ e_rounds' = 0
  <2>1. /\ e_pc' = "none" /\ e_left' = 0 /\ e_demoBusy' = FALSE
        /\ E!Ask(l, e_filter, "sync") /\ e_view' \in {e_view, "loading"}
    BY <1>3 DEF E!Proceed
  <2>2. /\ e_loads[l] = None /\ e_loads' \in [Calls -> E!Load \cup {None}]
        /\ e_loads'[l] # None /\ e_loads'[l].then = "sync"
        /\ \A m \in Calls : m # l => e_loads'[m] = e_loads[m]
    BY <2>1, Asked DEF ListInv, E!TypeOK, E!Followers
  <2>3. e_rounds' \in 0..MaxRounds /\ e_left' \in Nat /\ ~(e_left' > 0)
    BY <1>3, <2>1, ListAssumption
  <2>4. E!TypeOK'
    BY <1>1, <1>3, <2>1, <2>2, <2>3 DEF ListInv, E!TypeOK
  <2>5. E!WatchedIffNeeded'
    BY <1>1, <2>1, <2>2 DEF ListInv, E!WatchedIffNeeded, E!Needed, E!HasActiveQueue
  <2>6. E!SpinnerHasReason' /\ DemoWaits'
    BY <1>1, <2>2 DEF ListInv, E!SpinnerHasReason, DemoWaits, Waits
  <2>7. QED
    BY <2>4, <2>5, <2>6 DEF ListInv
<1>4. CASE /\ e_pc' = "delaying"
           /\ UNCHANGED <<e_demoBusy, e_left, e_created, e_rounds, e_view, e_loads>>
  <2>1. E!TypeOK'
    BY <1>1, <1>4 DEF ListInv, E!TypeOK
  <2>2. E!WatchedIffNeeded' /\ E!SpinnerHasReason' /\ DemoWaits'
    BY <1>1, <1>4 DEF ListInv, E!WatchedIffNeeded, E!Needed, E!HasActiveQueue,
         E!SpinnerHasReason, DemoWaits, Waits
  <2>3. QED
    BY <2>1, <2>2 DEF ListInv
<1>5. QED
  BY <1>2, <1>3, <1>4 DEF E!Check

\* What happens to a screen that has been left, or is being left.
LEMMA ListLeft ==
  ASSUME ListInv, e_closed', e_closed' \in BOOLEAN,
         UNCHANGED <<e_queue, e_view, e_items, e_filter, e_live, e_demoBusy, e_left, e_created,
                     e_rounds, e_forsaken, e_faults, e_retries>>,
         e_timer' \in {e_timer, FALSE}, e_pc' \in {e_pc, "none"},
         e_loads' \in [Calls -> E!Load \cup {None}]
  PROVE  ListInv'
<1>1. E!TypeOK'
  BY DEF ListInv, E!TypeOK
<1>2. E!WatchedIffNeeded' /\ E!SpinnerHasReason' /\ DemoWaits'
  BY DEF E!WatchedIffNeeded, E!SpinnerHasReason, DemoWaits
<1>3. QED
  BY <1>1, <1>2 DEF ListInv

LEMMA ListStep == ListInv /\ [E!Next]_(E!vars) => ListInv'
<1>1. SUFFICES ASSUME ListInv, [E!Next]_(E!vars) PROVE ListInv'
  OBVIOUS
<1> USE DEF E!shown, E!watch, E!demo, E!bounds
<1>2. ASSUME NEW e \in E!Received, E!Arrive(e) \/ E!Work(e) \/ E!Retry(e) PROVE ListInv'
  <2>1. e_queue' \in [E!Received -> E!Statuses \cup {None}]
    <3>1. CASE E!Arrive(e)
      BY <1>1, <3>1, Inserted DEF E!Arrive
    <3>2. CASE E!Work(e)
      BY <1>1, <3>2, ListAssumption DEF E!Work, ListInv, E!TypeOK, E!Statuses
    <3>3. CASE E!Retry(e)
      BY <1>1, <3>3 DEF E!Retry, ListInv, E!TypeOK, E!Statuses
    <3>4. QED
      BY <1>2, <3>1, <3>2, <3>3
  <2>2. e_retries' \in 0..MaxListReclaims
    BY <1>1, <1>2, ListAssumption DEF E!Arrive, E!Work, E!Retry, ListInv, E!TypeOK
  <2>3. UNCHANGED <<e_view, e_items, e_filter, e_live, e_timer, e_demoBusy, e_pc, e_left,
                    e_created, e_rounds, e_closed, e_forsaken, e_faults, e_loads>>
    BY <1>2 DEF E!Arrive, E!Work, E!Retry
  <2>4. e_loads' \in [Calls -> E!Load \cup {None}]
    BY <1>1, <2>3 DEF ListInv, E!TypeOK
  <2>5. QED
    BY <1>1, <2>1, <2>2, <2>3, <2>4, ListQueue
<1>3. ASSUME NEW l \in Calls, E!List(l) PROVE ListInv'
  <2> DEFINE k == [e_loads[l] EXCEPT !.place = "answered", !.rows = E!ListForUser(e_loads[l].filter)]
  <2>1. e_loads[l] # None /\ e_loads[l] \in E!Load /\ e_loads' = [e_loads EXCEPT ![l] = k]
    BY <1>1, <1>3 DEF E!List, ListInv, E!TypeOK
  <2>2. E!ListForUser(e_loads[l].filter) \in [E!Received -> E!Statuses \cup {None}]
    BY <1>1 DEF E!ListForUser, ListInv, E!TypeOK
  <2>3. k \in E!Load /\ k # None /\ k.then = e_loads[l].then
    BY <2>1, <2>2, NothingAssumption DEF E!Load
  <2> HIDE DEF k
  <2>4. /\ e_loads' \in [Calls -> E!Load \cup {None}]
        /\ \A m \in Calls : /\ e_loads'[m] = None <=> e_loads[m] = None
                            /\ e_loads[m] # None => e_loads'[m].then = e_loads[m].then
    BY <1>1, <2>1, <2>3 DEF ListInv, E!TypeOK
  <2>5. UNCHANGED <<e_queue, e_retries, e_view, e_items, e_filter, e_live, e_timer, e_demoBusy, e_pc,
                    e_left, e_created, e_rounds, e_closed, e_forsaken, e_faults>>
    BY <1>3 DEF E!List
  <2>6. e_queue' \in [E!Received -> E!Statuses \cup {None}] /\ e_retries' \in 0..MaxListReclaims
    BY <1>1, <2>5 DEF ListInv, E!TypeOK
  <2>7. QED
    BY <1>1, <2>4, <2>5, <2>6, ListQueue
<1>4. ASSUME NEW l \in Calls, E!Refresh(l) \/ E!Tick(l) PROVE ListInv'
  <2>1. e_filter \in E!Statuses \cup {None}
    BY <1>1 DEF ListInv, E!TypeOK
  <2>2. QED
    BY <1>1, <1>4, <2>1, ListLoads DEF E!Refresh, E!Tick
<1>5. ASSUME NEW l \in Calls, NEW f \in Picks, E!SetFilter(l, f) PROVE ListInv'
  BY <1>1, <1>5, ListAssumption, ListLoads DEF E!SetFilter
<1>6. ASSUME NEW l \in Calls, E!AnswerClosed(l) PROVE ListInv'
  <2>1. /\ e_closed' /\ e_closed' \in BOOLEAN /\ e_pc' \in {e_pc, "none"}
        /\ e_loads' \in [Calls -> E!Load \cup {None}]
    BY <1>1, <1>6 DEF E!AnswerClosed, ListInv, E!TypeOK
  <2>2. QED
    BY <1>1, <1>6, <2>1, ListLeft DEF E!AnswerClosed
<1>7. CASE E!Close \/ E!DemoClosed
  <2>1. /\ e_closed' /\ e_closed' \in BOOLEAN /\ e_pc' \in {e_pc, "none"} /\ e_timer' \in {e_timer, FALSE}
        /\ e_loads' \in [Calls -> E!Load \cup {None}]
    BY <1>1, <1>7 DEF E!Close, E!DemoClosed, ListInv, E!TypeOK
  <2>2. QED
    BY <1>1, <1>7, <2>1, ListLeft DEF E!Close, E!DemoClosed
<1>8. CASE UNCHANGED E!vars
  <2>1. UNCHANGED <<e_queue, e_retries, e_view, e_items, e_filter, e_live, e_timer, e_demoBusy, e_pc,
                    e_left, e_created, e_rounds, e_closed, e_forsaken, e_faults, e_loads>>
    BY <1>8 DEF E!vars
  <2>2. /\ e_queue' \in [E!Received -> E!Statuses \cup {None}] /\ e_retries' \in 0..MaxListReclaims
        /\ e_loads' \in [Calls -> E!Load \cup {None}]
    BY <1>1, <2>1 DEF ListInv, E!TypeOK
  <2>3. QED
    BY <1>1, <2>1, <2>2, ListQueue
<1>9. ASSUME NEW l \in Calls, E!LoadStep(l) PROVE ListInv'
  BY <1>1, <1>3, <1>6, <1>9, ListAnswered, ListFailed DEF E!LoadStep
<1>10. CASE E!DemoStep
  BY <1>1, <1>7, <1>10, DemoSimulates, DemoPolls, DemoGoesOn, DemoFails DEF E!DemoStep
<1>11. QED
  BY <1>1, <1>2, <1>4, <1>5, <1>7, <1>8, <1>9, <1>10, DemoStarts DEF E!Next

LEMMA ListHolds == E!Spec => []ListInv
  BY ListInit, ListStep, PTL DEF E!Spec

\* The list is polled exactly as long as something in it may change, unless a
\* demo has just failed, and its fields agree with each other (EventsCubit).
THEOREM ListWatched == E!Spec => []WatchedIffNeeded
<1>1. ListInv => WatchedIffNeeded
  BY DEF ListInv, WatchedIffNeeded
<1>2. QED
  BY <1>1, ListHolds, PTL

(***************************************************************************)
(* The spinners                                                            *)
(***************************************************************************)
\* No spinner and no busy form is left behind on the events list, the rules and
\* the explain screen (EventsCubit, RulesCubit, ExplainCubit).
THEOREM NoSpinnerStuck == E!Spec /\ R!Spec /\ Spec => []NothingStuck
<1>1. ListInv /\ RulesInv /\ ExplainNotStuck => NothingStuck
  BY DEF ListInv, RulesInv, NothingStuck
<1>2. QED
  BY <1>1, ListHolds, RulesHold, ExplainEnds, PTL
===============================================================================
