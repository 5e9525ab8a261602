-------------------------- MODULE MobileSessionProofs -------------------------
(***************************************************************************)
(* Theorems about MobileSession, for every number of calls and sessions    *)
(* and all bounds of the environment.                                      *)
(***************************************************************************)
EXTENDS MobileSession, TLAPS

\* A call has the pair it works with, and each kind of call its places.
Fits(place, k, q) ==
    /\ place \in {"exchanging", "saving", "halfSaved", "storing", "halfStored"} => q \in Pair
    /\ place = "restoring" => k = "restore"
    /\ k = "login" => place \in {"reading", "sent", "storing", "halfStored"}
    /\ place \in {"storing", "halfStored"} => k = "login"
    /\ k \in {"logout", "forget"} => place \in {"clearing", "halfCleared"}

\* TypeOK of the variables of the calls, with what they work on.
CallsOK ==
    /\ pc \in [Calls -> Places]
    /\ kind \in [Calls -> Kinds \cup {None}]
    /\ tok \in [Calls -> Pair \cup {None}]
    /\ refused \in [Calls -> Pair \cup {None}]
    /\ pair \in [Calls -> Pair \cup {None}]
    /\ \A c \in Calls : (pc[c] = "idle" <=> kind[c] = None) /\ Fits(pc[c], kind[c], pair[c])

RestOK ==
    /\ access \in Pair \cup {None} /\ refresh \in Pair \cup {None}
    /\ status \in {"unknown", "in", "out"}
    /\ user \in Sessions \cup {None}
    /\ busy \in BOOLEAN /\ late \in BOOLEAN
    /\ refreshing \in BOOLEAN /\ disturbed \in BOOLEAN /\ overlapped \in BOOLEAN
    /\ gen \in [Sessions -> Nat \cup {-1}]
    /\ fresh \in [Sessions -> Nat]
    /\ ended \in SUBSET Sessions
    /\ expiries \in 0..MaxExpiries /\ faults \in 0..MaxFaults /\ kills \in 0..MaxKills
    /\ mistakes \in 0..MaxMistakes

Typed == CallsOK /\ RestOK

LEMMA TypedIsTypeOK == Typed => TypeOK
BY DEF Typed, CallsOK, RestOK, TypeOK

LEMMA Constants ==
    /\ None \notin Sessions /\ None \notin Pair /\ None \notin Kinds
    /\ MaxExpiries \in Nat /\ MaxFaults \in Nat /\ MaxKills \in Nat /\ MaxMistakes \in Nat
BY NoneAssumption, KindsAssumption, BoundsAssumption DEF Pair

LEMMA PairFields == \A p \in Pair : p.s \in Sessions /\ p.g \in Nat
BY DEF Pair

LEMMA Members ==
    /\ "idle" \in Places /\ "restoring" \in Places /\ "reading" \in Places /\ "sent" \in Places
    /\ "waiting" \in Places /\ "rereading" \in Places /\ "resending" \in Places
    /\ "resent" \in Places /\ "loading" \in Places /\ "exchanging" \in Places
    /\ "saving" \in Places /\ "halfSaved" \in Places /\ "storing" \in Places
    /\ "halfStored" \in Places /\ "clearing" \in Places /\ "halfCleared" \in Places
    /\ "data" \in Kinds /\ "login" \in Kinds /\ "mistyped" \in Kinds /\ "me" \in Kinds
    /\ "restore" \in Kinds /\ "forget" \in Kinds /\ "logout" \in Kinds
BY DEF Places, RefreshPlaces, WritePlaces, Kinds

\* The bounds and the history of the environment stay in their types.
LEMMA FaultOK ==
    ASSUME RestOK, Fault PROVE faults' \in 0..MaxFaults /\ disturbed' = TRUE /\ overlapped' = overlapped
<1>1. faults' \in 0..MaxFaults
  BY Constants DEF RestOK, Fault
<1>2. disturbed' = TRUE /\ overlapped' = overlapped
  BY Zenon DEF Fault, Disturb
<1> QED
  BY <1>1, <1>2

LEMMA DisturbOK == ASSUME NEW cond, Disturb(cond) PROVE disturbed' \in BOOLEAN
BY DEF Disturb

LEMMA Zeroes == 0 \in 0..MaxExpiries /\ 0 \in 0..MaxFaults /\ 0 \in 0..MaxKills /\ 0 \in 0..MaxMistakes
BY Constants

LEMMA InitTyped == Init => Typed
<1> SUFFICES ASSUME Init PROVE Typed
  OBVIOUS
<1>1. [s : Sessions, g : {0}] \subseteq Pair
  BY DEF Pair
<1>2. RestOK
  <2>1. access \in Pair \cup {None} /\ refresh \in Pair \cup {None}
    BY <1>1 DEF Init
  <2>2. gen \in [Sessions -> Nat \cup {-1}] /\ fresh \in [Sessions -> Nat] /\ ended \in SUBSET Sessions
    BY DEF Init
  <2> QED
    BY <2>1, <2>2, Zeroes DEF Init, RestOK
<1>3. PICK c \in Calls : Started(c, pc, kind)
  BY DEF Init
<1>4. pc \in [Calls -> Places] /\ kind \in [Calls -> Kinds \cup {None}]
  BY <1>3, Members DEF Started
<1>5. \A d \in Calls : (pc[d] = "idle" <=> kind[d] = None) /\ Fits(pc[d], kind[d], pair[d])
  BY <1>3, Constants, Members DEF Started, Fits
<1>6. CallsOK
  BY <1>4, <1>5 DEF Init, CallsOK
<1> QED
  BY <1>2, <1>6 DEF Typed

\* How a call goes on keeps the variables of the calls in their types.
LEMMA GotoOK ==
    ASSUME CallsOK, NEW c \in Calls, NEW place \in Places, Goto(c, place),
           UNCHANGED <<kind, tok, refused, pair>>,
           place # "idle", pc[c] # "idle", Fits(place, kind[c], pair[c])
    PROVE  CallsOK'
BY DEF CallsOK, Goto

LEMMA EndOK == ASSUME CallsOK, NEW c \in Calls, End(c) PROVE CallsOK'
<1>1. \A d \in Calls \ {c} : pc'[d] = pc[d] /\ kind'[d] = kind[d] /\ pair'[d] = pair[d]
  BY DEF CallsOK, End, Goto
<1>2. pc'[c] = "idle" /\ kind'[c] = None
  BY DEF CallsOK, End, Goto
<1>3. Fits("idle", None, pair'[c])
  BY Constants, Members DEF Fits
<1>4. /\ pc' \in [Calls -> Places] /\ kind' \in [Calls -> Kinds \cup {None}]
      /\ tok' \in [Calls -> Pair \cup {None}] /\ refused' \in [Calls -> Pair \cup {None}]
      /\ pair' \in [Calls -> Pair \cup {None}]
  BY Members DEF CallsOK, End, Goto
<1> QED
  BY <1>1, <1>2, <1>3, <1>4 DEF CallsOK

LEMMA ForgetOK ==
    ASSUME CallsOK, NEW c \in Calls, Forget(c), pc[c] # "idle" PROVE CallsOK'
BY Members, Constants DEF CallsOK, Forget, Goto, Fits

LEMMA BeginOK ==
    ASSUME CallsOK, NEW c \in Calls, NEW k \in Kinds, NEW place \in Places \ {"idle"},
           Begin(c, k, place), Fits(place, k, None), Fits(place, k, pair[c])
    PROVE  CallsOK'
BY Constants DEF CallsOK, Begin, Goto

\* The pair of the refresher does not change when the gate opens.
LEMMA OpenOK ==
    ASSUME CallsOK, NEW c \in Calls, NEW place \in {"clearing", "rereading"}, Open(c, place),
           pc[c] \in RefreshPlaces, UNCHANGED <<kind, tok, refused>>,
           pair' \in [Calls -> Pair \cup {None}],
           \A d \in Calls \ {c} : pair'[d] = pair[d]
    PROVE  CallsOK'
<1>1. \A d \in Calls : pc'[d] # pc[d] => kind[d] \notin {"login", "logout", "forget"}
                       /\ pc[d] # "idle" /\ pc'[d] = place
  BY DEF CallsOK, Open, Fits, RefreshPlaces
<1>2. pc' \in [Calls -> Places]
  BY Members DEF CallsOK, Open
<1> QED
  BY <1>1, <1>2, Constants DEF CallsOK, Open, Fits

LEMMA NextTyped == Typed /\ [Next]_vars => Typed'
<1> SUFFICES ASSUME Typed, [Next]_vars PROVE Typed'
  OBVIOUS
<1> USE DEF Typed, storage, screen, calls, server, history, bounds
<1>1. ASSUME NEW c \in Calls, Request(c) PROVE Typed'
  <2>1. CallsOK'
    BY <1>1, BeginOK, Members DEF Request, Fits
  <2>2. RestOK'
    BY <1>1 DEF Request, Begin, Disturb, RestOK
  <2> QED
    BY <2>1, <2>2
<1>2. ASSUME NEW c \in Calls, Login(c) PROVE Typed'
  <2>1. CallsOK'
    BY <1>2, BeginOK, Members DEF Login, Fits
  <2>2. RestOK'
    BY <1>2, Constants DEF Login, Begin, Overlap, RestOK
  <2> QED
    BY <2>1, <2>2
<1>3. ASSUME NEW c \in Calls, Logout(c) PROVE Typed'
  <2>1. CallsOK'
    BY <1>3, BeginOK, Members DEF Logout, Fits
  <2>2. RestOK'
    BY <1>3 DEF Logout, Begin, Disturb, RestOK
  <2> QED
    BY <2>1, <2>2
<1>4. ASSUME NEW c \in Calls, Restore(c) PROVE Typed'
  <2>1. CallsOK'
    <3>1. kind[c] = "restore"
      BY <1>4 DEF Restore, CallsOK, Fits
    <3> QED
      BY <1>4, <3>1, EndOK, GotoOK, Members DEF Restore, Fits
  <2>2. RestOK'
    BY <1>4 DEF Restore, BootstrapOut, ShowOut, RestOK
  <2> QED
    BY <2>1, <2>2
<1>5. ASSUME NEW c \in Calls, Send(c) PROVE Typed'
  BY <1>5, Members DEF Send, Goto, CallsOK, RestOK, Fits
<1>6. ASSUME NEW c \in Calls, Accept(c) PROVE Typed'
  <2>1. CallsOK'
    BY <1>6, EndOK DEF Accept
  <2>2. RestOK'
    BY <1>6, PairFields DEF Accept, Valid, ShowIn, RestOK, CallsOK
  <2> QED
    BY <2>1, <2>2
<1>7. ASSUME NEW c \in Calls, LoginAccepted(c) PROVE Typed'
  <2>1. PICK s \in Sessions : gen[s] = -1 /\ gen' = [gen EXCEPT ![s] = 0]
                              /\ pair' = [pair EXCEPT ![c] = [s |-> s, g |-> 0]]
    BY <1>7 DEF LoginAccepted
  <2>2. [s |-> s, g |-> 0] \in Pair
    BY DEF Pair
  <2>3. CallsOK'
    BY <1>7, <2>1, <2>2, Members DEF LoginAccepted, Goto, CallsOK, Fits
  <2>4. RestOK'
    BY <1>7, <2>1 DEF LoginAccepted, RestOK
  <2> QED
    BY <2>3, <2>4
<1>8. ASSUME NEW c \in Calls, Refuse(c) PROVE Typed'
  <2>1. pc[c] = "sent" /\ kind[c] # "login"
    BY <1>8 DEF Refuse, Unauthorized
  <2>2. PICK place \in {"waiting", "loading"} : Goto(c, place)
    BY <1>8 DEF Refuse
  <2>3. CallsOK'
    BY <1>8, <2>1, <2>2, Members DEF Refuse, Goto, CallsOK, Fits
  <2>4. RestOK'
    BY <1>8 DEF Refuse, RestOK
  <2> QED
    BY <2>3, <2>4
<1>9. ASSUME NEW c \in Calls, AnswerFails(c) PROVE Typed'
  <2>1. CallsOK'
    BY <1>9, EndOK, ForgetOK DEF AnswerFails, Throw
  <2>2. RestOK'
    BY <1>9, FaultOK DEF AnswerFails, Throw, LoginFailed, RestOK
  <2> QED
    BY <2>1, <2>2
<1>10. ASSUME NEW c \in Calls, RetryRefused(c) PROVE Typed'
  <2>1. kind[c] # "login"
    BY <1>10 DEF RetryRefused, CallsOK, Fits
  <2>2. CallsOK'
    BY <1>10, <2>1, GotoOK, Members DEF RetryRefused, CallsOK, Fits
  <2>3. RestOK'
    BY <1>10, FaultOK DEF RetryRefused, RestOK
  <2> QED
    BY <2>2, <2>3
<1>11. ASSUME NEW c \in Calls, Load(c) PROVE Typed'
  <2>1. RestOK'
    BY <1>11 DEF Load, Open, RestOK
  <2>2. /\ pair' \in [Calls -> Pair \cup {None}] /\ \A d \in Calls \ {c} : pair'[d] = pair[d]
        /\ pair'[c] = refresh /\ kind[c] # "login" /\ pc[c] \in RefreshPlaces
    BY <1>11 DEF Load, CallsOK, RestOK, Fits, RefreshPlaces
  <2>3. CASE refresh = None
    <3>1. Open(c, "clearing")
      BY <1>11, <2>3 DEF Load
    <3>2. UNCHANGED <<kind, tok, refused>>
      BY <1>11 DEF Load
    <3> QED
      BY <2>1, <2>2, <3>1, <3>2, OpenOK
  <2>4. CASE refresh # None
    BY <1>11, <2>2, <2>4, Members DEF Load, Goto, CallsOK, RestOK, Fits
  <2> QED
    BY <2>1, <2>3, <2>4
<1>12. ASSUME NEW c \in Calls, Exchange(c) PROVE Typed'
  <2>1. pair[c] \in Pair /\ kind[c] # "login" /\ pc[c] \in RefreshPlaces
    BY <1>12 DEF Exchange, CallsOK, Fits, RefreshPlaces
  <2>2. [pair[c] EXCEPT !.g = @ + 1] \in Pair
    BY <2>1 DEF Pair
  <2>3. gen[pair[c].s] + 1 \in Nat \cup {-1}
    BY <2>1, PairFields DEF RestOK
  <2>4. RestOK'
    BY <1>12, <2>3 DEF Exchange, Open, RestOK
  <2>5. CASE Live(pair[c])
    <3>1. pc' = [pc EXCEPT ![c] = "saving"] /\ kind' = kind /\ tok' = tok /\ refused' = refused
      BY <1>12, <2>5 DEF Exchange, Goto
    <3>2. pair' = [pair EXCEPT ![c] = [pair[c] EXCEPT !.g = @ + 1]]
      BY <1>12, <2>5 DEF Exchange
    <3>3. /\ pair' \in [Calls -> Pair \cup {None}] /\ pair'[c] \in Pair
          /\ \A d \in Calls \ {c} : pair'[d] = pair[d]
      BY <3>2, <2>2 DEF CallsOK
    <3>4. \A d \in Calls : (pc'[d] = "idle" <=> kind'[d] = None) /\ Fits(pc'[d], kind'[d], pair'[d])
      BY <2>1, <3>1, <3>3 DEF CallsOK, Fits, RefreshPlaces
    <3> QED
      BY <2>4, <3>1, <3>3, <3>4, Members DEF CallsOK
  <2>6. CASE ~Live(pair[c])
    <3>1. Open(c, "clearing") /\ UNCHANGED <<kind, tok, refused, pair>>
      BY <1>12, <2>6 DEF Exchange
    <3> QED
      BY <2>1, <2>4, <3>1, OpenOK DEF CallsOK
  <2> QED
    BY <2>4, <2>5, <2>6
<1>13. ASSUME NEW c \in Calls, RefreshFails(c) PROVE Typed'
  <2>1. CallsOK'
    BY <1>13, OpenOK DEF RefreshFails, CallsOK
  <2>2. gen' \in [Sessions -> Nat \cup {-1}]
    BY <1>13, PairFields DEF RefreshFails, RestOK, CallsOK, Fits
  <2>3. RestOK'
    BY <1>13, <2>2, FaultOK DEF RefreshFails, Open, RestOK
  <2> QED
    BY <2>1, <2>3
<1>14. ASSUME NEW c \in Calls, WriteAccess(c) PROVE Typed'
  <2>1. CallsOK'
    BY <1>14, GotoOK, Members DEF WriteAccess, CallsOK, Fits
  <2>2. RestOK'
    BY <1>14 DEF WriteAccess, CallsOK, RestOK, Fits
  <2> QED
    BY <2>1, <2>2
<1>15. ASSUME NEW c \in Calls, WriteRefresh(c) PROVE Typed'
  <2>1. RestOK'
    BY <1>15 DEF WriteRefresh, Saved, Open, CallsOK, RestOK
  <2>2. CASE pc[c] = "halfSaved"
    <3>1. Open(c, "rereading") /\ UNCHANGED <<kind, tok, refused, pair>>
      BY <1>15, <2>2 DEF WriteRefresh, Saved
    <3> QED
      BY <2>1, <2>2, <3>1, OpenOK DEF CallsOK, RefreshPlaces
  <2>3. CASE pc[c] = "halfStored"
    <3>1. /\ Goto(c, "reading") /\ kind' = [kind EXCEPT ![c] = "me"]
          /\ tok' = [tok EXCEPT ![c] = None] /\ refused' = [refused EXCEPT ![c] = None]
          /\ pair' = [pair EXCEPT ![c] = None]
      BY <1>15, <2>3 DEF WriteRefresh, Saved
    <3> QED
      BY <2>1, <3>1, Members, Constants DEF Goto, CallsOK, Fits
  <2> QED
    BY <1>15, <2>1, <2>2, <2>3 DEF WriteRefresh, Saved
<1>16. ASSUME NEW c \in Calls, Reread(c) PROVE Typed'
  <2>1. RestOK'
    BY <1>16 DEF Reread, Expired, MarkLoggedOut, ExpiredLogin, ShowOut, RestOK
  <2>2. CASE access = None
    <3>1. Expired(c) /\ pc[c] # "idle"
      BY <1>16, <2>2 DEF Reread
    <3> QED
      BY <2>1, <3>1, EndOK, ForgetOK DEF Expired
  <2>3. CASE access # None
    BY <1>16, <2>3, Members DEF Reread, Goto, CallsOK, RestOK, Fits
  <2> QED
    BY <2>1, <2>2, <2>3
<1>17. ASSUME NEW c \in Calls, ClearAccess(c) PROVE Typed'
  <2>1. CallsOK'
    BY <1>17, GotoOK, Members DEF ClearAccess, CallsOK, Fits
  <2>2. RestOK'
    BY <1>17 DEF ClearAccess, RestOK
  <2> QED
    BY <2>1, <2>2
<1>18. ASSUME NEW c \in Calls, ClearRefresh(c) PROVE Typed'
  <2>1. CallsOK'
    BY <1>18, EndOK, ForgetOK DEF ClearRefresh, Expired
  <2>2. RestOK'
    BY <1>18 DEF ClearRefresh, Expired, MarkLoggedOut, ExpiredLogin, ShowOut, BootstrapOut, RestOK
  <2> QED
    BY <2>1, <2>2
<1>19. ASSUME NEW s \in Sessions, ExpireAccess(s) \/ EndSession(s) PROVE Typed'
  BY <1>19, Constants DEF ExpireAccess, EndSession, CallsOK, RestOK
<1>20. CASE Timeout
  BY <1>20 DEF Timeout, ShowOut, Disturb, CallsOK, RestOK
<1>21. CASE KillAndStart
  <2>1. RestOK'
    <3>1. kills' \in 0..MaxKills
      BY <1>21, Constants DEF KillAndStart, RestOK
    <3>2. disturbed' \in BOOLEAN
      BY <1>21, DisturbOK DEF KillAndStart
    <3> QED
      BY <1>21, <3>1, <3>2 DEF KillAndStart, Disturb, RestOK
  <2>2. PICK c \in Calls : Started(c, pc', kind')
    BY <1>21 DEF KillAndStart
  <2>3. pc' \in [Calls -> Places] /\ kind' \in [Calls -> Kinds \cup {None}]
    BY <2>2, Members DEF Started
  <2>4. \A d \in Calls : (pc'[d] = "idle" <=> kind'[d] = None) /\ Fits(pc'[d], kind'[d], pair'[d])
    BY <2>2, Constants, Members DEF Started, Fits
  <2>5. CallsOK'
    BY <1>21, <2>3, <2>4 DEF KillAndStart, CallsOK
  <2> QED
    BY <2>1, <2>5
<1>22. CASE UNCHANGED vars
  BY <1>22 DEF vars, CallsOK, RestOK
<1> QED
  BY <1>1, <1>2, <1>3, <1>4, <1>5, <1>6, <1>7, <1>8, <1>9, <1>10, <1>11, <1>12, <1>13, <1>14,
     <1>15, <1>16, <1>17, <1>18, <1>19, <1>20, <1>21, <1>22 DEF Next, CallStep

(***************************************************************************)
(* The gate                                                                *)
(***************************************************************************)
Gate == OneRefresh /\ NobodyStranded
GatePlaces == RefreshPlaces \cup {"waiting"}

\* A call that has nothing to do with the gate before and after its step.
LEMMA GateOutside ==
    ASSUME Typed, Gate, NEW c \in Calls, NEW place, Goto(c, place),
           pc[c] \notin GatePlaces, place \notin GatePlaces, refreshing' = refreshing
    PROVE  Gate'
<1>1. \A d \in Calls : pc'[d] = pc[d] \/ (pc[d] \notin GatePlaces /\ pc'[d] \notin GatePlaces)
  <2>1. \A d \in Calls : pc'[d] = IF d = c THEN place ELSE pc[d]
    BY DEF Typed, CallsOK, Goto
  <2> QED
    BY <2>1
<1>2. \A d \in Calls : /\ pc'[d] \in RefreshPlaces <=> pc[d] \in RefreshPlaces
                       /\ pc'[d] = "waiting" <=> pc[d] = "waiting"
  BY <1>1 DEF GatePlaces
<1> QED
  BY <1>2 DEF Gate, OneRefresh, NobodyStranded

\* The refresher goes on behind the gate.
LEMMA GateInside ==
    ASSUME Typed, Gate, NEW c \in Calls, NEW place, Goto(c, place),
           pc[c] \in RefreshPlaces, place \in RefreshPlaces, refreshing' = refreshing
    PROVE  Gate'
<1>1. \A d \in Calls : /\ pc'[d] \in RefreshPlaces <=> pc[d] \in RefreshPlaces
                       /\ pc'[d] = "waiting" => pc[d] = "waiting"
  BY DEF Typed, CallsOK, Goto, RefreshPlaces
<1> QED
  BY <1>1 DEF Gate, OneRefresh, NobodyStranded

\* The gate opens: nobody is behind it any more, and nobody waits.
LEMMA GateOpens ==
    ASSUME Typed, Gate, NEW c \in Calls, NEW place \in {"clearing", "rereading"},
           Open(c, place), pc[c] \in RefreshPlaces
    PROVE  Gate'
<1>1. \A d \in Calls : pc'[d] \notin RefreshPlaces /\ pc'[d] # "waiting"
  BY DEF Typed, CallsOK, Open, Gate, OneRefresh, RefreshPlaces
<1> QED
  BY <1>1 DEF Gate, OneRefresh, NobodyStranded, Open

LEMMA GateBegin ==
    ASSUME Typed, Gate, NEW c \in Calls, NEW k, NEW place \in {"reading", "clearing"},
           Begin(c, k, place)
    PROVE  Gate'
BY GateOutside DEF Begin, GatePlaces, RefreshPlaces

LEMMA NextGate == Typed /\ Gate /\ [Next]_vars => Gate'
<1> SUFFICES ASSUME Typed, Gate, [Next]_vars PROVE Gate'
  OBVIOUS
<1>1. ASSUME NEW c \in Calls, Request(c) \/ Login(c) \/ Logout(c) PROVE Gate'
  BY <1>1, GateBegin DEF Request, Login, Logout
<1>2. ASSUME NEW c \in Calls, Restore(c) \/ Send(c) \/ Accept(c) \/ LoginAccepted(c) PROVE Gate'
  BY <1>2, GateOutside DEF Restore, Send, Accept, LoginAccepted, End, GatePlaces, RefreshPlaces
<1>3. ASSUME NEW c \in Calls, Refuse(c) PROVE Gate'
  <2>1. \A d \in Calls : d # c => pc'[d] = pc[d]
    BY <1>3 DEF Refuse, Goto, Typed, CallsOK
  <2>2. CASE refreshing
    <3>1. pc'[c] = "waiting" /\ refreshing' = refreshing /\ pc[c] = "sent"
      BY <1>3, <2>2 DEF Refuse, Goto, Typed, CallsOK
    <3>2. \A d \in Calls : pc'[d] \in RefreshPlaces <=> pc[d] \in RefreshPlaces
      BY <2>1, <3>1 DEF RefreshPlaces
    <3> QED
      BY <2>2, <3>1, <3>2 DEF Gate, OneRefresh, NobodyStranded
  <2>3. CASE ~refreshing
    <3>1. pc'[c] = "loading" /\ refreshing' = TRUE
      BY <1>3, <2>3 DEF Refuse, Goto, Typed, CallsOK
    <3>2. \A d \in Calls : pc'[d] \in RefreshPlaces <=> d = c
      BY <2>1, <2>3, <3>1 DEF Gate, OneRefresh, RefreshPlaces
    <3> QED
      BY <3>1, <3>2 DEF Gate, OneRefresh, NobodyStranded
  <2> QED
    BY <2>2, <2>3
<1>4. ASSUME NEW c \in Calls, AnswerFails(c) \/ RetryRefused(c) PROVE Gate'
  BY <1>4, GateOutside DEF AnswerFails, RetryRefused, Throw, Forget, End, GatePlaces, RefreshPlaces
<1>5. ASSUME NEW c \in Calls, Load(c) \/ Exchange(c) \/ RefreshFails(c) PROVE Gate'
  BY <1>5, GateInside, GateOpens DEF Load, Exchange, RefreshFails, RefreshPlaces
<1>6. ASSUME NEW c \in Calls, WriteAccess(c) PROVE Gate'
  BY <1>6, GateInside, GateOutside DEF WriteAccess, GatePlaces, RefreshPlaces
<1>7. ASSUME NEW c \in Calls, WriteRefresh(c) PROVE Gate'
  BY <1>7, GateOpens, GateOutside DEF WriteRefresh, Saved, GatePlaces, RefreshPlaces
<1>8. ASSUME NEW c \in Calls, Reread(c) PROVE Gate'
  BY <1>8, GateOutside DEF Reread, Expired, Forget, End, GatePlaces, RefreshPlaces
<1>9. ASSUME NEW c \in Calls, ClearAccess(c) \/ ClearRefresh(c) PROVE Gate'
  BY <1>9, GateOutside DEF ClearAccess, ClearRefresh, Expired, Forget, End, GatePlaces, RefreshPlaces
<1>10. CASE KillAndStart
  BY <1>10 DEF KillAndStart, Started, Gate, OneRefresh, NobodyStranded, RefreshPlaces
<1>11. CASE UNCHANGED <<pc, refreshing>>
  BY <1>11 DEF Gate, OneRefresh, NobodyStranded
<1>12. ASSUME NEW s \in Sessions, ExpireAccess(s) \/ EndSession(s) PROVE Gate'
  BY <1>11, <1>12 DEF ExpireAccess, EndSession, calls
<1>13. CASE Timeout
  BY <1>11, <1>13 DEF Timeout, calls
<1>14. CASE UNCHANGED vars
  BY <1>11, <1>14 DEF vars, calls
<1> QED
  BY <1>1, <1>2, <1>3, <1>4, <1>5, <1>6, <1>7, <1>8, <1>9, <1>10, <1>12, <1>13, <1>14
  DEF Next, CallStep

(***************************************************************************)
(* What a step does to each call                                           *)
(***************************************************************************)
Same(d) == /\ pc'[d] = pc[d] /\ kind'[d] = kind[d] /\ tok'[d] = tok[d]
           /\ refused'[d] = refused[d] /\ pair'[d] = pair[d]
SameData(d) == /\ kind'[d] = kind[d] /\ tok'[d] = tok[d]
               /\ refused'[d] = refused[d] /\ pair'[d] = pair[d]

LEMMA EndEffect ==
    ASSUME CallsOK, NEW c \in Calls, End(c)
    PROVE  /\ pc'[c] = "idle" /\ kind'[c] = None
           /\ tok'[c] = None /\ refused'[c] = None /\ pair'[c] = None
           /\ \A d \in Calls \ {c} : Same(d)
BY DEF CallsOK, End, Goto, Same

LEMMA ForgetEffect ==
    ASSUME CallsOK, NEW c \in Calls, Forget(c)
    PROVE  /\ pc'[c] = "clearing" /\ kind'[c] = "forget"
           /\ tok'[c] = tok[c] /\ refused'[c] = refused[c] /\ pair'[c] = pair[c]
           /\ \A d \in Calls \ {c} : Same(d)
BY DEF CallsOK, Forget, Goto, Same

LEMMA GotoEffect ==
    ASSUME CallsOK, NEW c \in Calls, NEW place, Goto(c, place)
    PROVE  pc'[c] = place /\ \A d \in Calls \ {c} : pc'[d] = pc[d]
BY DEF CallsOK, Goto

LEMMA OpenEffect ==
    ASSUME CallsOK, NEW c \in Calls, NEW place, Open(c, place)
    PROVE  /\ pc'[c] = place
           /\ \A d \in Calls : pc'[d] = IF d = c \/ pc[d] = "waiting" THEN place ELSE pc[d]
BY DEF CallsOK, Open

LEMMA BeginEffect ==
    ASSUME CallsOK, NEW c \in Calls, NEW k, NEW place, Begin(c, k, place)
    PROVE  /\ pc[c] = "idle" /\ pc'[c] = place /\ kind[c] = None /\ kind'[c] = k
           /\ tok'[c] = tok[c] /\ refused'[c] = refused[c] /\ pair'[c] = pair[c]
           /\ \A d \in Calls \ {c} : Same(d)
BY DEF CallsOK, Begin, Goto, Same

\* The new pair of the exchange.
LEMMA ExchangeEffect ==
    ASSUME Typed, NEW c \in Calls, Exchange(c), Live(pair[c])
    PROVE  /\ pc'[c] = "saving" /\ pair[c] \in Pair /\ pair'[c] \in Pair
           /\ pair'[c].s = pair[c].s /\ pair'[c].g = pair[c].g + 1
           /\ gen'[pair[c].s] = gen[pair[c].s] + 1
           /\ \A s \in Sessions \ {pair[c].s} : gen'[s] = gen[s]
           /\ kind'[c] = kind[c] /\ tok'[c] = tok[c] /\ refused'[c] = refused[c]
           /\ \A d \in Calls \ {c} : Same(d)
<1> USE DEF Typed
<1>1. pair[c] \in Pair
  BY DEF Exchange, CallsOK, Fits
<1>2. pair' = [pair EXCEPT ![c] = [pair[c] EXCEPT !.g = @ + 1]]
  BY DEF Exchange
<1>3. [pair[c] EXCEPT !.g = @ + 1] \in Pair
  BY <1>1 DEF Pair
<1>4. pair'[c] = [pair[c] EXCEPT !.g = @ + 1] /\ \A d \in Calls \ {c} : pair'[d] = pair[d]
  BY <1>2 DEF CallsOK
<1>5. pair'[c] \in Pair /\ pair'[c].s = pair[c].s /\ pair'[c].g = pair[c].g + 1
  BY <1>1, <1>3, <1>4 DEF Pair
<1>6. gen' = [gen EXCEPT ![pair[c].s] = @ + 1]
  BY DEF Exchange
<1>7. /\ gen'[pair[c].s] = gen[pair[c].s] + 1
      /\ \A s \in Sessions \ {pair[c].s} : gen'[s] = gen[s]
  BY <1>1, <1>6, PairFields DEF RestOK
<1>8. Goto(c, "saving") /\ kind' = kind /\ tok' = tok /\ refused' = refused
  BY DEF Exchange
<1> QED
  BY <1>1, <1>4, <1>5, <1>7, <1>8, GotoEffect DEF Same

LEMMA LoginEffect ==
    ASSUME Typed, NEW c \in Calls, LoginAccepted(c)
    PROVE  /\ pc'[c] = "storing" /\ pair'[c] \in Pair
           /\ gen[pair'[c].s] = -1 /\ gen'[pair'[c].s] = 0 /\ pair'[c].g = 0
           /\ \A s \in Sessions \ {pair'[c].s} : gen'[s] = gen[s]
           /\ kind[c] = "login" /\ kind'[c] = kind[c] /\ tok'[c] = tok[c]
           /\ refused'[c] = refused[c]
           /\ \A d \in Calls \ {c} : Same(d)
<1> USE DEF Typed
<1>1. PICK s \in Sessions : gen[s] = -1 /\ gen' = [gen EXCEPT ![s] = 0]
                            /\ pair' = [pair EXCEPT ![c] = [s |-> s, g |-> 0]]
  BY DEF LoginAccepted
<1>2. pair'[c] = [s |-> s, g |-> 0] /\ \A d \in Calls \ {c} : pair'[d] = pair[d]
  BY <1>1 DEF CallsOK
<1>3. pair'[c] \in Pair /\ pair'[c].s = s /\ pair'[c].g = 0
  BY <1>2 DEF Pair
<1>4. gen'[s] = 0 /\ \A r \in Sessions \ {s} : gen'[r] = gen[r]
  BY <1>1 DEF RestOK
<1>5. Goto(c, "storing") /\ kind' = kind /\ tok' = tok /\ refused' = refused /\ kind[c] = "login"
  BY DEF LoginAccepted
<1> QED
  BY <1>1, <1>2, <1>3, <1>4, <1>5, GotoEffect DEF Same

\* After a login and its saveTokens, the call goes on as me().
LEMMA StoredEffect ==
    ASSUME CallsOK, NEW c \in Calls, WriteRefresh(c), pc[c] = "halfStored"
    PROVE  /\ pc'[c] = "reading" /\ kind'[c] = "me"
           /\ tok'[c] = None /\ refused'[c] = None /\ pair'[c] = None
           /\ \A d \in Calls \ {c} : Same(d)
           /\ refresh' = pair[c]
<1>1. /\ Goto(c, "reading") /\ kind' = [kind EXCEPT ![c] = "me"]
      /\ tok' = [tok EXCEPT ![c] = None] /\ refused' = [refused EXCEPT ![c] = None]
      /\ pair' = [pair EXCEPT ![c] = None] /\ refresh' = pair[c]
  BY DEF WriteRefresh, Saved
<1> QED
  BY <1>1, GotoEffect DEF CallsOK, Same

LEMMA StartEffect ==
    ASSUME KillAndStart
    PROVE  /\ \A d \in Calls : /\ pc'[d] \in {"idle", "restoring"} /\ kind'[d] \in {None, "restore"}
                               /\ tok'[d] = None /\ refused'[d] = None /\ pair'[d] = None
           /\ \E c \in Calls : pc'[c] = "restoring" /\ \A d \in Calls \ {c} : pc'[d] = "idle" /\ kind'[d] = None
BY DEF KillAndStart, Started

(***************************************************************************)
(* Tokens and retries                                                      *)
(***************************************************************************)
\* No token is of a pair that is still to be issued, and at most all the access
\* tokens of a session have expired.
Issued(t) == t # None => t.g <= gen[t.s]
TokensIssued ==
    /\ Issued(access) /\ Issued(refresh)
    /\ \A c \in Calls : Issued(tok[c]) /\ Issued(refused[c]) /\ Issued(pair[c])
    /\ \A s \in Sessions : fresh[s] <= gen[s] + 1

\* What is stored and sent after a refresh is valid, what was refused is not.
RetryKnown ==
    /\ \A c \in Calls :
         /\ pc[c] \in {"saving", "storing"} => Valid(pair[c])
         /\ pc[c] \in {"halfSaved", "rereading", "resending"} => access = None \/ Valid(access)
         /\ pc[c] \in {"resending", "resent"} => Valid(tok[c])
         /\ kind[c] # "mistyped" => ~Valid(refused[c])

Retry == TokensIssued /\ RetryKnown

LEMMA RetryGives == Retry => RetryUsesNewToken
BY DEF Retry, RetryKnown, RetryUsesNewToken, Valid

\* Steps that issue no token and let none expire.
LEMMA IssuedKept ==
    ASSUME Typed, TokensIssued, UNCHANGED <<gen, fresh>>,
           Issued(access'), Issued(refresh'),
           \A d \in Calls : Issued(tok'[d]) /\ Issued(refused'[d]) /\ Issued(pair'[d])
    PROVE  TokensIssued'
BY DEF TokensIssued, Issued

LEMMA RetryKept ==
    ASSUME Typed, Retry, UNCHANGED <<gen, fresh>>,
           access' \in {access, None}, refresh' \in {refresh, None},
           NEW c \in Calls, \A d \in Calls \ {c} : Same(d),
           tok'[c] \in {tok[c], None, access}, refused'[c] \in {refused[c], None, tok[c]},
           pair'[c] \in {pair[c], None, refresh},
           pc'[c] \notin {"saving", "storing"},
           pc'[c] \in {"halfSaved", "rereading", "resending"} => access' = None \/ Valid(access'),
           pc'[c] \in {"resending", "resent"} => Valid(tok'[c]),
           kind'[c] # "mistyped" => ~Valid(refused'[c])
    PROVE  Retry'
<1>1. TokensIssued'
  BY IssuedKept DEF Retry, TokensIssued, Issued, Same
<1>2. \A t : Valid(t)' <=> Valid(t)
  BY DEF Valid
<1>3. RetryKnown'
  BY <1>2 DEF Retry, RetryKnown, Same, Valid
<1> QED
  BY <1>1, <1>3 DEF Retry

\* Steps in which only the places change, and those as the gate opens.
LEMMA RetryOpens ==
    ASSUME Typed, Retry, NEW c \in Calls, NEW place \in {"clearing", "rereading"}, Open(c, place),
           UNCHANGED <<access, gen, fresh, kind, tok, refused>>,
           refresh' \in {refresh, None, pair[c]},
           \A d \in Calls \ {c} : pair'[d] = pair[d], pair'[c] \in {pair[c], refresh},
           place = "rereading" => access = None \/ Valid(access)
    PROVE  Retry'
<1>1. TokensIssued'
  BY IssuedKept DEF Retry, TokensIssued, Issued
<1>2. pc'[c] = place /\ \A d \in Calls : pc'[d] = pc[d] \/ pc'[d] = place
  BY OpenEffect DEF Typed
<1>3. \A t : Valid(t)' <=> Valid(t)
  BY DEF Valid
<1>4. RetryKnown'
  BY <1>2, <1>3 DEF Retry, RetryKnown, Valid
<1> QED
  BY <1>1, <1>4 DEF Retry

LEMMA NextRetry == Typed /\ Retry /\ [Next]_vars => Retry'
<1> SUFFICES ASSUME Typed, Retry, [Next]_vars PROVE Retry'
  OBVIOUS
<1>0. CallsOK /\ RestOK /\ TokensIssued /\ RetryKnown
  BY DEF Typed, Retry
<1> USE DEF storage, server
<1>1. ASSUME NEW c \in Calls, Request(c) \/ Login(c) \/ Logout(c) PROVE Retry'
  <2>1. PICK k \in Kinds, place \in {"reading", "clearing"} : Begin(c, k, place)
    BY <1>1, Members DEF Request, Login, Logout
  <2>2. kind[c] = None /\ None # "mistyped"
    BY <1>0, <2>1, BeginEffect, Members, Constants
  <2>3. UNCHANGED <<gen, fresh, access, refresh>>
    BY <2>1 DEF Begin
  <2> QED
    BY <1>0, <2>1, <2>2, <2>3, BeginEffect, RetryKept DEF RetryKnown
<1>2. ASSUME NEW c \in Calls, Restore(c) \/ Accept(c) PROVE Retry'
  <2>1. CASE End(c)
    BY <1>0, <1>2, <2>1, EndEffect, RetryKept DEF Restore, Accept, Valid
  <2>2. CASE Restore(c) /\ Goto(c, "reading") /\ UNCHANGED <<kind, tok, refused, pair>>
    BY <1>0, <2>2, GotoEffect, RetryKept DEF Restore, RetryKnown, Same
  <2> QED
    BY <1>2, <2>1, <2>2 DEF Restore, Accept
<1>3. ASSUME NEW c \in Calls, Send(c) PROVE Retry'
  <2>1. /\ tok'[c] = IF access = None THEN tok[c] ELSE access
        /\ \A d \in Calls \ {c} : Same(d)
        /\ kind'[c] = kind[c] /\ refused'[c] = refused[c] /\ pair'[c] = pair[c]
    BY <1>0, <1>3, GotoEffect DEF Send, CallsOK, Same
  <2>2. (pc[c] = "reading" /\ pc'[c] = "sent") \/ (pc[c] = "resending" /\ pc'[c] = "resent")
    BY <1>0, <1>3, GotoEffect DEF Send
  <2>3. UNCHANGED <<access, refresh, gen, fresh>>
    BY <1>3 DEF Send
  <2>4. pc[c] = "resending" => Valid(tok'[c])
    BY <1>0, <2>1 DEF RetryKnown
  <2> QED
    BY <1>0, <2>1, <2>2, <2>3, <2>4, RetryKept DEF RetryKnown
<1>4. ASSUME NEW c \in Calls, LoginAccepted(c) PROVE Retry'
  <2>1. UNCHANGED <<access, refresh, fresh>>
    BY <1>4 DEF LoginAccepted
  <2>2. \A s \in Sessions : gen[s] <= gen'[s] /\ gen[s] \in Int /\ gen'[s] \in Int
    BY <1>0, <1>4, LoginEffect, PairFields DEF RestOK
  <2>3. pair'[c] \in Pair /\ pair'[c].g = gen'[pair'[c].s] /\ fresh[pair'[c].s] = 0
    BY <1>0, <1>4, LoginEffect, PairFields DEF RestOK, TokensIssued
  <2>4. TokensIssued'
    BY <1>0, <1>4, <2>1, <2>2, <2>3, LoginEffect, PairFields DEF TokensIssued, Issued, Same, CallsOK, RestOK
  <2>5. RetryKnown'
    BY <1>0, <1>4, <2>1, <2>3, LoginEffect, Constants DEF RetryKnown, Valid, Same
  <2> QED
    BY <2>4, <2>5 DEF Retry
<1>5. ASSUME NEW c \in Calls, Refuse(c) PROVE Retry'
  <2>1. /\ refused'[c] = tok[c] /\ kind'[c] = kind[c] /\ tok'[c] = tok[c] /\ pair'[c] = pair[c]
        /\ pc'[c] \in {"waiting", "loading"} /\ \A d \in Calls \ {c} : Same(d)
    BY <1>0, <1>5, GotoEffect DEF Refuse, CallsOK, Same
  <2>2. UNCHANGED <<access, refresh, gen, fresh>>
    BY <1>5 DEF Refuse
  <2>3. kind[c] # "mistyped" => ~Valid(tok[c])
    BY <1>5 DEF Refuse, Unauthorized
  <2> QED
    BY <2>1, <2>2, <2>3, RetryKept
<1>6. ASSUME NEW c \in Calls, AnswerFails(c) \/ (Reread(c) /\ access = None) \/ ClearRefresh(c) PROVE Retry'
  <2>1. /\ UNCHANGED <<access, gen, fresh>> /\ refresh' \in {refresh, None}
        /\ End(c) \/ (Forget(c) /\ kind[c] = "restore")
    BY <1>6 DEF AnswerFails, Throw, Reread, Expired, ClearRefresh
  <2>2. CASE End(c)
    BY <1>0, <2>1, <2>2, EndEffect, RetryKept DEF Valid
  <2>3. CASE Forget(c) /\ kind[c] = "restore"
    BY <1>0, <2>1, <2>3, ForgetEffect, RetryKept DEF RetryKnown
  <2> QED
    BY <2>1, <2>2, <2>3
<1>7. ASSUME NEW c \in Calls, RetryRefused(c) \/ ClearAccess(c) PROVE Retry'
  <2>1. UNCHANGED <<refresh, gen, fresh, kind, tok, refused, pair>> /\ access' \in {access, None}
    BY <1>7 DEF RetryRefused, ClearAccess
  <2>2. pc'[c] \in {"clearing", "halfCleared"} /\ \A d \in Calls \ {c} : Same(d)
    BY <1>0, <1>7, <2>1, GotoEffect DEF RetryRefused, ClearAccess, Same
  <2> QED
    BY <1>0, <2>1, <2>2, RetryKept DEF RetryKnown
<1>8. ASSUME NEW c \in Calls, Load(c) PROVE Retry'
  <2>1. /\ UNCHANGED <<access, refresh, gen, fresh, kind, tok, refused>>
        /\ pair'[c] = refresh /\ \A d \in Calls \ {c} : pair'[d] = pair[d]
    BY <1>0, <1>8 DEF Load, CallsOK
  <2>2. CASE Open(c, "clearing")
    BY <2>1, <2>2, RetryOpens
  <2>3. CASE Goto(c, "exchanging")
    BY <1>0, <2>1, <2>3, GotoEffect, RetryKept DEF RetryKnown, Same
  <2> QED
    BY <1>8, <2>2, <2>3 DEF Load
<1>9. ASSUME NEW c \in Calls, Exchange(c) PROVE Retry'
  <2>1. UNCHANGED <<access, refresh, fresh>>
    BY <1>9 DEF Exchange
  <2>2. CASE Live(pair[c])
    <3>1. \A s \in Sessions : gen[s] <= gen'[s] /\ gen[s] \in Int /\ gen'[s] \in Int
      BY <1>0, <1>9, <2>2, ExchangeEffect, PairFields DEF RestOK
    <3>2. pair'[c] \in Pair /\ pair'[c].g = gen'[pair'[c].s] /\ fresh[pair'[c].s] <= pair'[c].g
      BY <1>0, <1>9, <2>2, ExchangeEffect, PairFields DEF RestOK, TokensIssued, Live
    <3>3. TokensIssued'
      BY <1>0, <1>9, <2>1, <2>2, <3>1, <3>2, ExchangeEffect, PairFields
      DEF TokensIssued, Issued, Same, CallsOK, RestOK
    <3>4. RetryKnown'
      BY <1>0, <1>9, <2>1, <2>2, <3>2, ExchangeEffect, Constants, PairFields
      DEF RetryKnown, Valid, Same, RestOK
    <3> QED
      BY <3>3, <3>4 DEF Retry
  <2>3. CASE ~Live(pair[c])
    BY <1>9, <2>1, <2>3, RetryOpens DEF Exchange
  <2> QED
    BY <2>2, <2>3
<1>10. ASSUME NEW c \in Calls, RefreshFails(c) PROVE Retry'
  <2>1. /\ UNCHANGED <<access, refresh, fresh, kind, tok, refused, pair>>
        /\ Open(c, "clearing")
    BY <1>10 DEF RefreshFails
  <2>2. CASE UNCHANGED gen
    BY <2>1, <2>2, RetryOpens
  <2>3. CASE pc[c] = "exchanging" /\ Live(pair[c]) /\ gen' = [gen EXCEPT ![pair[c].s] = @ + 1]
    <3>1. \A s \in Sessions : gen[s] <= gen'[s] /\ gen[s] \in Int /\ gen'[s] \in Int
      BY <1>0, <2>3, PairFields DEF RestOK, CallsOK, Fits
    <3>2. TokensIssued'
      BY <1>0, <2>1, <3>1, PairFields DEF TokensIssued, Issued, CallsOK, RestOK
    <3>3. \A d \in Calls : pc'[d] = pc[d] \/ pc'[d] = "clearing"
      BY <1>0, <2>1, OpenEffect
    <3>4. RetryKnown'
      BY <1>0, <2>1, <3>3 DEF RetryKnown, Valid
    <3> QED
      BY <3>2, <3>4 DEF Retry
  <2> QED
    BY <1>10, <2>2, <2>3 DEF RefreshFails
<1>11. ASSUME NEW c \in Calls, WriteAccess(c) PROVE Retry'
  <2>1. /\ UNCHANGED <<refresh, gen, fresh, kind, tok, refused, pair>> /\ access' = pair[c]
        /\ Valid(pair[c])
    BY <1>0, <1>11 DEF WriteAccess, RetryKnown
  <2>2. pc'[c] \in {"halfSaved", "halfStored"} /\ \A d \in Calls \ {c} : pc'[d] = pc[d]
    BY <1>0, <1>11, GotoEffect DEF WriteAccess
  <2>3. TokensIssued'
    BY <1>0, <2>1, IssuedKept DEF TokensIssued, Issued
  <2>4. RetryKnown'
    BY <1>0, <2>1, <2>2 DEF RetryKnown, Valid
  <2> QED
    BY <2>3, <2>4 DEF Retry
<1>12. ASSUME NEW c \in Calls, WriteRefresh(c) PROVE Retry'
  <2>1. UNCHANGED <<access, gen, fresh>> /\ refresh' = pair[c]
    BY <1>12 DEF WriteRefresh
  <2>2. CASE pc[c] = "halfSaved"
    <3>1. Open(c, "rereading") /\ UNCHANGED <<kind, tok, refused, pair>>
      BY <1>12, <2>2 DEF WriteRefresh, Saved
    <3> QED
      BY <1>0, <2>1, <2>2, <3>1, RetryOpens DEF RetryKnown
  <2>3. CASE pc[c] = "halfStored"
    <3>1. TokensIssued'
      BY <1>0, <1>12, <2>1, <2>3, StoredEffect, IssuedKept DEF TokensIssued, Issued, Same
    <3>2. RetryKnown'
      BY <1>0, <1>12, <2>1, <2>3, StoredEffect DEF RetryKnown, Valid, Same
    <3> QED
      BY <3>1, <3>2 DEF Retry
  <2> QED
    BY <1>12, <2>2, <2>3 DEF WriteRefresh, Saved
<1>13. ASSUME NEW c \in Calls, Reread(c), access # None PROVE Retry'
  <2>1. UNCHANGED <<access, refresh, gen, fresh, kind, refused, pair>>
    BY <1>13 DEF Reread
  <2>2. pc'[c] = "resending" /\ tok'[c] = access /\ \A d \in Calls \ {c} : Same(d)
    BY <1>0, <1>13, GotoEffect DEF Reread, CallsOK, Same
  <2>3. Valid(access)
    BY <1>0, <1>13 DEF Reread, RetryKnown
  <2> QED
    BY <1>0, <2>1, <2>2, <2>3, RetryKept DEF RetryKnown
<1>14. ASSUME NEW s \in Sessions, ExpireAccess(s) PROVE Retry'
  <2>1. /\ UNCHANGED <<access, refresh, gen, pc, kind, tok, refused, pair>>
        /\ fresh[s] <= gen[s] /\ fresh'[s] = fresh[s] + 1 /\ fresh' \in [Sessions -> Nat]
        /\ \A r \in Sessions \ {s} : fresh'[r] = fresh[r]
    BY <1>0, <1>14 DEF ExpireAccess, RestOK, calls
  <2>2. TokensIssued'
    BY <1>0, <2>1 DEF TokensIssued, Issued, RestOK
  <2>3. \A c \in Calls : ~Valid(refused[c]) => ~Valid(refused[c])'
    BY <1>0, <2>1, PairFields DEF Valid, CallsOK, RestOK
  <2>4. \A c \in Calls : pc[c] \notin {"storing", "halfStored", "saving", "halfSaved",
                                       "rereading", "resending", "resent"}
    BY <1>14 DEF ExpireAccess
  <2>5. RetryKnown'
    BY <1>0, <2>1, <2>3, <2>4 DEF RetryKnown
  <2> QED
    BY <2>2, <2>5 DEF Retry
<1>15. CASE UNCHANGED <<storage, calls, gen, fresh>>
  BY <1>0, <1>15 DEF Retry, TokensIssued, RetryKnown, Issued, Valid, calls
<1>16. ASSUME NEW s \in Sessions, EndSession(s) PROVE Retry'
  BY <1>15, <1>16 DEF EndSession
<1>17. CASE Timeout
  BY <1>15, <1>17 DEF Timeout
<1>18. CASE KillAndStart
  <2>1. UNCHANGED <<access, refresh, gen, fresh>>
    BY <1>18 DEF KillAndStart
  <2>2. TokensIssued'
    BY <1>0, <1>18, <2>1, StartEffect, IssuedKept DEF TokensIssued, Issued
  <2>3. RetryKnown'
    BY <1>18, StartEffect DEF RetryKnown, Valid
  <2> QED
    BY <2>2, <2>3 DEF Retry
<1>19. CASE UNCHANGED vars
  BY <1>15, <1>19 DEF vars
<1> QED
  BY <1>1, <1>2, <1>3, <1>4, <1>5, <1>6, <1>7, <1>8, <1>9, <1>10, <1>11, <1>12, <1>13, <1>14,
     <1>16, <1>17, <1>18, <1>19 DEF Next, CallStep

(***************************************************************************)
(* Without disturbance: the refresh token in use is the last of its        *)
(* session                                                                 *)
(***************************************************************************)
LEMMA CalmBefore ==
    [Next]_vars => /\ ~disturbed' => ~disturbed
                   /\ Undisturbed' => Undisturbed
<1> SUFFICES ASSUME [Next]_vars PROVE (disturbed => disturbed') /\ (overlapped => overlapped')
  BY DEF Undisturbed
<1> USE DEF history
<1>1. \/ UNCHANGED history
      \/ \E cond \in BOOLEAN : Disturb(cond) \/ Overlap(cond)
  <2>1. ASSUME Fault PROVE \E cond \in BOOLEAN : Disturb(cond)
    BY <2>1, Zenon DEF Fault
  <2>2. ASSUME NEW c \in Calls, Request(c) \/ Login(c) \/ Logout(c)
        PROVE  \E cond \in BOOLEAN : Disturb(cond) \/ Overlap(cond)
    BY <2>2 DEF Request, Login, Logout, Disturb, Overlap
  <2>3. ASSUME NEW c \in Calls, CallStep(c)
        PROVE  UNCHANGED history \/ \E cond \in BOOLEAN : Disturb(cond)
    BY <2>1, <2>3 DEF CallStep, Restore, Send, Accept, LoginAccepted, Refuse, AnswerFails,
       RetryRefused, Load, Exchange, RefreshFails, WriteAccess, WriteRefresh, Reread, ClearAccess,
       ClearRefresh
  <2>4. ASSUME NEW s \in Sessions, ExpireAccess(s) \/ EndSession(s) PROVE UNCHANGED history
    BY <2>4 DEF ExpireAccess, EndSession
  <2>5. ASSUME Timeout \/ KillAndStart PROVE \E cond \in BOOLEAN : Disturb(cond)
    BY <2>5, Zenon DEF Timeout, KillAndStart
  <2>6. ASSUME UNCHANGED vars PROVE UNCHANGED history
    BY <2>6 DEF vars
  <2> QED
    BY <2>2, <2>3, <2>4, <2>5, <2>6 DEF Next
<1>2. ASSUME NEW cond \in BOOLEAN, Disturb(cond) \/ Overlap(cond)
      PROVE  (disturbed => disturbed') /\ (overlapped => overlapped')
  <2>1. CASE Disturb(cond)
    <3>1. disturbed' = (disturbed \/ cond) /\ overlapped' = overlapped
      BY <2>1 DEF Disturb
    <3>2. disturbed => disturbed'
      BY <3>1
    <3> QED
      BY <3>1, <3>2
  <2>2. CASE Overlap(cond)
    <3>1. overlapped' = (overlapped \/ cond) /\ disturbed' = disturbed
      BY <2>2 DEF Overlap
    <3>2. overlapped => overlapped'
      BY <3>1
    <3> QED
      BY <3>1, <3>2
  <2> QED
    BY <1>2, <2>1, <2>2
<1>3. CASE UNCHANGED history
  BY <1>3
<1> QED
  BY <1>1, <1>2, <1>3

Saving(c) == pc[c] \in {"saving", "halfSaved"}
Exchanging(c) == pc[c] = "exchanging"
Storing(c) == pc[c] \in {"storing", "halfStored"}
Last(t) == t.g = gen[t.s]

\* The stored refresh token is the last of its session but while its successor
\* is on the way to the storage; that of a login is of a session of its own.
ChainKnown ==
    /\ (\A c \in Calls : ~Saving(c)) /\ refresh # None => Last(refresh)
    /\ \A c \in Calls : Exchanging(c) \/ Saving(c) => Last(pair[c])
    /\ \A c \in Calls : Storing(c) =>
         /\ pair[c].g = 0 /\ Last(pair[c])
         /\ refresh # None => refresh.s # pair[c].s
         /\ \A d \in Calls \ {c} : Exchanging(d) \/ Saving(d) \/ Storing(d) => pair[d].s # pair[c].s
Chain == ~disturbed => ChainKnown

LEMMA ChainGives == Chain => SpentTokenUnused
BY DEF Chain, ChainKnown, SpentTokenUnused, Exchanging, Last

LEMMA ChainKept ==
    ASSUME ChainKnown, UNCHANGED gen, refresh' \in {refresh, None},
           \A d \in Calls : /\ Saving(d)' <=> Saving(d)
                            /\ Storing(d)' => Storing(d)
                            /\ Exchanging(d)' => Exchanging(d)
                            /\ (Saving(d) \/ Storing(d)' \/ Exchanging(d)') => pair'[d] = pair[d]
    PROVE  ChainKnown'
BY DEF ChainKnown, Last

\* A call that has no pair in its hands and takes none.
LEMMA ChainOutside ==
    ASSUME ChainKnown, UNCHANGED gen, refresh' \in {refresh, None}, NEW c \in Calls,
           \A d \in Calls \ {c} : pc'[d] = pc[d] /\ pair'[d] = pair[d],
           pc[c] \notin {"saving", "halfSaved"},
           pc'[c] \notin {"exchanging", "saving", "halfSaved", "storing", "halfStored"}
    PROVE  ChainKnown'
<1>1. \A d \in Calls : /\ Saving(d)' <=> Saving(d)
                       /\ Storing(d)' => Storing(d)
                       /\ Exchanging(d)' => Exchanging(d)
                       /\ (Saving(d) \/ Storing(d)' \/ Exchanging(d)') => pair'[d] = pair[d]
  BY DEF Saving, Storing, Exchanging
<1> QED
  BY <1>1, ChainKept

LEMMA NextChain == Typed /\ Gate /\ TokensIssued /\ Chain /\ [Next]_vars => Chain'
<1> SUFFICES ASSUME Typed, Gate, TokensIssued, Chain, [Next]_vars, ~disturbed'
             PROVE  ChainKnown'
  BY DEF Chain
<1>0. CallsOK /\ RestOK /\ OneRefresh /\ ~disturbed /\ ChainKnown
  BY CalmBefore DEF Typed, Chain, Gate
<1>f. ~Fault
  BY <1>0, FaultOK
<1> USE DEF storage, server
<1>1. ASSUME NEW c \in Calls, Request(c) \/ Login(c) \/ Logout(c) PROVE ChainKnown'
  <2>1. PICK k \in Kinds, place \in {"reading", "clearing"} : Begin(c, k, place)
    BY <1>1, Members DEF Request, Login, Logout
  <2>2. UNCHANGED <<gen, refresh>>
    BY <2>1 DEF Begin
  <2> QED
    BY <1>0, <2>1, <2>2, BeginEffect, ChainOutside DEF Same
<1>2. ASSUME NEW c \in Calls,
             Restore(c) \/ Accept(c) \/ (Reread(c) /\ access = None) \/ ClearRefresh(c)
      PROVE  ChainKnown'
  <2>1. /\ UNCHANGED gen /\ refresh' \in {refresh, None} /\ pc[c] \notin {"saving", "halfSaved"}
        /\ End(c) \/ Forget(c) \/ (Goto(c, "reading") /\ UNCHANGED pair)
    BY <1>2 DEF Restore, Accept, Reread, Expired, ClearRefresh
  <2>2. \A d \in Calls \ {c} : pc'[d] = pc[d] /\ pair'[d] = pair[d]
    BY <1>0, <2>1, EndEffect, ForgetEffect, GotoEffect DEF Same
  <2>3. pc'[c] \in {"idle", "clearing", "reading"}
    BY <1>0, <2>1, EndEffect, ForgetEffect, GotoEffect
  <2> QED
    BY <1>0, <2>1, <2>2, <2>3, ChainOutside
<1>3. ASSUME NEW c \in Calls,
             Send(c) \/ Refuse(c) \/ RetryRefused(c) \/ (Reread(c) /\ access # None) \/ ClearAccess(c)
      PROVE  ChainKnown'
  <2>1. /\ UNCHANGED <<gen, refresh, pair>> /\ pc[c] \notin {"saving", "halfSaved"}
        /\ \E place \in {"sent", "resent", "waiting", "loading", "clearing", "resending", "halfCleared"} :
             Goto(c, place)
    BY <1>3 DEF Send, Refuse, RetryRefused, Reread, ClearAccess
  <2> QED
    BY <1>0, <2>1, GotoEffect, ChainOutside
<1>4. ASSUME NEW c \in Calls, LoginAccepted(c) PROVE ChainKnown'
  <2>1. refresh' = refresh
    BY <1>4 DEF LoginAccepted
  <2>2. \A t \in Pair : Issued(t) => t.s # pair'[c].s
    BY <1>0, <1>4, LoginEffect, PairFields, Constants DEF Issued, RestOK
  <2>3. /\ refresh # None => refresh.s # pair'[c].s /\ refresh.s \in Sessions
        /\ \A d \in Calls : pair[d] # None => pair[d].s # pair'[c].s /\ pair[d].s \in Sessions
    BY <1>0, <2>2, PairFields DEF TokensIssued, CallsOK, RestOK
  <2>4. /\ refresh # None /\ Last(refresh) => Last(refresh)'
        /\ \A d \in Calls \ {c} : pair[d] # None /\ Last(pair[d]) => Last(pair[d])'
    BY <1>0, <1>4, <2>1, <2>3, LoginEffect DEF Last, Same
  <2>5. \A d \in Calls : Exchanging(d) \/ Saving(d) \/ Storing(d) => pair[d] # None
    BY <1>0, Constants DEF CallsOK, Fits, Exchanging, Saving, Storing
  <2>6. /\ Storing(c)' /\ ~Saving(c)' /\ ~Exchanging(c)' /\ ~Saving(c)
        /\ \A d \in Calls \ {c} : /\ Storing(d)' <=> Storing(d)
                                  /\ Saving(d)' <=> Saving(d)
                                  /\ Exchanging(d)' <=> Exchanging(d)
                                  /\ pair'[d] = pair[d]
    BY <1>0, <1>4, LoginEffect DEF LoginAccepted, Storing, Saving, Exchanging, Same
  <2>7. pair'[c].g = 0 /\ Last(pair[c])'
    BY <1>0, <1>4, LoginEffect DEF Last
  <2> QED
    BY <1>0, <2>1, <2>3, <2>4, <2>5, <2>6, <2>7 DEF ChainKnown
<1>5. ASSUME NEW c \in Calls, Load(c) PROVE ChainKnown'
  <2>1. /\ UNCHANGED <<gen, refresh>> /\ pc[c] = "loading"
        /\ pair'[c] = refresh /\ \A d \in Calls \ {c} : pair'[d] = pair[d]
    BY <1>0, <1>5 DEF Load, CallsOK
  <2>2. \A d \in Calls : pc[d] \in RefreshPlaces => d = c
    BY <1>0, <2>1 DEF OneRefresh, RefreshPlaces
  <2>3. CASE Open(c, "clearing")
    <3>1. \A d \in Calls : (pc'[d] = pc[d] /\ d # c) \/ (pc'[d] = "clearing" /\ pc[d] \in {"loading", "waiting"})
      BY <1>0, <2>1, <2>3, OpenEffect
    <3>2. \A d \in Calls : /\ Saving(d)' <=> Saving(d)
                           /\ Storing(d)' => Storing(d)
                           /\ Exchanging(d)' => Exchanging(d)
                           /\ (Saving(d) \/ Storing(d)' \/ Exchanging(d)') => pair'[d] = pair[d]
      BY <2>1, <3>1 DEF Saving, Storing, Exchanging
    <3> QED
      BY <1>0, <2>1, <3>2, ChainKept
  <2>4. CASE Goto(c, "exchanging") /\ refresh # None
    <3>1. pc'[c] = "exchanging" /\ \A d \in Calls \ {c} : pc'[d] = pc[d]
      BY <1>0, <2>4, GotoEffect
    <3>2. \A d \in Calls : ~Saving(d) /\ ~Saving(d)' /\ (Exchanging(d)' => d = c)
                           /\ (Storing(d)' => Storing(d) /\ d # c /\ pair'[d] = pair[d])
      BY <2>1, <2>2, <3>1 DEF Saving, Storing, Exchanging, RefreshPlaces
    <3>3. Last(refresh)
      BY <1>0, <2>4, <3>2 DEF ChainKnown
    <3> QED
      BY <1>0, <2>1, <2>4, <3>2, <3>3 DEF ChainKnown, Last
  <2> QED
    BY <1>5, <2>3, <2>4 DEF Load
<1>6. ASSUME NEW c \in Calls, Exchange(c) PROVE ChainKnown'
  <2>1. refresh' = refresh /\ pc[c] = "exchanging"
    BY <1>6 DEF Exchange
  <2>2. \A d \in Calls : pc[d] \in RefreshPlaces => d = c
    BY <1>0, <2>1 DEF OneRefresh, RefreshPlaces
  <2>3. CASE Live(pair[c])
    <3>1. /\ Saving(c)' /\ ~Storing(c)' /\ ~Exchanging(c)' /\ pair'[c].s = pair[c].s
          /\ \A d \in Calls \ {c} : /\ ~Saving(d)' /\ ~Exchanging(d)' /\ pair'[d] = pair[d]
                                    /\ Storing(d)' => Storing(d)
      BY <1>0, <1>6, <2>2, <2>3, ExchangeEffect DEF Saving, Storing, Exchanging, Same, RefreshPlaces
    <3>2. Last(pair[c])'
      BY <1>0, <1>6, <2>3, ExchangeEffect, PairFields DEF Last, Live, RestOK
    <3>3. \A d \in Calls : Storing(d) => pair[d].s # pair[c].s /\ pair[d].s \in Sessions
      BY <1>0, <2>1, PairFields DEF ChainKnown, Storing, Exchanging, CallsOK, Fits
    <3>4. \A d \in Calls : Storing(d) /\ d # c => Last(pair[d])'
      BY <1>0, <1>6, <2>3, <3>1, <3>3, ExchangeEffect DEF ChainKnown, Last
    <3> QED
      BY <1>0, <2>1, <3>1, <3>2, <3>3, <3>4 DEF ChainKnown
  <2>4. CASE ~Live(pair[c])
    <3>1. Open(c, "clearing") /\ UNCHANGED <<gen, pair>>
      BY <1>6, <2>4 DEF Exchange
    <3>2. \A d \in Calls : pc'[d] = pc[d] \/ (pc'[d] = "clearing" /\ pc[d] \in {"exchanging", "waiting"})
      BY <1>0, <2>1, <3>1, OpenEffect
    <3>3. \A d \in Calls : /\ Saving(d)' <=> Saving(d)
                           /\ Storing(d)' => Storing(d)
                           /\ Exchanging(d)' => Exchanging(d)
      BY <3>2 DEF Saving, Storing, Exchanging
    <3> QED
      BY <1>0, <2>1, <3>1, <3>3, ChainKept
  <2> QED
    BY <2>3, <2>4
<1>7. ASSUME NEW c \in Calls, WriteAccess(c) PROVE ChainKnown'
  <2>1. UNCHANGED <<gen, refresh, pair>>
    BY <1>7 DEF WriteAccess
  <2>2. \A d \in Calls : /\ Saving(d)' <=> Saving(d)
                         /\ Storing(d)' => Storing(d)
                         /\ Exchanging(d)' => Exchanging(d)
    BY <1>0, <1>7, GotoEffect DEF WriteAccess, Saving, Storing, Exchanging
  <2> QED
    BY <1>0, <2>1, <2>2, ChainKept
<1>8. ASSUME NEW c \in Calls, WriteRefresh(c) PROVE ChainKnown'
  <2>1. refresh' = pair[c] /\ UNCHANGED gen
    BY <1>8 DEF WriteRefresh
  <2>2. CASE pc[c] = "halfSaved"
    <3>1. Open(c, "rereading") /\ UNCHANGED pair
      BY <1>8, <2>2 DEF WriteRefresh, Saved
    <3>2. \A d \in Calls : pc[d] \in RefreshPlaces => d = c
      BY <1>0, <2>2 DEF OneRefresh, RefreshPlaces
    <3>3. pc'[c] = "rereading" /\ \A d \in Calls : pc'[d] = pc[d] \/ pc'[d] = "rereading"
      BY <1>0, <3>1, OpenEffect
    <3>4. \A d \in Calls : /\ ~Saving(d)' /\ ~Exchanging(d)'
                           /\ Storing(d)' => Storing(d) /\ d # c
      BY <3>2, <3>3 DEF Saving, Exchanging, Storing, RefreshPlaces
    <3>5. Saving(c) /\ Last(pair[c])
      BY <1>0, <2>2 DEF Saving, ChainKnown
    <3> QED
      BY <1>0, <2>1, <3>1, <3>4, <3>5 DEF ChainKnown, Last
  <2>3. CASE pc[c] = "halfStored"
    <3>1. /\ ~Saving(c)' /\ ~Exchanging(c)' /\ ~Storing(c)' /\ Storing(c)
          /\ \A d \in Calls \ {c} : /\ Storing(d)' <=> Storing(d)
                                    /\ Saving(d)' <=> Saving(d)
                                    /\ Exchanging(d)' <=> Exchanging(d)
                                    /\ pair'[d] = pair[d]
      BY <1>0, <1>8, <2>3, StoredEffect DEF Storing, Saving, Exchanging, Same
    <3> QED
      BY <1>0, <2>1, <3>1 DEF ChainKnown, Last
  <2> QED
    BY <1>8, <2>2, <2>3 DEF WriteRefresh, Saved
<1>9. CASE UNCHANGED <<refresh, pc, pair, gen>>
  BY <1>0, <1>9, ChainKept DEF Saving, Storing, Exchanging
<1>10. ASSUME NEW s \in Sessions, ExpireAccess(s) \/ EndSession(s) PROVE ChainKnown'
  BY <1>9, <1>10 DEF ExpireAccess, EndSession, calls
<1>11. CASE Timeout
  BY <1>9, <1>11 DEF Timeout, calls
<1>12. CASE KillAndStart
  <2>1. UNCHANGED <<refresh, gen>>
    BY <1>12 DEF KillAndStart
  <2>2. Disturb(\E c \in Calls : pc[c] \in RefreshPlaces \cup WritePlaces)
    BY <1>12 DEF KillAndStart
  <2>3. \A c \in Calls : ~Saving(c)
    BY <2>2 DEF Disturb, Saving, RefreshPlaces
  <2>4. \A c \in Calls : ~Saving(c)' /\ ~Storing(c)' /\ ~Exchanging(c)'
    BY <1>12, StartEffect DEF Saving, Storing, Exchanging
  <2> QED
    BY <1>0, <2>1, <2>3, <2>4 DEF ChainKnown, Last
<1>13. CASE UNCHANGED vars
  BY <1>9, <1>13 DEF vars, calls
<1>14. ASSUME NEW c \in Calls PROVE ~AnswerFails(c) /\ ~RefreshFails(c)
  BY <1>f DEF AnswerFails, RefreshFails
<1> QED
  BY <1>1, <1>2, <1>3, <1>4, <1>5, <1>6, <1>7, <1>8, <1>10, <1>11, <1>12, <1>13, <1>14
  DEF Next, CallStep

(***************************************************************************)
(* Without overlap either: one at a time but for the requests for data     *)
(***************************************************************************)
\* A call that is not for data is alone, and the screen shows what it is for.
ApartKnown ==
    /\ \A c \in Calls : kind[c] \notin {None, "data"} => \A d \in Calls \ {c} : pc[d] = "idle"
    /\ ~late
    /\ status = "unknown" => busy
    /\ \A c \in Calls :
         /\ kind[c] \in {"login", "mistyped", "me"} => status = "out" /\ busy
         /\ kind[c] = "restore" => status = "unknown"
         /\ kind[c] = "forget" => status = "out"
         /\ kind[c] = "logout" => status = "in"
         /\ kind[c] = "data" => status # "unknown"
Apart == Undisturbed => ApartKnown

LEMMA OthersForData ==
    ASSUME ApartKnown, NEW c \in Calls, pc[c] # "idle"
    PROVE  /\ \A d \in Calls \ {c} : kind[d] \in {None, "data"}
           /\ kind[c] # "data" => \A d \in Calls \ {c} : kind[c] # None => pc[d] = "idle"
BY DEF ApartKnown

\* The call goes on, and what it is for stays.
LEMMA ApartGoesOn ==
    ASSUME Typed, ApartKnown, UNCHANGED <<screen, late>>, NEW c \in Calls, pc[c] # "idle",
           kind'[c] = kind[c] \/ (kind[c] = "login" /\ kind'[c] = "me"),
           \A d \in Calls \ {c} : kind'[d] = kind[d] /\ (pc[d] = "idle" => pc'[d] = "idle")
    PROVE  ApartKnown'
<1>1. \A d \in Calls \ {c} : kind[d] \in {None, "data"}
  BY OthersForData
<1>2. kind'[c] \notin {None, "data"} => \A d \in Calls \ {c} : pc'[d] = "idle"
  BY Constants, Members DEF ApartKnown
<1> QED
  BY <1>1, <1>2 DEF ApartKnown, screen

LEMMA ApartEnds ==
    ASSUME Typed, ApartKnown, UNCHANGED late, NEW c \in Calls, pc[c] # "idle",
           kind'[c] = None \/ (kind[c] = "restore" /\ kind'[c] = "forget" /\ status' = "out"),
           \A d \in Calls \ {c} : Same(d),
           status' # "unknown" \/ UNCHANGED screen
    PROVE  ApartKnown'
<1>1. \A d \in Calls \ {c} : kind'[d] \in {None, "data"} /\ kind'[d] = kind[d]
  BY OthersForData DEF Same
<1>2. kind'[c] \notin {None, "data"} => \A d \in Calls \ {c} : pc'[d] = "idle"
  BY Constants, Members DEF ApartKnown, Same
<1>3. None \notin {"login", "mistyped", "me", "restore", "forget", "logout", "data"}
  BY Constants, Members
<1>4. \A d \in Calls \ {c} : kind'[d] = "data" => status' # "unknown"
  BY <1>1 DEF ApartKnown, screen
<1>5. status' = "unknown" => busy'
  BY DEF ApartKnown, screen
<1> QED
  BY <1>1, <1>2, <1>3, <1>4, <1>5 DEF ApartKnown

LEMMA NextApart == Typed /\ Apart /\ [Next]_vars => Apart'
<1> SUFFICES ASSUME Typed, Apart, [Next]_vars, Undisturbed' PROVE ApartKnown'
  BY DEF Apart
<1>0. CallsOK /\ RestOK /\ Undisturbed /\ ApartKnown
  BY CalmBefore DEF Typed, Apart
<1>f. ~Fault
  BY <1>0, FaultOK DEF Undisturbed
<1>n. None \notin {"login", "mistyped", "me", "restore", "forget", "logout", "data"}
  BY Constants, Members
<1>i. \A c \in Calls : pc[c] # "idle" <=> kind[c] # None
  BY <1>0 DEF CallsOK
<1> USE DEF storage, server
<1>1. ASSUME NEW c \in Calls, Request(c) PROVE ApartKnown'
  <2>1. Begin(c, "data", "reading") /\ UNCHANGED <<screen, late>> /\ status = "in"
    BY <1>1 DEF Request, Begin
  <2>2. \A d \in Calls : kind[d] # "logout"
    <3>1. disturbed' = (disturbed \/ \E d \in Calls : kind[d] = "logout")
      BY <1>1 DEF Request, Disturb
    <3>2. ~disturbed'
      BY DEF Undisturbed
    <3> QED
      BY <3>1, <3>2
  <2>3. \A d \in Calls : kind[d] \in {None, "data"}
    BY <1>0, <2>1, <2>2 DEF ApartKnown, CallsOK, Kinds
  <2>4. \A d \in Calls : kind'[d] \in {None, "data"}
    BY <1>0, <2>1, <2>3, BeginEffect DEF Same
  <2> QED
    BY <1>0, <1>n, <2>1, <2>4 DEF ApartKnown, screen
<1>2. ASSUME NEW c \in Calls, Login(c) PROVE ApartKnown'
  <2>1. PICK k \in {"login", "mistyped"} : Begin(c, k, "reading")
    BY <1>2 DEF Login
  <2>2. \A d \in Calls : pc[d] = "idle"
    <3>1. overlapped' = (overlapped \/ \E d \in Calls : pc[d] # "idle")
      BY <1>2 DEF Login, Overlap
    <3>2. ~overlapped'
      BY DEF Undisturbed
    <3> QED
      BY <3>1, <3>2
  <2>3. status' = "out" /\ busy' = TRUE /\ late' = late
    BY <1>0, <1>2 DEF Login, LoginShown, Begin, ApartKnown, RestOK
  <2>4. \A d \in Calls \ {c} : pc'[d] = "idle" /\ kind'[d] = None
    BY <1>0, <1>i, <2>1, <2>2, BeginEffect DEF Same
  <2> QED
    BY <1>0, <1>n, <2>1, <2>3, <2>4, BeginEffect DEF ApartKnown
<1>3. ASSUME NEW c \in Calls, Logout(c) PROVE ApartKnown'
  <2>1. Begin(c, "logout", "clearing") /\ UNCHANGED <<screen, late>> /\ status = "in"
    BY <1>3 DEF Logout, Begin
  <2>2. \A d \in Calls : pc[d] = "idle"
    <3>1. disturbed' = (disturbed \/ \E d \in Calls : pc[d] # "idle")
      BY <1>3 DEF Logout, Disturb
    <3>2. ~disturbed'
      BY DEF Undisturbed
    <3> QED
      BY <3>1, <3>2
  <2>4. \A d \in Calls \ {c} : pc'[d] = "idle" /\ kind'[d] = None
    BY <1>0, <1>i, <2>1, <2>2, BeginEffect DEF Same
  <2> QED
    BY <1>0, <1>n, <2>1, <2>4, BeginEffect DEF ApartKnown, screen
<1>4. ASSUME NEW c \in Calls, End(c), pc[c] # "idle", UNCHANGED late,
             status' # "unknown" \/ UNCHANGED screen
      PROVE  ApartKnown'
  BY <1>0, <1>4, EndEffect, ApartEnds
<1>5. ASSUME NEW c \in Calls, Expired(c), pc[c] # "idle", UNCHANGED late PROVE ApartKnown'
  <2>1. CASE End(c)
    BY <1>0, <1>4, <1>5, <2>1 DEF Expired, MarkLoggedOut, ShowOut, ExpiredLogin, screen
  <2>2. CASE kind[c] = "restore" /\ Forget(c) /\ MarkLoggedOut
    <3>1. status' = "out"
      BY <2>2 DEF MarkLoggedOut, ShowOut, screen
    <3> QED
      BY <1>0, <1>5, <2>2, <3>1, ForgetEffect, ApartEnds
  <2> QED
    BY <1>5, <2>1, <2>2 DEF Expired
<1>6. ASSUME NEW c \in Calls, NEW place, Goto(c, place), pc[c] # "idle",
             UNCHANGED <<screen, late, kind>>
      PROVE  ApartKnown'
  BY <1>0, <1>6, GotoEffect, ApartGoesOn
<1>7. ASSUME NEW c \in Calls, NEW place, Open(c, place), pc[c] # "idle",
             UNCHANGED <<screen, late, kind>>
      PROVE  ApartKnown'
  BY <1>0, <1>7, OpenEffect, ApartGoesOn
<1>8. ASSUME NEW c \in Calls, Restore(c) \/ Accept(c) PROVE ApartKnown'
  BY <1>4, <1>6, <1>8 DEF Restore, Accept, BootstrapOut, ShowOut, ShowIn
<1>9. ASSUME NEW c \in Calls, Send(c) \/ LoginAccepted(c) \/ Refuse(c) \/ RetryRefused(c)
                              \/ WriteAccess(c) \/ ClearAccess(c)
      PROVE  ApartKnown'
  BY <1>6, <1>9 DEF Send, LoginAccepted, Refuse, RetryRefused, WriteAccess, ClearAccess
<1>10. ASSUME NEW c \in Calls, Load(c) \/ Exchange(c) PROVE ApartKnown'
  BY <1>6, <1>7, <1>10 DEF Load, Exchange
<1>11. ASSUME NEW c \in Calls, WriteRefresh(c) PROVE ApartKnown'
  <2>1. UNCHANGED <<screen, late>>
    BY <1>11 DEF WriteRefresh
  <2>2. CASE pc[c] = "halfSaved"
    BY <1>7, <1>11, <2>1, <2>2 DEF WriteRefresh, Saved
  <2>3. CASE pc[c] = "halfStored"
    <3>1. kind[c] = "login"
      BY <1>0, <2>3 DEF CallsOK, Fits
    <3> QED
      BY <1>0, <1>11, <2>1, <2>3, <3>1, StoredEffect, ApartGoesOn DEF Same
  <2> QED
    BY <1>11, <2>2, <2>3 DEF WriteRefresh, Saved
<1>12. ASSUME NEW c \in Calls, Reread(c) PROVE ApartKnown'
  BY <1>5, <1>6, <1>12 DEF Reread
<1>13. ASSUME NEW c \in Calls, ClearRefresh(c) PROVE ApartKnown'
  <2>1. pc[c] = "halfCleared" /\ UNCHANGED late
    BY <1>13 DEF ClearRefresh
  <2>2. CASE Expired(c)
    BY <1>5, <2>1, <2>2
  <2>3. CASE End(c) /\ (ShowOut \/ BootstrapOut)
    BY <1>4, <2>1, <2>3 DEF ShowOut, BootstrapOut
  <2> QED
    BY <1>13, <2>2, <2>3 DEF ClearRefresh
<1>14. CASE UNCHANGED <<pc, kind, screen, late>>
  BY <1>0, <1>14 DEF ApartKnown, screen
<1>15. ASSUME NEW s \in Sessions, ExpireAccess(s) \/ EndSession(s) PROVE ApartKnown'
  BY <1>14, <1>15 DEF ExpireAccess, EndSession, calls
<1>16. ~Timeout
  <2>1. ~disturbed'
    BY DEF Undisturbed
  <2> QED
    BY <2>1, Zenon DEF Timeout, Disturb
<1>17. CASE KillAndStart
  <2>1. status' = "unknown" /\ busy' = TRUE /\ late' = FALSE
    BY <1>17 DEF KillAndStart
  <2> QED
    BY <1>n, <1>17, <2>1, StartEffect DEF ApartKnown
<1>18. CASE UNCHANGED vars
  BY <1>14, <1>18 DEF vars, calls
<1>19. ASSUME NEW c \in Calls PROVE ~AnswerFails(c) /\ ~RefreshFails(c)
  BY <1>f DEF AnswerFails, RefreshFails
<1> QED
  BY <1>1, <1>2, <1>3, <1>8, <1>9, <1>10, <1>11, <1>12, <1>13, <1>15, <1>16, <1>17, <1>18, <1>19
  DEF Next, CallStep

(***************************************************************************)
(* The stored tokens and the user shown                                    *)
(***************************************************************************)
Half(c) == pc[c] \in {"halfSaved", "halfStored", "halfCleared"}
Clearing(c) == pc[c] \in {"clearing", "halfCleared"}
Entering(c) == kind[c] \in {"login", "mistyped"}

\* The two keys differ only while somebody is between the two writes.
WritesKnown ==
    /\ access = refresh \/ \E c \in Calls : Half(c)
    /\ \A c \in Calls :
         /\ pc[c] = "halfSaved" => access = pair[c]
         /\ pc[c] = "halfStored" => access = pair[c] /\ refresh = None
         /\ pc[c] = "halfCleared" => access = None

\* The storage is emptied of a session that has ended, and then nobody stores
\* tokens of it again.
Emptied == access = None \/ refresh = None \/ \E c \in Calls : Clearing(c)
EmptyKnown ==
    /\ Emptied => \A c \in Calls : ~Saving(c) /\ (Exchanging(c) => pair[c].s \in ended)
    /\ \A c \in Calls : Clearing(c) /\ kind[c] # "logout" => refresh = None \/ refresh.s \in ended
    /\ Emptied /\ status = "in" /\ (\A c \in Calls : kind[c] # "logout") => user \in ended

\* Behind the login page the storage is empty, or is about to be.
LoginPageKnown ==
    /\ status = "out" /\ (\A c \in Calls : ~Entering(c) /\ kind[c] # "me") =>
         refresh = None \/ \E c \in Calls : Clearing(c)
    /\ \A c \in Calls : Entering(c) => refresh = None /\ (pc[c] # "halfStored" => access = None)

\* The refresher's token is the stored one, and all are of the user shown.
Of(t, s) == t # None => t.s = s
OwnerKnown ==
    /\ \A c \in Calls : Exchanging(c) => refresh \in {None, pair[c]}
    /\ status = "in" =>
         /\ user \in Sessions /\ Of(access, user) /\ Of(refresh, user)
         /\ \A c \in Calls : Exchanging(c) \/ Saving(c) => pair[c].s = user

\* me() and restore() work with the tokens of one session.
EntryKnown(c) ==
    /\ kind[c] \in {"me", "restore"} /\ ~Clearing(c) =>
         /\ pc[c] # "restoring" => access # None /\ refresh # None
         /\ Of(refresh, access.s) /\ Of(tok[c], access.s) /\ Of(refused[c], access.s)
         /\ Of(pair[c], access.s)
    /\ kind[c] = "restore" =>
         /\ pc[c] \notin {"restoring", "reading"} => tok[c] # None
         /\ pc[c] \notin {"restoring", "reading", "sent"} => refused[c] # None
         /\ Clearing(c) => refused[c].s \in ended

StorageKnown ==
    /\ WritesKnown /\ EmptyKnown /\ LoginPageKnown /\ OwnerKnown
    /\ \A c \in Calls : EntryKnown(c)
Storage == Undisturbed => StorageKnown

LEMMA StorageGives == Typed /\ Chain /\ Storage => StorageIsPair /\ UserIsOwner
<1> SUFFICES ASSUME Typed, Chain, Storage, Undisturbed
             PROVE  /\ Quiet => /\ access = refresh
                                /\ refresh # None => refresh.g = gen[refresh.s]
                                /\ status = "out" /\ (\A c \in Calls : pc[c] = "idle") => refresh = None
                    /\ status = "in" /\ access # None => access.s = user
  BY DEF StorageIsPair, UserIsOwner
<1>1. StorageKnown /\ ChainKnown /\ CallsOK
  BY DEF Storage, Chain, Undisturbed, Typed
<1>2. ASSUME Quiet PROVE access = refresh /\ (refresh # None => refresh.g = gen[refresh.s])
  BY <1>1, <1>2 DEF Quiet, StorageKnown, WritesKnown, Half, ChainKnown, Saving, Last,
                    RefreshPlaces, WritePlaces
<1>3. ASSUME status = "out", \A c \in Calls : pc[c] = "idle" PROVE refresh = None
  BY <1>1, <1>3, Constants, Members
  DEF StorageKnown, LoginPageKnown, Entering, Clearing, CallsOK
<1>4. status = "in" /\ access # None => access.s = user
  BY <1>1 DEF StorageKnown, OwnerKnown, Of
<1> QED
  BY <1>2, <1>3, <1>4

\* A call that neither writes nor has a refresh token, before the step and after it.
Aside(place) == place \notin {"exchanging", "saving", "halfSaved", "halfStored", "clearing", "halfCleared"}

LEMMA StorageAside ==
    ASSUME Typed, StorageKnown, UNCHANGED <<storage, screen, ended>>, NEW c \in Calls,
           \A d \in Calls \ {c} : Same(d),
           Aside(pc[c]), Aside(pc'[c]),
           kind'[c] = kind[c] \/ (kind[c] = None /\ kind'[c] = "data") \/ (kind[c] = "data" /\ kind'[c] = None),
           EntryKnown(c)'
    PROVE  StorageKnown'
<1> USE DEF storage, screen, Same
<1>1. \A d \in Calls : /\ Half(d)' <=> Half(d)
                       /\ Clearing(d)' <=> Clearing(d)
                       /\ Saving(d)' <=> Saving(d)
                       /\ Exchanging(d)' <=> Exchanging(d)
                       /\ Saving(d) \/ Exchanging(d) => pair'[d] = pair[d]
  BY DEF Aside, Half, Clearing, Saving, Exchanging
<1>2. \A d \in Calls : /\ Entering(d)' <=> Entering(d)
                       /\ kind'[d] = "me" <=> kind[d] = "me"
                       /\ kind'[d] = "logout" <=> kind[d] = "logout"
                       /\ Clearing(d) => kind'[d] = kind[d]
  BY Constants, Members DEF Entering, Aside, Clearing
<1>3. WritesKnown'
  BY <1>1 DEF StorageKnown, WritesKnown, Aside
<1>4. EmptyKnown'
  BY <1>1, <1>2 DEF StorageKnown, EmptyKnown, Emptied
<1>5. LoginPageKnown'
  BY <1>1, <1>2 DEF StorageKnown, LoginPageKnown, Aside
<1>6. OwnerKnown'
  BY <1>1 DEF StorageKnown, OwnerKnown
<1>7. \A d \in Calls : EntryKnown(d)'
  BY <1>1 DEF StorageKnown, EntryKnown
<1> QED
  BY <1>3, <1>4, <1>5, <1>6, <1>7 DEF StorageKnown

\* What begins or ends with nobody else at work.
LEMMA StorageAlone ==
    ASSUME StorageKnown, CallsOK', NEW c \in Calls, \A d \in Calls \ {c} : pc'[d] = "idle",
           WritesKnown', LoginPageKnown',
           ~Saving(c)' /\ ~Exchanging(c)' /\ EntryKnown(c)',
           Clearing(c)' /\ kind'[c] # "logout" => refresh' = None,
           status' = "in" => \/ kind'[c] = "logout"
                             \/ access' # None /\ refresh' # None /\ ~Clearing(c)',
           status' = "in" => user' \in Sessions /\ Of(access', user') /\ Of(refresh', user')
    PROVE  StorageKnown'
<1>1. \A d \in Calls : d # c => /\ ~Saving(d)' /\ ~Exchanging(d)' /\ ~Clearing(d)' /\ kind'[d] = None
                                /\ ~Half(d)'
  BY DEF Saving, Exchanging, Clearing, CallsOK, Half
<1>2. EmptyKnown'
  BY <1>1, Constants, Members DEF EmptyKnown, Emptied
<1>3. OwnerKnown'
  BY <1>1 DEF OwnerKnown, Of
<1>4. \A d \in Calls \ {c} : EntryKnown(d)'
  BY <1>1, Constants, Members DEF EntryKnown
<1> QED
  BY <1>2, <1>3, <1>4 DEF StorageKnown

LEMMA NextStorage ==
    /\ Typed /\ Gate /\ Retry /\ Chain /\ Apart /\ Storage /\ [Next]_vars
    /\ Typed' 
    => Storage'
<1> SUFFICES ASSUME Typed, Gate, Retry, Chain, Apart, Storage, [Next]_vars, Typed', Undisturbed'
             PROVE  StorageKnown'
  BY DEF Storage
<1>0. /\ CallsOK /\ RestOK /\ CallsOK' /\ Undisturbed /\ OneRefresh /\ ChainKnown /\ ApartKnown
      /\ StorageKnown /\ RetryKnown
  BY CalmBefore DEF Typed, Apart, Gate, Chain, Storage, Undisturbed, Retry
<1>f. ~Fault
  BY <1>0, FaultOK DEF Undisturbed
<1>n. None \notin {"login", "mistyped", "me", "restore", "forget", "logout", "data"}
  BY Constants, Members
<1>i. \A c \in Calls : pc[c] # "idle" <=> kind[c] # None
  BY <1>0 DEF CallsOK
<1>a. \A c \in Calls : kind[c] \notin {None, "data"} => \A d \in Calls \ {c} : pc[d] = "idle"
  BY <1>0 DEF ApartKnown
<1>g. \A c, d \in Calls : pc[c] \in RefreshPlaces /\ pc[d] \in RefreshPlaces => c = d
  BY <1>0 DEF OneRefresh
<1> USE DEF storage, server
<1>1. ASSUME NEW c \in Calls, Request(c) PROVE StorageKnown'
  <2>1. Begin(c, "data", "reading") /\ UNCHANGED <<storage, screen, ended>>
    BY <1>1 DEF Request, Begin
  <2>2. EntryKnown(c)'
    BY <1>0, <2>1, BeginEffect DEF EntryKnown
  <2>3. /\ pc[c] = "idle" /\ pc'[c] = "reading" /\ kind[c] = None /\ kind'[c] = "data"
        /\ \A d \in Calls \ {c} : Same(d)
    BY <1>0, <2>1, BeginEffect
  <2> QED
    BY <1>0, <2>1, <2>2, <2>3, StorageAside DEF Aside
<1>2. ASSUME NEW c \in Calls, Login(c) PROVE StorageKnown'
  <2>1. PICK k \in {"login", "mistyped"} : Begin(c, k, "reading")
    BY <1>2 DEF Login
  <2>2. \A d \in Calls : pc[d] = "idle"
    <3>1. overlapped' = (overlapped \/ \E d \in Calls : pc[d] # "idle")
      BY <1>2 DEF Login, Overlap
    <3>2. ~overlapped'
      BY DEF Undisturbed
    <3> QED
      BY <3>1, <3>2
  <2>3. status = "out" /\ UNCHANGED <<storage, status, user, ended>>
    BY <1>0, <1>2, <2>1 DEF Login, LoginShown, Begin, ApartKnown, RestOK
  <2>4. access = None /\ refresh = None
    BY <1>0, <1>i, <1>n, <2>2, <2>3
    DEF StorageKnown, WritesKnown, LoginPageKnown, Half, Clearing, Entering
  <2>5. /\ pc'[c] = "reading" /\ kind'[c] = k
        /\ \A d \in Calls \ {c} : pc'[d] = "idle" /\ kind'[d] = None
    BY <1>0, <1>i, <2>1, <2>2, BeginEffect DEF Same
  <2>6. WritesKnown' /\ LoginPageKnown'
    BY <1>n, <2>3, <2>4, <2>5 DEF WritesKnown, LoginPageKnown, Half, Entering
  <2>7. EntryKnown(c)' /\ ~Saving(c)' /\ ~Exchanging(c)' /\ ~Clearing(c)'
    BY <2>5 DEF EntryKnown, Saving, Exchanging, Clearing
  <2> QED
    BY <1>0, <2>3, <2>4, <2>5, <2>6, <2>7, StorageAlone
<1>3. ASSUME NEW c \in Calls, Logout(c) PROVE StorageKnown'
  <2>1. Begin(c, "logout", "clearing") /\ UNCHANGED <<storage, screen, ended>> /\ status = "in"
    BY <1>3 DEF Logout, Begin
  <2>2. \A d \in Calls : pc[d] = "idle"
    <3>1. disturbed' = (disturbed \/ \E d \in Calls : pc[d] # "idle")
      BY <1>3 DEF Logout, Disturb
    <3>2. ~disturbed'
      BY DEF Undisturbed
    <3> QED
      BY <3>1, <3>2
  <2>3. /\ pc'[c] = "clearing" /\ kind'[c] = "logout"
        /\ \A d \in Calls \ {c} : pc'[d] = "idle" /\ kind'[d] = None
    BY <1>0, <1>i, <2>1, <2>2, BeginEffect DEF Same
  <2>4. WritesKnown' /\ LoginPageKnown'
    BY <1>0, <1>n, <2>1, <2>2, <2>3
    DEF StorageKnown, WritesKnown, LoginPageKnown, Half, Entering, screen
  <2>5. EntryKnown(c)' /\ ~Saving(c)' /\ ~Exchanging(c)'
    BY <2>3 DEF EntryKnown, Saving, Exchanging
  <2>6. user' \in Sessions /\ Of(access', user') /\ Of(refresh', user')
    BY <1>0, <2>1 DEF StorageKnown, OwnerKnown, Of, screen
  <2> QED
    BY <1>0, <2>1, <2>3, <2>4, <2>5, <2>6, StorageAlone
<1>4. ASSUME NEW c \in Calls, Restore(c) PROVE StorageKnown'
  <2>1. kind[c] = "restore" /\ pc[c] = "restoring" /\ UNCHANGED <<access, refresh, ended>>
    BY <1>0, <1>4 DEF Restore, CallsOK, Fits
  <2>2. \A d \in Calls \ {c} : pc[d] = "idle"
    BY <1>a, <1>n, <2>1
  <2>3. access = refresh
    BY <1>0, <2>1, <2>2 DEF StorageKnown, WritesKnown, Half
  <2>4. CASE access = None
    <3>1. End(c) /\ status' = "out"
      BY <1>0, <1>4, <2>4 DEF Restore, BootstrapOut, ShowOut, ApartKnown
    <3>2. pc'[c] = "idle" /\ \A d \in Calls \ {c} : pc'[d] = "idle"
      BY <1>0, <2>2, <3>1, EndEffect DEF Same
    <3>3. \A d \in Calls : kind'[d] = None
      BY <1>0, <3>2 DEF CallsOK
    <3>4. WritesKnown' /\ LoginPageKnown'
      BY <1>n, <2>1, <2>3, <2>4, <3>2, <3>3 DEF WritesKnown, LoginPageKnown, Half, Entering
    <3>5. EntryKnown(c)' /\ ~Saving(c)' /\ ~Exchanging(c)' /\ ~Clearing(c)'
      BY <1>n, <3>2, <3>3 DEF EntryKnown, Saving, Exchanging, Clearing
    <3> QED
      BY <1>0, <3>1, <3>2, <3>4, <3>5, StorageAlone
  <2>5. CASE access # None
    <3>1. Goto(c, "reading") /\ UNCHANGED <<kind, tok, refused, pair, screen>>
      BY <1>4, <2>5 DEF Restore
    <3>2. pc'[c] = "reading" /\ \A d \in Calls \ {c} : Same(d)
      BY <1>0, <3>1, GotoEffect DEF Same
    <3>3. EntryKnown(c)'
      BY <1>0, <2>1, <2>3, <2>5, <3>1, <3>2 DEF StorageKnown, EntryKnown, Clearing
    <3> QED
      BY <1>0, <2>1, <3>1, <3>2, <3>3, StorageAside DEF Aside
  <2> QED
    BY <2>4, <2>5
<1>5. ASSUME NEW c \in Calls, Send(c) PROVE StorageKnown'
  <2>1. /\ tok'[c] = IF access = None THEN tok[c] ELSE access
        /\ \A d \in Calls \ {c} : Same(d)
        /\ kind'[c] = kind[c] /\ refused'[c] = refused[c] /\ pair'[c] = pair[c]
    BY <1>0, <1>5, GotoEffect DEF Send, CallsOK, Same
  <2>2. (pc[c] = "reading" /\ pc'[c] = "sent") \/ (pc[c] = "resending" /\ pc'[c] = "resent")
    BY <1>0, <1>5, GotoEffect DEF Send
  <2>3. UNCHANGED <<storage, screen, ended>>
    BY <1>5 DEF Send
  <2>4. EntryKnown(c)'
    BY <1>0, <2>1, <2>2, <2>3 DEF StorageKnown, EntryKnown, Clearing, Of
  <2> QED
    BY <1>0, <2>1, <2>2, <2>3, <2>4, StorageAside DEF Aside
<1>6. ASSUME NEW c \in Calls, Accept(c) PROVE StorageKnown'
  <2>1. pc[c] \in {"sent", "resent"} /\ End(c) /\ UNCHANGED <<storage, ended>> /\ Valid(tok[c])
    BY <1>6 DEF Accept
  <2>2. pc'[c] = "idle" /\ kind'[c] = None /\ \A d \in Calls \ {c} : Same(d)
    BY <1>0, <2>1, EndEffect
  <2>3. EntryKnown(c)' /\ ~Saving(c)' /\ ~Exchanging(c)' /\ ~Clearing(c)'
    BY <1>n, <2>2 DEF EntryKnown, Saving, Exchanging, Clearing
  <2>4. CASE kind[c] = "data"
    BY <1>0, <1>6, <2>1, <2>2, <2>3, <2>4, StorageAside DEF Aside, Accept
  <2>5. CASE kind[c] \in {"me", "restore"}
    <3>1. status' = "in" /\ user' = tok[c].s
      BY <1>0, <1>6, <2>5 DEF Accept, ShowIn, ApartKnown
    <3>2. \A d \in Calls : pc'[d] = "idle"
      BY <1>a, <1>n, <2>2, <2>5 DEF Same
    <3>3. /\ access # None /\ refresh # None
          /\ Of(refresh, access.s) /\ tok[c].s = access.s
      BY <1>0, <2>1, <2>5 DEF StorageKnown, EntryKnown, Clearing, Of, Valid
    <3>4. user' \in Sessions /\ Of(access', user') /\ Of(refresh', user')
      BY <1>0, <2>1, <3>1, <3>3, PairFields DEF Of, RestOK
    <3>5. access = refresh
      BY <1>0, <1>a, <1>n, <2>1, <2>5 DEF StorageKnown, WritesKnown, Half
    <3>6. WritesKnown' /\ LoginPageKnown'
      <4>1. \A d \in Calls : kind'[d] = None
        BY <1>0, <3>2 DEF CallsOK
      <4> QED
        BY <1>n, <2>1, <3>1, <3>2, <3>5, <4>1 DEF WritesKnown, LoginPageKnown, Entering
    <3> QED
      BY <1>0, <2>1, <2>3, <3>2, <3>3, <3>4, <3>6, StorageAlone
  <2> QED
    BY <1>6, <2>4, <2>5 DEF Accept
<1>7. ASSUME NEW c \in Calls, LoginAccepted(c) PROVE StorageKnown'
  <2>1. pc[c] \in {"sent", "resent"} /\ UNCHANGED <<storage, screen, ended>>
    BY <1>7 DEF LoginAccepted
  <2>2. EntryKnown(c)'
    BY <1>0, <1>7, LoginEffect DEF EntryKnown
  <2> QED
    BY <1>0, <1>7, <2>1, <2>2, LoginEffect, StorageAside DEF Aside
<1>8. ASSUME NEW c \in Calls, Refuse(c) PROVE StorageKnown'
  <2>1. /\ pc[c] = "sent" /\ UNCHANGED <<storage, screen, ended>>
        /\ refused'[c] = tok[c] /\ kind'[c] = kind[c] /\ tok'[c] = tok[c] /\ pair'[c] = pair[c]
        /\ pc'[c] \in {"waiting", "loading"} /\ \A d \in Calls \ {c} : Same(d)
    BY <1>0, <1>8, GotoEffect DEF Refuse, CallsOK, Same
  <2>2. EntryKnown(c)'
    BY <1>0, <2>1 DEF StorageKnown, EntryKnown, Clearing
  <2> QED
    BY <1>0, <2>1, <2>2, StorageAside DEF Aside
<1>9. ASSUME NEW c \in Calls, RetryRefused(c) PROVE StorageKnown'
  <2>1. /\ pc[c] = "resent" /\ kind[c] = "mistyped" /\ Goto(c, "clearing")
        /\ UNCHANGED <<storage, screen, ended, kind, tok, refused, pair>>
    BY <1>0, <1>f, <1>9 DEF RetryRefused, Unauthorized, RetryKnown
  <2>2. access = None /\ refresh = None /\ status = "out"
    BY <1>0, <2>1 DEF StorageKnown, LoginPageKnown, ApartKnown, Entering
  <2>3. pc'[c] = "clearing" /\ \A d \in Calls \ {c} : pc'[d] = "idle"
    BY <1>0, <1>a, <1>n, <2>1, GotoEffect
  <2>4. WritesKnown' /\ LoginPageKnown'
    BY <1>0, <2>1, <2>2, <2>3 DEF StorageKnown, LoginPageKnown, WritesKnown, Entering, Clearing
  <2>5. EntryKnown(c)' /\ ~Saving(c)' /\ ~Exchanging(c)'
    BY <2>1, <2>3 DEF EntryKnown, Saving, Exchanging
  <2> QED
    BY <1>0, <2>1, <2>2, <2>3, <2>4, <2>5, StorageAlone DEF screen
<1>10. ASSUME NEW c \in Calls, Load(c), refresh = None PROVE StorageKnown'
  <2>1. /\ UNCHANGED <<storage, screen, ended, kind, tok, refused>> /\ Open(c, "clearing")
        /\ pc[c] = "loading" /\ \A d \in Calls \ {c} : pair'[d] = pair[d]
    BY <1>0, <1>10 DEF Load, CallsOK
  <2>2. \A d \in Calls : \/ pc'[d] = pc[d] /\ pair'[d] = pair[d]
                         \/ pc'[d] = "clearing" /\ pc[d] \in {"loading", "waiting"}
    BY <1>0, <2>1, OpenEffect
  <2>3. \A d \in Calls : /\ Half(d)' <=> Half(d)
                         /\ Half(d) => pc'[d] = pc[d] /\ pair'[d] = pair[d]
                         /\ Saving(d)' <=> Saving(d)
                         /\ Exchanging(d)' <=> Exchanging(d)
                         /\ Exchanging(d) \/ Saving(d) => pair'[d] = pair[d]
                         /\ Clearing(d) => Clearing(d)'
    BY <2>2 DEF Half, Saving, Exchanging, Clearing
  <2>4. WritesKnown'
    BY <1>0, <2>1, <2>2, <2>3 DEF StorageKnown, WritesKnown, Half
  <2>5. EmptyKnown'
    BY <1>0, <1>10, <2>1, <2>3 DEF StorageKnown, EmptyKnown, Emptied, screen
  <2>6. LoginPageKnown'
    BY <1>0, <1>10, <2>1, <2>2 DEF StorageKnown, LoginPageKnown, screen, Entering
  <2>7. OwnerKnown'
    BY <1>0, <2>1, <2>3 DEF StorageKnown, OwnerKnown, screen
  <2>8. ASSUME NEW d \in Calls PROVE EntryKnown(d)'
    <3>1. CASE kind[d] \in {"me", "restore"}
      <4>1. pc'[d] = pc[d] /\ pair'[d] = pair[d]
        BY <1>0, <1>10, <2>2, <3>1 DEF StorageKnown, EntryKnown, Clearing
      <4> QED
        BY <1>0, <2>1, <4>1 DEF StorageKnown, EntryKnown, Clearing
    <3>2. CASE kind[d] \notin {"me", "restore"}
      BY <2>1, <3>2 DEF EntryKnown
    <3> QED
      BY <3>1, <3>2
  <2> QED
    BY <2>4, <2>5, <2>6, <2>7, <2>8 DEF StorageKnown
<1>11. ASSUME NEW c \in Calls, Load(c), refresh # None PROVE StorageKnown'
  <2>1. /\ UNCHANGED <<storage, screen, ended, kind, tok, refused>> /\ Goto(c, "exchanging")
        /\ pc[c] = "loading" /\ pair'[c] = refresh /\ \A d \in Calls \ {c} : pair'[d] = pair[d]
    BY <1>0, <1>11 DEF Load, CallsOK
  <2>2. pc'[c] = "exchanging" /\ \A d \in Calls \ {c} : pc'[d] = pc[d]
    BY <1>0, <2>1, GotoEffect
  <2>3. \A d \in Calls \ {c} : ~Saving(d) /\ ~Exchanging(d)
    BY <1>g, <2>1 DEF Saving, Exchanging, RefreshPlaces
  <2>4. \A d \in Calls : /\ Half(d)' <=> Half(d)
                         /\ Half(d) => pc'[d] = pc[d] /\ pair'[d] = pair[d]
                         /\ ~Saving(d)'
                         /\ Exchanging(d)' <=> d = c
                         /\ Clearing(d)' <=> Clearing(d)
    BY <2>1, <2>2, <2>3 DEF Half, Saving, Exchanging, Clearing
  <2>5. Emptied => refresh.s \in ended
    <3>1. \A d \in Calls : Clearing(d) => kind[d] # "logout"
      BY <1>a, <1>n, <2>1 DEF Clearing
    <3>2. ASSUME access = None PROVE \E d \in Calls : Clearing(d)
      <4>1. PICK d \in Calls : Half(d)
        BY <1>0, <1>11, <3>2 DEF StorageKnown, WritesKnown
      <4>2. pc[d] # "halfStored"
        BY <1>0, <1>a, <1>n, <2>1 DEF CallsOK, Fits
      <4> QED
        BY <2>1, <2>3, <4>1, <4>2 DEF Half, Saving, Clearing
    <3> QED
      BY <1>0, <1>11, <3>1, <3>2 DEF Emptied, StorageKnown, EmptyKnown
  <2>6. WritesKnown'
    BY <1>0, <2>1, <2>4 DEF StorageKnown, WritesKnown, Half
  <2>7. EmptyKnown'
    BY <1>0, <2>1, <2>4, <2>5 DEF StorageKnown, EmptyKnown, Emptied, screen
  <2>8. LoginPageKnown'
    BY <1>0, <2>1, <2>2, <2>4 DEF StorageKnown, LoginPageKnown, screen, Entering
  <2>9. OwnerKnown'
    BY <1>0, <1>11, <2>1, <2>4 DEF StorageKnown, OwnerKnown, Of, screen
  <2>10. \A d \in Calls : EntryKnown(d)'
    BY <1>0, <2>1, <2>2, <2>4 DEF StorageKnown, EntryKnown
  <2> QED
    BY <2>6, <2>7, <2>8, <2>9, <2>10 DEF StorageKnown
<1>12. ASSUME NEW c \in Calls, Exchange(c), Live(pair[c]) PROVE StorageKnown'
  <2>1. UNCHANGED <<storage, screen, ended>> /\ pc[c] = "exchanging"
    BY <1>12 DEF Exchange
  <2>2. \A d \in Calls \ {c} : ~Saving(d) /\ ~Exchanging(d)
    BY <1>g, <2>1 DEF Saving, Exchanging, RefreshPlaces
  <2>3. \A d \in Calls : /\ Half(d)' <=> Half(d)
                         /\ Half(d) => pc'[d] = pc[d] /\ pair'[d] = pair[d]
                         /\ Saving(d)' <=> d = c
                         /\ ~Exchanging(d)'
                         /\ Clearing(d)' <=> Clearing(d)
                         /\ kind'[d] = kind[d]
    BY <1>0, <1>12, <2>1, <2>2, ExchangeEffect DEF Half, Saving, Exchanging, Clearing, Same
  <2>4. ~Emptied
    BY <1>0, <1>12, <2>1 DEF StorageKnown, EmptyKnown, Exchanging, Live
  <2>5. WritesKnown'
    BY <1>0, <2>1, <2>3 DEF StorageKnown, WritesKnown, Half
  <2>6. EmptyKnown'
    BY <2>1, <2>3, <2>4 DEF EmptyKnown, Emptied
  <2>7. LoginPageKnown'
    BY <1>0, <2>1, <2>3, <2>4 DEF StorageKnown, LoginPageKnown, screen, Entering, Emptied
  <2>8. OwnerKnown'
    BY <1>0, <1>12, <2>1, <2>3, ExchangeEffect DEF StorageKnown, OwnerKnown, Exchanging, screen
  <2>9. EntryKnown(c)'
    BY <1>0, <1>12, <2>1, <2>3, ExchangeEffect, Constants DEF StorageKnown, EntryKnown, Of
  <2>10. \A d \in Calls \ {c} : EntryKnown(d)'
    BY <1>0, <1>12, <2>1, <2>3, ExchangeEffect DEF StorageKnown, EntryKnown, Same
  <2> QED
    BY <2>5, <2>6, <2>7, <2>8, <2>9, <2>10 DEF StorageKnown
<1>13. ASSUME NEW c \in Calls, Exchange(c), ~Live(pair[c]) PROVE StorageKnown'
  <2>1. /\ UNCHANGED <<storage, screen, ended, kind, tok, refused, pair>>
        /\ pc[c] = "exchanging" /\ Open(c, "clearing")
    BY <1>13 DEF Exchange
  <2>2. \A d \in Calls : \/ pc'[d] = pc[d] /\ d # c
                         \/ pc'[d] = "clearing" /\ pc[d] \in {"exchanging", "waiting"}
    BY <1>0, <2>1, OpenEffect
  <2>3. \A d \in Calls : pc[d] \in RefreshPlaces => d = c
    BY <1>g, <2>1 DEF RefreshPlaces
  <2>4. \A d \in Calls : /\ Half(d)' <=> Half(d)
                         /\ Half(d) => pc'[d] = pc[d]
                         /\ ~Saving(d)' /\ ~Exchanging(d)'
                         /\ Clearing(d) => Clearing(d)'
    BY <2>2, <2>3 DEF Half, Saving, Exchanging, Clearing, RefreshPlaces
  <2>5. pair[c].s \in ended /\ refresh \in {None, pair[c]}
    BY <1>0, <1>13, <2>1 DEF ChainKnown, Last, Live, Exchanging, StorageKnown, OwnerKnown
  <2>6. status = "in" => user \in ended
    BY <1>0, <2>1, <2>5 DEF StorageKnown, OwnerKnown, Exchanging
  <2>7. WritesKnown'
    BY <1>0, <2>1, <2>4 DEF StorageKnown, WritesKnown, Half
  <2>8. EmptyKnown'
    BY <2>1, <2>4, <2>5, <2>6 DEF EmptyKnown, screen
  <2>9. LoginPageKnown'
    BY <1>0, <2>1, <2>2, <2>4 DEF StorageKnown, LoginPageKnown, screen, Entering
  <2>10. OwnerKnown'
    BY <1>0, <2>1, <2>4 DEF StorageKnown, OwnerKnown, screen
  <2>11. EntryKnown(c)'
    BY <1>0, <2>1, <2>2, <2>5, Constants DEF StorageKnown, EntryKnown, Clearing, Of, CallsOK, Fits
  <2>12. ASSUME NEW d \in Calls \ {c} PROVE EntryKnown(d)'
    <3>1. CASE kind[d] \in {"me", "restore"}
      BY <1>a, <1>n, <2>1, <3>1
    <3>2. CASE kind[d] \notin {"me", "restore"}
      BY <2>1, <3>2 DEF EntryKnown
    <3> QED
      BY <3>1, <3>2
  <2> QED
    BY <2>7, <2>8, <2>9, <2>10, <2>11, <2>12 DEF StorageKnown
<1>14. ASSUME NEW c \in Calls, WriteAccess(c), pc[c] = "saving" PROVE StorageKnown'
  <2>1. /\ access' = pair[c] /\ pair[c] \in Pair
        /\ UNCHANGED <<refresh, screen, ended, kind, tok, refused, pair>>
    BY <1>0, <1>14 DEF WriteAccess, CallsOK, Fits
  <2>2. pc'[c] = "halfSaved" /\ \A d \in Calls \ {c} : pc'[d] = pc[d]
    BY <1>0, <1>14, GotoEffect DEF WriteAccess
  <2>3. \A d \in Calls \ {c} : ~Saving(d) /\ ~Exchanging(d)
    BY <1>g, <1>14 DEF Saving, Exchanging, RefreshPlaces
  <2>4. ~Emptied
    BY <1>0, <1>14 DEF StorageKnown, EmptyKnown, Saving
  <2>5. access' # None /\ refresh' # None /\ \A d \in Calls : ~Clearing(d)' /\ ~Entering(d)'
    BY <1>0, <2>1, <2>2, <2>4, Constants DEF Emptied, Clearing, Entering, StorageKnown, LoginPageKnown
  <2>6. \A d \in Calls : Half(d)' => d = c
    BY <1>0, <2>2, <2>3, <2>4, <2>5
    DEF Half, Clearing, Saving, StorageKnown, WritesKnown, Emptied
  <2>7. WritesKnown'
    BY <2>1, <2>2, <2>6 DEF WritesKnown, Half
  <2>8. EmptyKnown'
    BY <2>5 DEF EmptyKnown, Emptied
  <2>9. LoginPageKnown'
    BY <1>0, <2>1, <2>4, <2>5 DEF StorageKnown, LoginPageKnown, screen, Emptied, Entering
  <2>10. OwnerKnown'
    BY <1>0, <1>14, <2>1, <2>2, <2>3 DEF StorageKnown, OwnerKnown, Exchanging, Saving, Of, screen
  <2>11. EntryKnown(c)'
    BY <1>0, <1>14, <2>1, <2>2, <2>5, Constants DEF StorageKnown, EntryKnown, Of, Clearing
  <2>12. ASSUME NEW d \in Calls \ {c} PROVE EntryKnown(d)'
    BY <1>a, <1>n, <1>14, <2>1 DEF EntryKnown
  <2> QED
    BY <2>7, <2>8, <2>9, <2>10, <2>11, <2>12 DEF StorageKnown
<1>15. ASSUME NEW c \in Calls, WriteAccess(c), pc[c] = "storing" PROVE StorageKnown'
  <2>1. access' = pair[c] /\ UNCHANGED <<refresh, screen, ended, kind, tok, refused, pair>>
    BY <1>15 DEF WriteAccess
  <2>2. kind[c] = "login" /\ status = "out" /\ refresh = None
    BY <1>0, <1>15 DEF CallsOK, Fits, ApartKnown, StorageKnown, LoginPageKnown, Entering
  <2>3. pc'[c] = "halfStored" /\ \A d \in Calls \ {c} : pc'[d] = "idle"
    BY <1>0, <1>a, <1>n, <1>15, <2>2, GotoEffect DEF WriteAccess
  <2>4. \A d \in Calls \ {c} : kind'[d] = None
    BY <1>0, <2>3 DEF CallsOK
  <2>5. WritesKnown' /\ LoginPageKnown'
    BY <1>n, <2>1, <2>2, <2>3, <2>4 DEF WritesKnown, LoginPageKnown, Half, Entering
  <2>6. EntryKnown(c)' /\ ~Saving(c)' /\ ~Exchanging(c)' /\ ~Clearing(c)'
    BY <2>1, <2>2, <2>3 DEF EntryKnown, Saving, Exchanging, Clearing
  <2> QED
    BY <1>0, <2>1, <2>2, <2>3, <2>5, <2>6, StorageAlone DEF screen
<1>16. ASSUME NEW c \in Calls, WriteRefresh(c), pc[c] = "halfSaved" PROVE StorageKnown'
  <2>1. /\ refresh' = pair[c] /\ pair[c] \in Pair /\ access = pair[c] /\ Open(c, "rereading")
        /\ UNCHANGED <<access, screen, ended, kind, tok, refused, pair>>
    BY <1>0, <1>16 DEF WriteRefresh, Saved, CallsOK, Fits, StorageKnown, WritesKnown
  <2>2. \A d \in Calls : \/ pc'[d] = pc[d] /\ d # c
                         \/ pc'[d] = "rereading" /\ pc[d] \in {"halfSaved", "waiting"}
    BY <1>0, <1>16, <2>1, OpenEffect
  <2>3. \A d \in Calls \ {c} : ~Saving(d) /\ ~Exchanging(d)
    BY <1>g, <1>16 DEF Saving, Exchanging, RefreshPlaces
  <2>4. ~Emptied
    BY <1>0, <1>16 DEF StorageKnown, EmptyKnown, Saving
  <2>5. access' # None /\ refresh' # None /\ \A d \in Calls : ~Clearing(d)' /\ ~Entering(d)'
    BY <1>0, <2>1, <2>2, <2>4, Constants DEF Emptied, Clearing, Entering, StorageKnown, LoginPageKnown
  <2>6. \A d \in Calls : ~Saving(d)' /\ ~Exchanging(d)'
    BY <1>16, <2>2, <2>3 DEF Saving, Exchanging
  <2>7. \A d \in Calls : pc'[d] \in {"halfSaved", "halfStored", "halfCleared"} => FALSE
    <3>1. \A d \in Calls : pc[d] # "halfStored"
      BY <1>0, <2>4 DEF StorageKnown, WritesKnown, Emptied
    <3> QED
      BY <2>2, <2>5, <2>6, <3>1 DEF Saving, Clearing
  <2>8. WritesKnown'
    BY <2>1, <2>7 DEF WritesKnown
  <2>9. EmptyKnown'
    BY <2>5 DEF EmptyKnown, Emptied
  <2>10. LoginPageKnown'
    BY <1>0, <2>1, <2>4, <2>5 DEF StorageKnown, LoginPageKnown, screen, Emptied, Entering
  <2>11. OwnerKnown'
    BY <1>0, <1>16, <2>1, <2>6 DEF StorageKnown, OwnerKnown, Saving, Of, screen
  <2>12. EntryKnown(c)'
    BY <1>0, <1>16, <2>1, <2>2, <2>5, Constants DEF StorageKnown, EntryKnown, Of, Clearing
  <2>13. ASSUME NEW d \in Calls \ {c} PROVE EntryKnown(d)'
    BY <1>a, <1>n, <1>16, <2>1 DEF EntryKnown
  <2> QED
    BY <2>8, <2>9, <2>10, <2>11, <2>12, <2>13 DEF StorageKnown
<1>17. ASSUME NEW c \in Calls, WriteRefresh(c), pc[c] = "halfStored" PROVE StorageKnown'
  <2>1. /\ refresh' = pair[c] /\ access = pair[c] /\ UNCHANGED <<access, screen, ended>>
        /\ pair[c] \in Pair /\ kind[c] = "login"
    BY <1>0, <1>17 DEF WriteRefresh, CallsOK, Fits, StorageKnown, WritesKnown
  <2>2. status = "out"
    BY <1>0, <2>1 DEF ApartKnown
  <2>3. /\ pc'[c] = "reading" /\ kind'[c] = "me"
        /\ tok'[c] = None /\ refused'[c] = None /\ pair'[c] = None
        /\ \A d \in Calls \ {c} : pc'[d] = "idle"
    BY <1>0, <1>a, <1>n, <1>17, <2>1, StoredEffect DEF Same
  <2>4. \A d \in Calls \ {c} : kind'[d] = None
    BY <1>0, <2>3 DEF CallsOK
  <2>5. WritesKnown' /\ LoginPageKnown'
    BY <1>n, <2>1, <2>2, <2>3, <2>4 DEF WritesKnown, LoginPageKnown, Half, Entering
  <2>6. EntryKnown(c)' /\ ~Saving(c)' /\ ~Exchanging(c)' /\ ~Clearing(c)'
    BY <2>1, <2>3, Constants DEF EntryKnown, Saving, Exchanging, Clearing, Of
  <2> QED
    BY <1>0, <2>1, <2>2, <2>3, <2>5, <2>6, StorageAlone DEF screen
<1>18. ASSUME NEW c \in Calls, Reread(c), access # None PROVE StorageKnown'
  <2>1. /\ UNCHANGED <<storage, screen, ended, kind, refused, pair>>
        /\ pc[c] = "rereading" /\ pc'[c] = "resending" /\ tok'[c] = access
        /\ \A d \in Calls \ {c} : Same(d)
    BY <1>0, <1>18, GotoEffect DEF Reread, CallsOK, Same
  <2>2. EntryKnown(c)'
    BY <1>0, <1>18, <2>1 DEF StorageKnown, EntryKnown, Clearing, Of
  <2> QED
    BY <1>0, <2>1, <2>2, StorageAside DEF Aside
\* The end of a session: the call is over, and the keys are emptied or will be.
<1>19. ASSUME NEW c \in Calls, pc[c] # "idle", End(c), UNCHANGED <<access, ended>>,
              refresh' \in {refresh, None},
              access = None, refresh' = None \/ \E d \in Calls \ {c} : Clearing(d),
              ~Half(c) \/ (pc[c] = "halfCleared" /\ refresh' = None),
              status' = "out"
       PROVE  StorageKnown'
  <2>1. pc'[c] = "idle" /\ kind'[c] = None /\ \A d \in Calls \ {c} : Same(d)
    BY <1>0, <1>19, EndEffect
  <2>2. ~Half(c)' /\ ~Clearing(c)' /\ ~Saving(c)' /\ ~Exchanging(c)' /\ ~Entering(c)'
    BY <1>n, <2>1 DEF Half, Clearing, Saving, Exchanging, Entering
  <2>3. \A d \in Calls \ {c} : /\ Half(d)' <=> Half(d)
                               /\ Clearing(d)' <=> Clearing(d)
                               /\ Saving(d)' <=> Saving(d)
                               /\ Exchanging(d)' <=> Exchanging(d)
                               /\ Entering(d)' <=> Entering(d)
    BY <2>1 DEF Half, Clearing, Saving, Exchanging, Entering, Same
  <2>4. WritesKnown'
    BY <1>0, <1>19, <2>1, <2>2, <2>3 DEF StorageKnown, WritesKnown, Same, Half
  <2>5. EmptyKnown'
    BY <1>0, <1>19, <2>1, <2>2, <2>3 DEF StorageKnown, EmptyKnown, Same, Emptied
  <2>6. LoginPageKnown'
    BY <1>0, <1>19, <2>1, <2>2, <2>3 DEF StorageKnown, LoginPageKnown, Same
  <2>7. OwnerKnown'
    BY <1>0, <1>19, <2>1, <2>2, <2>3 DEF StorageKnown, OwnerKnown, Same
  <2>8. \A d \in Calls : EntryKnown(d)'
    BY <1>0, <1>n, <1>19, <2>1, <2>2, <2>3 DEF StorageKnown, EntryKnown, Same, Of
  <2> QED
    BY <2>4, <2>5, <2>6, <2>7, <2>8 DEF StorageKnown
<1>20. ASSUME NEW c \in Calls, Reread(c), access = None PROVE StorageKnown'
  <2>1. Expired(c) /\ pc[c] = "rereading" /\ UNCHANGED <<storage, ended>>
    BY <1>20 DEF Reread
  <2>2. kind[c] \notin {"me", "restore"}
    BY <1>0, <1>20, <2>1 DEF StorageKnown, EntryKnown, Clearing
  <2>3. End(c) /\ status' = "out"
    BY <2>1, <2>2 DEF Expired, MarkLoggedOut, ExpiredLogin, ShowOut, screen
  <2>4. refresh = None \/ \E d \in Calls \ {c} : Clearing(d)
    <3>1. CASE refresh # None
      <4>1. PICK d \in Calls : Half(d)
        BY <1>0, <1>20, <3>1 DEF StorageKnown, WritesKnown
      <4>2. pc[d] # "halfSaved"
        BY <1>0, <1>20 DEF StorageKnown, EmptyKnown, Emptied, Saving
      <4>3. pc[d] # "halfStored"
        BY <1>0, <3>1 DEF StorageKnown, WritesKnown
      <4> QED
        BY <2>1, <4>1, <4>2, <4>3 DEF Half, Clearing
    <3> QED
      BY <3>1
  <2> QED
    BY <1>19, <1>20, <2>1, <2>3, <2>4 DEF Half
<1>21. ASSUME NEW c \in Calls, ClearAccess(c) PROVE StorageKnown'
  <2>1. /\ access' = None /\ pc[c] = "clearing"
        /\ UNCHANGED <<refresh, screen, ended, kind, tok, refused, pair>>
    BY <1>21 DEF ClearAccess
  <2>2. pc'[c] = "halfCleared" /\ \A d \in Calls \ {c} : pc'[d] = pc[d]
    BY <1>0, <1>21, GotoEffect DEF ClearAccess
  <2>3. Clearing(c) /\ Emptied
    BY <2>1 DEF Clearing, Emptied
  <2>4. \A d \in Calls : /\ Clearing(d)' <=> Clearing(d)
                         /\ Saving(d)' <=> Saving(d)
                         /\ Exchanging(d)' <=> Exchanging(d)
                         /\ pc[d] # "halfStored" /\ pc'[d] # "halfStored"
                         /\ Entering(d)' <=> Entering(d)
    <3>1. \A d \in Calls \ {c} : pc[d] # "halfStored"
      BY <1>0, <1>a, <1>n, <2>1 DEF CallsOK, Fits
    <3> QED
      BY <2>1, <2>2, <3>1 DEF Clearing, Saving, Exchanging, Entering
  <2>5. \A d \in Calls : ~Saving(d)
    BY <1>0, <2>3 DEF StorageKnown, EmptyKnown
  <2>6. WritesKnown'
    BY <2>1, <2>2, <2>4, <2>5 DEF WritesKnown, Half, Saving
  <2>7. EmptyKnown'
    BY <1>0, <2>1, <2>3, <2>4 DEF StorageKnown, EmptyKnown, screen
  <2>8. LoginPageKnown'
    BY <1>0, <2>1, <2>4 DEF StorageKnown, LoginPageKnown, screen
  <2>9. OwnerKnown'
    BY <1>0, <2>1, <2>4 DEF StorageKnown, OwnerKnown, screen, Of
  <2>10. EntryKnown(c)'
    BY <1>0, <2>1, <2>2, <2>3, <2>4 DEF StorageKnown, EntryKnown
  <2>11. ASSUME NEW d \in Calls \ {c} PROVE EntryKnown(d)'
    BY <1>a, <1>n, <2>1 DEF EntryKnown
  <2> QED
    BY <2>6, <2>7, <2>8, <2>9, <2>10, <2>11 DEF StorageKnown
<1>22. ASSUME NEW c \in Calls, ClearRefresh(c) PROVE StorageKnown'
  <2>1. pc[c] = "halfCleared" /\ refresh' = None /\ UNCHANGED <<access, ended>> /\ access = None
    BY <1>0, <1>22 DEF ClearRefresh, StorageKnown, WritesKnown
  <2>2. CASE End(c)
    <3>1. status' = "out"
      BY <1>0, <1>22, <2>2
      DEF ClearRefresh, ShowOut, BootstrapOut, Expired, MarkLoggedOut, ExpiredLogin, screen, ApartKnown
    <3> QED
      BY <1>19, <2>1, <2>2, <3>1
  <2>3. CASE kind[c] = "restore" /\ Forget(c) /\ MarkLoggedOut
    <3>1. status' = "out"
      BY <2>3 DEF MarkLoggedOut, ShowOut, screen
    <3>2. /\ pc'[c] = "clearing" /\ kind'[c] = "forget"
          /\ \A d \in Calls \ {c} : pc'[d] = "idle"
      BY <1>0, <1>a, <1>n, <2>3, ForgetEffect DEF Same
    <3>3. \A d \in Calls : ~Entering(d)'
      BY <1>0, <1>n, <3>2 DEF CallsOK, Entering
    <3>4. WritesKnown' /\ LoginPageKnown'
      BY <2>1, <3>2, <3>3 DEF WritesKnown, LoginPageKnown
    <3>5. EntryKnown(c)' /\ ~Saving(c)' /\ ~Exchanging(c)'
      BY <3>2 DEF EntryKnown, Saving, Exchanging
    <3> QED
      BY <1>0, <2>1, <3>1, <3>2, <3>4, <3>5, StorageAlone
  <2> QED
    BY <1>22, <2>2, <2>3 DEF ClearRefresh, Expired
<1>23. ASSUME ended \subseteq ended', UNCHANGED <<storage, screen, calls>> PROVE StorageKnown'
  <2>1. WritesKnown' /\ LoginPageKnown' /\ OwnerKnown'
    BY <1>0, <1>23 DEF StorageKnown, WritesKnown, LoginPageKnown, OwnerKnown, screen, calls, Half,
                       Clearing, Saving, Exchanging, Entering
  <2>2. EmptyKnown'
    BY <1>0, <1>23 DEF StorageKnown, EmptyKnown, Emptied, screen, calls, Clearing, Saving, Exchanging
  <2>3. \A d \in Calls : EntryKnown(d)'
    BY <1>0, <1>23 DEF StorageKnown, EntryKnown, calls, Clearing
  <2> QED
    BY <2>1, <2>2, <2>3 DEF StorageKnown
<1>24. ASSUME NEW s \in Sessions, ExpireAccess(s) \/ EndSession(s) PROVE StorageKnown'
  BY <1>23, <1>24 DEF ExpireAccess, EndSession
<1>25. ~Timeout
  <2>1. ~disturbed'
    BY DEF Undisturbed
  <2> QED
    BY <2>1, Zenon DEF Timeout, Disturb
<1>26. CASE KillAndStart
  <2>1. PICK c \in Calls : pc'[c] = "restoring" /\ \A d \in Calls \ {c} : pc'[d] = "idle"
    BY <1>26, StartEffect
  <2>2. status' = "unknown" /\ UNCHANGED <<access, refresh>>
    BY <1>26 DEF KillAndStart
  <2>3. \A d \in Calls : pc[d] \notin RefreshPlaces \cup WritePlaces
    <3>1. disturbed' = (disturbed \/ \E d \in Calls : pc[d] \in RefreshPlaces \cup WritePlaces)
      BY <1>26 DEF KillAndStart, Disturb
    <3>2. ~disturbed'
      BY DEF Undisturbed
    <3> QED
      BY <3>1, <3>2
  <2>4. access = refresh
    BY <1>0, <2>3 DEF StorageKnown, WritesKnown, Half, RefreshPlaces, WritePlaces
  <2>5. \A d \in Calls : kind'[d] \in {None, "restore"}
    BY <1>26, StartEffect
  <2>6. WritesKnown' /\ LoginPageKnown'
    BY <1>n, <2>1, <2>2, <2>4, <2>5 DEF WritesKnown, LoginPageKnown, Entering
  <2>7. EntryKnown(c)' /\ ~Saving(c)' /\ ~Exchanging(c)' /\ ~Clearing(c)'
    BY <1>26, <2>1, <2>2, <2>4, StartEffect DEF EntryKnown, Saving, Exchanging, Clearing, Of
  <2> QED
    BY <1>0, <2>1, <2>2, <2>6, <2>7, StorageAlone
<1>27. CASE UNCHANGED vars
  BY <1>23, <1>27 DEF vars
<1>28. ASSUME NEW c \in Calls PROVE ~AnswerFails(c) /\ ~RefreshFails(c)
  BY <1>f DEF AnswerFails, RefreshFails
<1>29. ASSUME NEW c \in Calls, CallStep(c) PROVE StorageKnown'
  BY <1>4, <1>5, <1>6, <1>7, <1>8, <1>9, <1>10, <1>11, <1>12, <1>13, <1>14, <1>15, <1>16, <1>17,
     <1>18, <1>20, <1>21, <1>22, <1>28, <1>29
  DEF CallStep, WriteAccess, WriteRefresh, Saved
<1> QED
  BY <1>1, <1>2, <1>3, <1>24, <1>25, <1>26, <1>27, <1>29 DEF Next

LEMMA ScreenKept ==
    ASSUME UNCHANGED status \/ status' # "out" \/ status = "out" PROVE SentAwayRightly
BY DEF SentAwayRightly

LEMMA NextSentAway ==
    Typed /\ Apart /\ Storage /\ [Next]_vars => SentAwayRightly
<1> SUFFICES ASSUME Typed, Apart, Storage, [Next]_vars,
                    status # "out", status' = "out", ~disturbed', ~overlapped'
             PROVE  \/ \E c \in Calls : kind[c] = "logout"
                    \/ user \in ended
                    \/ /\ status = "unknown"
                       /\ \E c \in Calls : \/ pc[c] = "restoring" /\ access = None
                                           \/ refused[c] # None /\ refused[c].s \in ended
  BY DEF SentAwayRightly
<1> DEFINE Rightly == \/ \E c \in Calls : kind[c] = "logout"
                      \/ user \in ended
                      \/ /\ status = "unknown"
                         /\ \E c \in Calls : \/ pc[c] = "restoring" /\ access = None
                                             \/ refused[c] # None /\ refused[c].s \in ended
<1>0. CallsOK /\ RestOK /\ ApartKnown /\ StorageKnown /\ Undisturbed
  BY CalmBefore DEF Typed, Apart, Storage, Undisturbed
<1>f. ~Fault
  BY <1>0, FaultOK DEF Undisturbed
<1>1. ASSUME NEW c \in Calls, Restore(c) PROVE Rightly
  <2>1. pc[c] = "restoring" /\ access = None /\ status = "unknown"
    BY <1>0, <1>1 DEF Restore, screen, CallsOK, Fits, ApartKnown
  <2> QED
    BY <2>1
<1>2. ASSUME Emptied, status = "in" PROVE Rightly
  BY <1>0, <1>2 DEF StorageKnown, EmptyKnown
<1>3. ASSUME NEW c \in Calls, Expired(c), Emptied, kind[c] = "restore" => Clearing(c) /\ pc[c] # "restoring"
      PROVE  Rightly
  <2>1. status = "in" \/ (status = "unknown" /\ kind[c] = "restore")
    BY <1>0, <1>3 DEF Expired, ApartKnown, RestOK
  <2>2. kind[c] = "restore" => refused[c] # None /\ refused[c].s \in ended
    BY <1>0, <1>3 DEF StorageKnown, EntryKnown, Clearing
  <2> QED
    BY <1>2, <1>3, <2>1, <2>2
<1>4. ASSUME NEW c \in Calls, Reread(c) PROVE Rightly
  <2>1. access = None /\ Expired(c) /\ pc[c] = "rereading"
    BY <1>4 DEF Reread, screen
  <2>2. kind[c] # "restore"
    BY <1>0, <2>1 DEF StorageKnown, EntryKnown, Clearing
  <2> QED
    BY <1>3, <2>1, <2>2 DEF Emptied
<1>5. ASSUME NEW c \in Calls, ClearRefresh(c) PROVE Rightly
  <2>1. pc[c] = "halfCleared" /\ Clearing(c) /\ Emptied
    BY <1>5 DEF ClearRefresh, Clearing, Emptied
  <2>2. kind[c] # "forget"
    BY <1>0 DEF ApartKnown
  <2> QED
    BY <1>3, <1>5, <2>1, <2>2 DEF ClearRefresh
<1>6. ASSUME NEW c \in Calls, Accept(c) PROVE FALSE
  BY <1>6 DEF Accept, ShowIn, screen
<1>7. ASSUME NEW c \in Calls,
             \/ Send(c) \/ LoginAccepted(c) \/ Refuse(c) \/ AnswerFails(c) \/ RetryRefused(c)
             \/ Load(c) \/ Exchange(c) \/ RefreshFails(c) \/ WriteAccess(c) \/ WriteRefresh(c)
             \/ ClearAccess(c) \/ Request(c) \/ Login(c) \/ Logout(c)
      PROVE  FALSE
  BY <1>f, <1>7 DEF Send, LoginAccepted, Refuse, AnswerFails, RetryRefused, Load, Exchange,
     RefreshFails, WriteAccess, WriteRefresh, ClearAccess, Request, Login, Logout, screen
<1>8. ASSUME NEW s \in Sessions, ExpireAccess(s) \/ EndSession(s) PROVE FALSE
  BY <1>8 DEF ExpireAccess, EndSession, screen
<1>9. ~Timeout
  BY Zenon DEF Timeout, Disturb
<1>10. ~KillAndStart
  BY DEF KillAndStart
<1>11. ~UNCHANGED vars
  BY DEF vars, screen
<1> QED
  BY <1>1, <1>4, <1>5, <1>6, <1>7, <1>8, <1>9, <1>10, <1>11 DEF Next, CallStep

(***************************************************************************)
(* The inductive invariant and the theorems                                *)
(***************************************************************************)
Inv == Typed /\ Gate /\ Retry /\ Chain /\ Apart /\ Storage

LEMMA InitInv == Init => Inv
<1> SUFFICES ASSUME Init PROVE Inv
  OBVIOUS
<1>1. Typed
  BY InitTyped
<1>2. PICK c \in Calls : Started(c, pc, kind)
  BY DEF Init
<1>3. /\ pc[c] = "restoring" /\ kind[c] = "restore"
      /\ \A d \in Calls \ {c} : pc[d] = "idle" /\ kind[d] = None
      /\ \A d \in Calls : tok[d] = None /\ refused[d] = None /\ pair[d] = None
      /\ \A d \in Calls : pc[d] \in {"restoring", "idle"}
  BY <1>2 DEF Init, Started
<1>n. None \notin {"login", "mistyped", "me", "restore", "forget", "logout", "data"}
  BY Constants, Members
<1>4. Gate
  BY <1>3 DEF Gate, OneRefresh, NobodyStranded, Init, RefreshPlaces
<1>5. access # None => access.g = gen[access.s]
  <2>1. ASSUME access # None PROVE access.s \in Sessions /\ access.g = 0
    BY <2>1 DEF Init
  <2> QED
    BY <2>1 DEF Init
<1>6. Retry
  <2>1. TokensIssued
    <3>1. Issued(access)
      BY <1>1, <1>5, PairFields DEF Issued, Typed, RestOK
    <3>2. \A s \in Sessions : gen[s] \in {0, -1} /\ fresh[s] = 0
      BY DEF Init
    <3> QED
      BY <1>3, <3>1, <3>2 DEF TokensIssued, Issued, Init
  <2>2. RetryKnown
    BY <1>3 DEF RetryKnown, Valid
  <2> QED
    BY <2>1, <2>2 DEF Retry
<1>7. Chain
  BY <1>3, <1>5 DEF Chain, ChainKnown, Last, Init, Exchanging, Saving, Storing
<1>8. Apart
  BY <1>3, <1>n DEF Apart, ApartKnown, Init
<1>9. Storage
  <2>1. status = "unknown" /\ access = refresh
    BY DEF Init
  <2>2. \A d \in Calls : ~Half(d) /\ ~Clearing(d) /\ ~Saving(d) /\ ~Exchanging(d) /\ ~Entering(d)
    BY <1>3, <1>n DEF Half, Clearing, Saving, Exchanging, Entering
  <2>3. WritesKnown /\ EmptyKnown /\ LoginPageKnown /\ OwnerKnown
    BY <2>1, <2>2 DEF WritesKnown, EmptyKnown, LoginPageKnown, OwnerKnown, Half
  <2>4. \A d \in Calls : EntryKnown(d)
    BY <1>3, <1>n, <2>1, <2>2 DEF EntryKnown, Of
  <2> QED
    BY <2>3, <2>4 DEF Storage, StorageKnown
<1> QED
  BY <1>1, <1>4, <1>6, <1>7, <1>8, <1>9 DEF Inv

LEMMA NextInv == Inv /\ [Next]_vars => Inv'
BY NextTyped, NextGate, NextRetry, NextChain, NextApart, NextStorage DEF Inv, Retry

LEMMA Invariance == Spec => []Inv
<1>1. Init => Inv
  BY InitInv
<1>2. Inv /\ [Next]_vars => Inv'
  BY NextInv
<1> QED
  BY <1>1, <1>2, PTL DEF Spec

\* Every variable stays in its type, however many calls, sessions and faults.
THEOREM TypeCorrect == Spec => []TypeOK
<1>1. Inv => TypeOK
  BY TypedIsTypeOK DEF Inv
<1> QED
  BY <1>1, Invariance, PTL

\* _refreshOnce: one refresh at a time, and _refreshing says so, after every
\* failure and restart.
THEOREM RefreshesAlone == Spec => []OneRefresh
<1>1. Inv => OneRefresh
  BY DEF Inv, Gate
<1> QED
  BY <1>1, Invariance, PTL

\* _refreshOnce: who waits for the gate waits for a refresh that is under way.
THEOREM NobodyWaitsInVain == Spec => []NobodyStranded
<1>1. Inv => NobodyStranded
  BY DEF Inv, Gate
<1> QED
  BY <1>1, Invariance, PTL

\* onError: the retry is sent with another access token than the refused one.
THEOREM RetriesDiffer == Spec => []RetryUsesNewToken
<1>1. Inv => RetryUsesNewToken
  BY RetryGives DEF Inv
<1> QED
  BY <1>1, Invariance, PTL

\* _refreshOnce: the refresh token that is sent has not been exchanged before.
THEOREM RefreshTokensUsedOnce == Spec => []SpentTokenUnused
<1>1. Inv => SpentTokenUnused
  BY ChainGives DEF Inv
<1> QED
  BY <1>1, Invariance, PTL

\* saveTokens and clear: two writes that leave a pair, the last of its session.
THEOREM PairsStored == Spec => []StorageIsPair
<1>1. Inv => StorageIsPair
  BY StorageGives DEF Inv
<1> QED
  BY <1>1, Invariance, PTL

\* onRequest: the tokens in use are those of the user that AuthCubit shows.
THEOREM ShownUserOwnsTokens == Spec => []UserIsOwner
<1>1. Inv => UserIsOwner
  BY StorageGives DEF Inv
<1> QED
  BY <1>1, Invariance, PTL

\* onSessionExpired and bootstrap: to the login page only after a logout, the
\* end of the refresh token, or without a session.
THEOREM NoSessionLost == Spec => SessionKept
<1>1. Inv /\ [Next]_vars => [SentAwayRightly]_vars
  BY NextSentAway DEF Inv
<1> QED
  BY <1>1, Invariance, PTL DEF Spec, SessionKept
===============================================================================
