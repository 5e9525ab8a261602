----------------------------- MODULE MobileSession ----------------------------
(***************************************************************************)
(* The session of the mobile app: the two tokens in its secure storage, the*)
(* requests that use them through AuthInterceptor, the screen's AuthCubit, *)
(* and the API as far as it decides on tokens (RefreshTokens has it in     *)
(* full).  Dart runs one callback at a time: a step is what happens between*)
(* two awaits.                                                             *)
(***************************************************************************)
EXTENDS Integers, FiniteSets

CONSTANTS
    Calls,         \* asynchronous calls under way at a time
    Sessions,      \* successful logins and registrations
    None,
    MaxExpiries, MaxFaults, MaxKills, MaxMistakes    \* bounds of the environment

ASSUME NoneAssumption == None \notin Sessions /\ None \notin [s : Sessions, g : Nat]
ASSUME BoundsAssumption == MaxExpiries \in Nat /\ MaxFaults \in Nat /\ MaxKills \in Nat
                            /\ MaxMistakes \in Nat

VARIABLES
    access, refresh,         \* the two keys of the storage
    status, user, busy,      \* of AuthCubit's state
    late,                    \* bootstrap no longer waits for restore()
    refreshing,              \* _refreshing
    pc, kind,                \* of each call: its place, and what it is for
    tok,                     \* the access token it was sent with
    refused,                 \* the access token of its first 401
    pair,                    \* the refresh token it sends, or the tokens it got
    gen,                     \* of each session: the pairs issued, less one
    fresh,                   \* the first whose access token has not expired
    ended,                   \* the sessions whose refresh token has
    disturbed, overlapped,   \* history: see Disturb and Overlap
    expiries, faults, kills, mistakes

storage == <<access, refresh>>
screen  == <<status, user, busy>>
calls   == <<pc, kind, tok, refused, pair>>
server  == <<gen, fresh, ended>>
history == <<disturbed, overlapped>>
bounds  == <<expiries, faults, kills, mistakes>>
vars == <<storage, screen, late, refreshing, calls, server, history, bounds>>

\* The pairs of a session are numbered as they are issued; a number stands for
\* an access token and a refresh token.
Pair == [s : Sessions, g : Nat]

Kinds == {"data", "login", "mistyped", "me", "restore", "forget", "logout"}
RefreshPlaces == {"loading", "exchanging", "saving", "halfSaved"}
WritePlaces == {"saving", "halfSaved", "storing", "halfStored", "clearing", "halfCleared"}
ASSUME KindsAssumption == None \notin Kinds
Places == {"idle", "restoring", "reading", "sent", "waiting", "rereading",
           "resending", "resent"} \cup RefreshPlaces \cup WritePlaces

TypeOK ==
    /\ access \in Pair \cup {None} /\ refresh \in Pair \cup {None}
    /\ status \in {"unknown", "in", "out"}
    /\ user \in Sessions \cup {None}
    /\ busy \in BOOLEAN /\ late \in BOOLEAN
    /\ refreshing \in BOOLEAN /\ disturbed \in BOOLEAN /\ overlapped \in BOOLEAN
    /\ pc \in [Calls -> Places]
    /\ \A c \in Calls : pc[c] = "idle" <=> kind[c] = None
    /\ kind \in [Calls -> Kinds \cup {None}]
    /\ tok \in [Calls -> Pair \cup {None}]
    /\ refused \in [Calls -> Pair \cup {None}]
    /\ pair \in [Calls -> Pair \cup {None}]
    /\ gen \in [Sessions -> Nat \cup {-1}]
    /\ fresh \in [Sessions -> Nat]
    /\ ended \in SUBSET Sessions
    /\ expiries \in 0..MaxExpiries /\ faults \in 0..MaxFaults /\ kills \in 0..MaxKills
    /\ mistakes \in 0..MaxMistakes

\* An app that starts: nothing runs but bootstrap, on call c.
Started(c, PC, Kind) ==
    /\ PC = [d \in Calls |-> IF d = c THEN "restoring" ELSE "idle"]
    /\ Kind = [d \in Calls |-> IF d = c THEN "restore" ELSE None]

\* The app is new, or was used before and has a session.
Init ==
    /\ access \in [s : Sessions, g : {0}] \cup {None} /\ refresh = access
    /\ gen = [s \in Sessions |-> IF access # None /\ access.s = s THEN 0 ELSE -1]
    /\ fresh = [s \in Sessions |-> 0] /\ ended = {}
    /\ status = "unknown" /\ user = None /\ busy = TRUE /\ late = FALSE
    /\ refreshing = FALSE /\ disturbed = FALSE /\ overlapped = FALSE
    /\ \E c \in Calls : Started(c, pc, kind)
    /\ tok = [c \in Calls |-> None]
    /\ refused = [c \in Calls |-> None]
    /\ pair = [c \in Calls |-> None]
    /\ expiries = 0 /\ faults = 0 /\ kills = 0 /\ mistakes = 0

Goto(c, place) == pc' = [pc EXCEPT ![c] = place]

\* What the app does not get over in all cases: a call that fails, a timeout,
\* a death amid writes, a logout while requests are under way.
Disturb(cond) == disturbed' = (disturbed \/ cond) /\ UNCHANGED overlapped
\* A login while requests of the session before are under way.
Overlap(cond) == overlapped' = (overlapped \/ cond) /\ UNCHANGED disturbed

\* A call ends with anything but 200 or 401, or the storage fails.
Fault == faults < MaxFaults /\ faults' = faults + 1 /\ Disturb(TRUE)

(***************************************************************************)
(* AuthCubit's states, and how a call ends                                 *)
(***************************************************************************)
ShowIn(s) == status' = "in" /\ user' = s /\ busy' = FALSE
ShowOut   == status' = "out" /\ user' = None /\ busy' = FALSE
MarkLoggedOut == IF status # "out" THEN ShowOut ELSE UNCHANGED screen
LoginFailed   == status' = "out" /\ busy' = FALSE /\ UNCHANGED user
\* MarkLoggedOut, then LoginFailed.
ExpiredLogin  == status' = "out" /\ busy' = FALSE /\ user' = IF status = "out" THEN user ELSE None
\* bootstrap has restore()'s result, unless it has stopped waiting for it.
BootstrapOut  == IF late THEN UNCHANGED screen ELSE ShowOut

\* Mutated form of End: the kind is not reset.
EndKeepingKind(c) ==
    /\ Goto(c, "idle")
    /\ tok' = [tok EXCEPT ![c] = None]
    /\ refused' = [refused EXCEPT ![c] = None]
    /\ pair' = [pair EXCEPT ![c] = None]
    /\ UNCHANGED kind

End(c) ==
    /\ Goto(c, "idle")
    /\ kind' = [kind EXCEPT ![c] = None]
    /\ tok' = [tok EXCEPT ![c] = None]
    /\ refused' = [refused EXCEPT ![c] = None]
    /\ pair' = [pair EXCEPT ![c] = None]

\* restore() catches the error and clears the storage (once more).
Forget(c) ==
    /\ Goto(c, "clearing")
    /\ kind' = [kind EXCEPT ![c] = "forget"]
    /\ UNCHANGED <<tok, refused, pair>>

\* The call throws.
Throw(c) ==
    \/ kind[c] = "data" /\ End(c) /\ UNCHANGED screen
    \/ kind[c] \in {"login", "mistyped", "me"} /\ End(c) /\ LoginFailed
    \/ kind[c] = "restore" /\ Forget(c) /\ UNCHANGED screen

\* onSessionExpired, then the call throws.
Expired(c) ==
    \/ kind[c] = "data" /\ End(c) /\ MarkLoggedOut
    \/ kind[c] \in {"login", "mistyped", "me"} /\ End(c) /\ ExpiredLogin
    \/ kind[c] = "restore" /\ Forget(c) /\ MarkLoggedOut

(***************************************************************************)
(* What the user and the screens begin                                     *)
(***************************************************************************)
Begin(c, k, place) ==
    /\ pc[c] = "idle"
    /\ Goto(c, place)
    /\ kind' = [kind EXCEPT ![c] = k]
    /\ UNCHANGED <<storage, late, refreshing, tok, refused, pair, server, expiries, faults, kills>>

Request(c) ==
    /\ status = "in"
    /\ Begin(c, "data", "reading")
    /\ Disturb(\E d \in Calls : kind[d] = "logout")
    /\ UNCHANGED <<screen, mistakes>>

\* Mutated form of LoginShown: the router lets a user who is signed in stay there.
LoginShownAlways == ~busy

\* The router shows login and register; the page takes nothing while it is busy.
LoginShown == status # "in" /\ ~busy

\* Login and register.  Bounds: as many successes as there are sessions, and
\* MaxMistakes wrong passwords.
Login(c) ==
    /\ LoginShown
    /\ \/ /\ Begin(c, "login", "reading")
          /\ Cardinality({s \in Sessions : gen[s] = -1}) > Cardinality({d \in Calls : kind[d] = "login"})
          /\ UNCHANGED mistakes
       \/ /\ Begin(c, "mistyped", "reading")
          /\ mistakes < MaxMistakes /\ mistakes' = mistakes + 1
    /\ busy' = TRUE
    /\ UNCHANGED <<status, user>>
    /\ Overlap(\E d \in Calls : pc[d] # "idle")

Logout(c) ==
    /\ status = "in"
    /\ Begin(c, "logout", "clearing")
    /\ Disturb(\E d \in Calls : pc[d] # "idle")
    /\ UNCHANGED <<screen, mistakes>>

\* restore(): hasSession() and, if so, me().
Restore(c) ==
    /\ pc[c] = "restoring"
    /\ IF access = None
         THEN End(c) /\ BootstrapOut
         ELSE Goto(c, "reading") /\ UNCHANGED <<kind, tok, refused, pair, screen>>
    /\ UNCHANGED <<storage, late, refreshing, server, history, bounds>>

\* The six seconds of bootstrap are over; restore() goes on.
Timeout ==
    /\ ~late /\ \E c \in Calls : kind[c] \in {"restore", "forget"}
    /\ late' = TRUE
    /\ ShowOut
    /\ Disturb(TRUE)
    /\ UNCHANGED <<storage, refreshing, calls, server, bounds>>

(***************************************************************************)
(* The interceptor                                                         *)
(***************************************************************************)
\* onRequest reads the access token.  A retry keeps the one it has when the
\* storage has none.
Send(c) ==
    /\ \/ pc[c] = "reading" /\ Goto(c, "sent")
       \/ pc[c] = "resending" /\ Goto(c, "resent")
    /\ tok' = [tok EXCEPT ![c] = IF access = None THEN @ ELSE access]
    /\ UNCHANGED <<storage, screen, late, refreshing, kind, refused, pair, server,
                   history, bounds>>

Valid(t) == t # None /\ t.g >= fresh[t.s]

\* The API answers 200.
Accept(c) ==
    /\ pc[c] \in {"sent", "resent"}
    /\ kind[c] \in {"data", "me", "restore"} /\ Valid(tok[c])
    /\ End(c)
    /\ IF kind[c] = "me" \/ (kind[c] = "restore" /\ ~late)
         THEN ShowIn(tok[c].s) ELSE UNCHANGED screen
    /\ UNCHANGED <<storage, late, refreshing, server, history, bounds>>

\* Login or register succeeds: the first pair of a new session.
LoginAccepted(c) ==
    /\ pc[c] \in {"sent", "resent"}
    /\ kind[c] = "login"
    /\ \E s \in Sessions :
         /\ gen[s] = -1
         /\ gen' = [gen EXCEPT ![s] = 0]
         /\ pair' = [pair EXCEPT ![c] = [s |-> s, g |-> 0]]
    /\ Goto(c, "storing")
    /\ UNCHANGED <<storage, screen, late, refreshing, kind, tok, refused, fresh, ended,
                   history, bounds>>

\* The API answers 401: the access token is missing or has expired, or it is a
\* login with a wrong password.
Unauthorized(c) ==
    \/ kind[c] = "mistyped"
    \/ kind[c] \in {"data", "me", "restore"} /\ ~Valid(tok[c])

\* Mutated form of Refuse: _refreshing is not asked.
RefuseRefreshing(c) ==
    /\ pc[c] = "sent" /\ Unauthorized(c)
    /\ refused' = [refused EXCEPT ![c] = tok[c]]
    /\ Goto(c, "loading") /\ refreshing' = TRUE
    /\ UNCHANGED <<storage, screen, late, kind, tok, pair, server, history, bounds>>

\* onError: the first 401 joins the refresh under way, or starts one.
Refuse(c) ==
    /\ pc[c] = "sent" /\ Unauthorized(c)
    /\ refused' = [refused EXCEPT ![c] = tok[c]]
    /\ IF refreshing
         THEN Goto(c, "waiting") /\ UNCHANGED refreshing
         ELSE Goto(c, "loading") /\ refreshing' = TRUE
    /\ UNCHANGED <<storage, screen, late, kind, tok, pair, server, history, bounds>>

\* Anything else is handed on.
AnswerFails(c) ==
    /\ pc[c] = "sent"
    /\ Fault
    /\ Throw(c)
    /\ UNCHANGED <<storage, late, refreshing, server, expiries, kills, mistakes>>

\* Whatever goes wrong with the retry clears the storage.
RetryRefused(c) ==
    /\ pc[c] = "resent"
    /\ \/ Unauthorized(c) /\ UNCHANGED <<history, faults>>
       \/ Fault
    /\ Goto(c, "clearing")
    /\ UNCHANGED <<storage, screen, late, refreshing, kind, tok, refused, pair, server,
                   expiries, kills, mistakes>>

(***************************************************************************)
(* _refreshOnce                                                            *)
(***************************************************************************)
\* The gate opens: the refresher and all who wait for it go on.
Open(c, place) ==
    /\ pc' = [d \in Calls |-> IF d = c \/ pc[d] = "waiting" THEN place ELSE pc[d]]
    /\ refreshing' = FALSE

Load(c) ==
    /\ pc[c] = "loading"
    /\ pair' = [pair EXCEPT ![c] = refresh]
    /\ IF refresh = None THEN Open(c, "clearing")
                         ELSE Goto(c, "exchanging") /\ UNCHANGED refreshing
    /\ UNCHANGED <<storage, screen, late, kind, tok, refused, server, history, bounds>>

\* The API's table has one refresh token of a session, the last.
Live(p) == p.g = gen[p.s] /\ p.s \notin ended

Exchange(c) ==
    /\ pc[c] = "exchanging"
    /\ IF Live(pair[c])
         THEN /\ gen' = [gen EXCEPT ![pair[c].s] = @ + 1]
              /\ pair' = [pair EXCEPT ![c].g = @ + 1]
              /\ Goto(c, "saving")
              /\ UNCHANGED refreshing
         ELSE /\ Open(c, "clearing")
              /\ UNCHANGED <<gen, pair>>
    /\ UNCHANGED <<storage, screen, late, kind, tok, refused, fresh, ended, history, bounds>>

\* Mutated form of RefreshFails: the gate is not opened on an error.
RefreshFailsQuietly(c) ==
    /\ pc[c] \in RefreshPlaces
    /\ Fault
    /\ Goto(c, "clearing") /\ refreshing' = FALSE
    /\ UNCHANGED <<storage, screen, late, kind, tok, refused, pair, server, expiries, kills, mistakes>>

\* The exchange fails, before or after it has happened, or the storage does.
RefreshFails(c) ==
    /\ pc[c] \in RefreshPlaces
    /\ Fault
    /\ \/ UNCHANGED gen
       \/ pc[c] = "exchanging" /\ Live(pair[c]) /\ gen' = [gen EXCEPT ![pair[c].s] = @ + 1]
    /\ Open(c, "clearing")
    /\ UNCHANGED <<storage, screen, late, kind, tok, refused, pair, fresh, ended,
                   expiries, kills, mistakes>>

\* saveTokens, of a refresh and of a login.
WriteAccess(c) ==
    /\ \/ pc[c] = "saving" /\ Goto(c, "halfSaved")
       \/ pc[c] = "storing" /\ Goto(c, "halfStored")
    /\ access' = pair[c]
    /\ UNCHANGED <<refresh, screen, late, refreshing, kind, tok, refused, pair, server,
                   history, bounds>>

\* What follows saveTokens.
Saved(c) ==
    \/ /\ pc[c] = "halfSaved"
       /\ Open(c, "rereading")
       /\ UNCHANGED <<kind, tok, refused, pair>>
    \/ /\ pc[c] = "halfStored"
       /\ Goto(c, "reading")
       /\ kind' = [kind EXCEPT ![c] = "me"]
       /\ tok' = [tok EXCEPT ![c] = None]
       /\ refused' = [refused EXCEPT ![c] = None]
       /\ pair' = [pair EXCEPT ![c] = None]
       /\ UNCHANGED refreshing

\* Mutated form of WriteRefresh: only the access token is replaced.
WriteRefreshNot(c) ==
    /\ Saved(c)
    /\ UNCHANGED <<storage, screen, late, server, history, bounds>>

WriteRefresh(c) ==
    /\ Saved(c)
    /\ refresh' = pair[c]
    /\ UNCHANGED <<access, screen, late, server, history, bounds>>

\* Mutated form of Reread: the retry keeps the token that was refused.
RereadNot(c) ==
    /\ pc[c] = "rereading"
    /\ Goto(c, "resent")
    /\ UNCHANGED <<storage, screen, late, refreshing, kind, tok, refused, pair, server,
                   history, bounds>>

\* After a refresh: the retry with the stored token, or the end of the session.
Reread(c) ==
    /\ pc[c] = "rereading"
    /\ IF access = None
         THEN Expired(c)
         ELSE /\ tok' = [tok EXCEPT ![c] = access]
              /\ Goto(c, "resending")
              /\ UNCHANGED <<kind, refused, pair, screen>>
    /\ UNCHANGED <<storage, late, refreshing, server, history, bounds>>

ClearAccess(c) ==
    /\ pc[c] = "clearing"
    /\ access' = None
    /\ Goto(c, "halfCleared")
    /\ UNCHANGED <<refresh, screen, late, refreshing, kind, tok, refused, pair, server,
                   history, bounds>>

\* clear() of a logout, of restore(), or of the interceptor.
ClearRefresh(c) ==
    /\ pc[c] = "halfCleared"
    /\ refresh' = None
    /\ \/ kind[c] = "logout" /\ End(c) /\ ShowOut
       \/ kind[c] = "forget" /\ End(c) /\ BootstrapOut
       \/ Expired(c)
    /\ UNCHANGED <<access, late, refreshing, server, history, bounds>>

(***************************************************************************)
(* The environment                                                         *)
(***************************************************************************)
\* The oldest access token that is still valid expires; not while tokens are being
\* stored or a call waits for the answer to its retry, as it lives for much longer
\* than that takes.
ExpireAccess(s) ==
    /\ expiries < MaxExpiries
    /\ \A c \in Calls : pc[c] \notin {"storing", "halfStored", "saving", "halfSaved",
                                    "rereading", "resending", "resent"}
    /\ fresh[s] <= gen[s]
    /\ fresh' = [fresh EXCEPT ![s] = @ + 1]
    /\ expiries' = expiries + 1
    /\ UNCHANGED <<storage, screen, late, refreshing, calls, gen, ended, history, faults, kills, mistakes>>

\* The refresh token expires.
EndSession(s) ==
    /\ gen[s] >= 0 /\ s \notin ended
    /\ ended' = ended \cup {s}
    /\ UNCHANGED <<storage, screen, late, refreshing, calls, gen, fresh, history, bounds>>

\* The app is killed and started again, now or later.
KillAndStart ==
    /\ kills < MaxKills
    /\ kills' = kills + 1
    /\ Disturb(\E c \in Calls : pc[c] \in RefreshPlaces \cup WritePlaces)
    /\ status' = "unknown" /\ user' = None /\ busy' = TRUE /\ late' = FALSE
    /\ refreshing' = FALSE
    /\ \E c \in Calls : Started(c, pc', kind')
    /\ tok' = [c \in Calls |-> None]
    /\ refused' = [c \in Calls |-> None]
    /\ pair' = [c \in Calls |-> None]
    /\ UNCHANGED <<storage, server, expiries, faults, mistakes>>

CallStep(c) ==
    \/ Restore(c) \/ Send(c)
    \/ Accept(c) \/ LoginAccepted(c) \/ Refuse(c) \/ AnswerFails(c) \/ RetryRefused(c)
    \/ Load(c) \/ Exchange(c) \/ RefreshFails(c)
    \/ WriteAccess(c) \/ WriteRefresh(c) \/ Reread(c)
    \/ ClearAccess(c) \/ ClearRefresh(c)

Next ==
    \/ \E c \in Calls : CallStep(c) \/ Request(c) \/ Login(c) \/ Logout(c)
    \/ \E s \in Sessions : ExpireAccess(s) \/ EndSession(s)
    \/ Timeout \/ KillAndStart

Spec == Init /\ [][Next]_vars

(***************************************************************************)
(* Properties                                                              *)
(***************************************************************************)
\* A request that waits for a refresh waits for one that is under way, however
\* that refresh fails or another takes its place.
NobodyStranded ==
    \A c \in Calls : pc[c] = "waiting" => \E d \in Calls : pc[d] \in RefreshPlaces

\* The interceptor refreshes once at a time, and _refreshing says so.
OneRefresh ==
    /\ \A c, d \in Calls : pc[c] \in RefreshPlaces /\ pc[d] \in RefreshPlaces => c = d
    /\ refreshing = \E c \in Calls : pc[c] \in RefreshPlaces

\* A request is repeated with another token than the one that was refused, also
\* when logins and late clears change the stored tokens in between.
RetryUsesNewToken ==
    \A c \in Calls :
        pc[c] \in {"resending", "resent"} /\ kind[c] # "mistyped" =>
            tok[c] # None /\ tok[c] # refused[c]

\* However many requests are refused together or one after the other, the app
\* never sends a refresh token that it has exchanged before.
SpentTokenUnused ==
    ~disturbed => \A c \in Calls : pc[c] = "exchanging" => pair[c].g = gen[pair[c].s]

\* The two keys are written one by one, and yet belong together, and are the
\* last the API has issued, whenever nobody is writing them; and none is left
\* behind the login page when all is done.
Quiet == \A c \in Calls : pc[c] \notin RefreshPlaces \cup WritePlaces
Undisturbed == ~disturbed /\ ~overlapped
StorageIsPair ==
    Undisturbed /\ Quiet =>
        /\ access = refresh
        /\ refresh # None => refresh.g = gen[refresh.s]
        /\ status = "out" /\ (\A c \in Calls : pc[c] = "idle") => refresh = None

\* The requests are made in the name of the user whom the app shows, although
\* refreshes, late answers and clears of the session may be under way.
UserIsOwner == Undisturbed /\ status = "in" /\ access # None => access.s = user

\* The user is sent to the login page after a logout, when the refresh token has
\* expired, or when there was no session to restore; not for access tokens that
\* expire, in whatever order the requests find out.
SentAwayRightly ==
    status # "out" /\ status' = "out" /\ ~disturbed' /\ ~overlapped' =>
        \/ \E c \in Calls : kind[c] = "logout"
        \/ user \in ended
        \/ /\ status = "unknown"
           /\ \E c \in Calls : \/ pc[c] = "restoring" /\ access = None
                               \/ refused[c] # None /\ refused[c].s \in ended
SessionKept == [][SentAwayRightly]_vars
===============================================================================
