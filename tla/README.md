# Walletops in TLA+

Walletops receives events about wallets through a signed webhook, stores them
in PostgreSQL, matches them in the background against the alert rules of their
user, and shows them in a mobile app. This directory holds TLA+ models of its
stateful parts, TLC runs that check them, and TLAPS proofs of their most
important properties. `PROJECT.json` lists the runs, the lines of code that each
definition stands for, the hazards and the theorems.

Paths below are relative to the repository; `store.go:239` is a line of a file.

## 1. The system

| Part | State it keeps | Operations | Where |
|---|---|---|---|
| event queue | table `events`: status, attempt_count, claimed_at, processed_at, matched_rule_id | CreatePending, ClaimNext, MarkProcessed, MarkAttemptFailed | `api/internal/events/store.go` |
| worker | none but the claimed event and two counters; one goroutine per API process | tick, ProcessOne, Finish, process | `api/internal/worker` |
| webhook ingest | none; writes `events`, reads `users.user_ref` | Ingest | `api/internal/webhook` |
| accounts, refresh tokens | tables `users`, `refresh_tokens` | Register, Login, Refresh | `api/internal/auth` |
| authentication of requests | none (signed access tokens) | RequireAuth, Me | `api/internal/auth/middleware.go` |
| alert rules | table `alert_rules` | Create, Patch, Delete, List, Get, EnabledByUserAndType | `api/internal/rules` |
| demo simulation | none; writes `alert_rules` and `events` | Simulate | `api/internal/demo` |
| AI summaries | table `ai_summaries`, append only | Summarize | `api/internal/ai` |
| start-up, migrations | the environment; table `schema_migrations` | Load, Migrate, NewProvider | `api/cmd/server`, `api/internal/config`, `api/internal/db`, `api/migrations` |
| event and health endpoints | none | List, Get, Health | `api/internal/events/handler.go`, `api/internal/httpapi` |
| mobile session | access and refresh token in secure storage, the shared refresh, the state of AuthCubit | onRequest, onError, login, logout, bootstrap | `mobile/lib/core`, `mobile/lib/features/auth` |
| mobile events screen | list, filter, live watch, guided demo | load, startLiveWatch, runGuidedDemo, ... | `mobile/lib/features/events` |
| mobile event detail | one event, the poll that repeats its load | load, close | `mobile/lib/features/events` |
| mobile health bar | last health answer, a timer | start, stop, refresh | `mobile/lib/features/ops` |
| mobile rules screen | list, form, busy | load, create, update, remove | `mobile/lib/features/rules` |
| mobile explain screen | one summary, or why there is none | load, retry | `mobile/lib/features/explain` |

How they meet. Ingest and Simulate write rows that every worker of every API
process competes for; the database is their only meeting point, and each
statement commits on its own (the only transaction of several statements is the
exchange of a refresh token). The worker reads the rules of the event's user
between its claim and its mark, while the user edits and deletes them; the
foreign key `matched_rule_id ... ON DELETE SET NULL` connects the two tables.
Summarize reads both tables in two statements while workers and users go on.
The app talks to the API by HTTP alone: every request carries the access token
of its storage, and a 401 makes its interceptor exchange the refresh token, once
for all requests that fail together.

What is hard:

* **Claims and leases.** A worker that dies, or whose answer is lost, leaves a
  row in `processing`. Only `claimed_at` and a lease of 45 s bring it back, and
  neither Mark statement asks who claimed the row: a worker that comes back late
  writes over another's claim.
* **Idempotency.** A provider redelivers, also at the same time and with other
  content; the unique key, `ON CONFLICT DO NOTHING` and the read after it decide
  who is told what.
* **Rotation.** A refresh token is good for one exchange. Two requests with the
  same token, a crash between the DELETE and the INSERT of its successor, or a
  lost answer must neither fork a session nor make one that nobody asked for.
* **Read and write apart.** PATCH reads the rule, merges and writes all fields;
  ensureDemoRule lists and then inserts; the worker decides on rules that may
  be gone when it marks.
* **The app's callbacks.** A logout, a timeout or a second load arrives while a
  request is under way.
* **Reads that belong together.** A summary is made of events read first and
  names of rules read later, by a provider that may answer anything or too late,
  and its audit row is written before the app is answered.
* **Starting together.** Nothing but the database arbitrates between two API
  processes that run the same migrations.

What makes each part correct is stated with each module in section 3.

## 2. The modules

| Module | Models | Theorems in |
|---|---|---|
| `JobLedger` | the abstract promise of the queue: accepted, worked on, done or dead | |
| `EventQueue` | rows of `events`, the store's statements, the workers, time, crashes | `EventQueueProofs` |
| `WebhookIngest` | concurrent deliveries of the webhook and the provider that retries | `WebhookIngestProofs` |
| `RefreshTokens` | register, login, refresh and the table of refresh tokens | `RefreshTokensProofs` |
| `RuleBook` | requests on alert rules, the demo's rule and events, the worker's choice of a rule | `RuleBookProofs` |
| `Summaries` | requests for summaries among events that settle and rules that change, and the explain screen | `SummariesProofs` |
| `MobileSession` | the app's tokens, interceptor, login, logout and restore, with the API's decisions on tokens | `MobileSessionProofs` |
| `EventsScreen` | the app's events list: overlapping loads, live watch, filter, guided demo | |
| `EventDetail`, `HealthPoll`, `RulesScreen` | the app's other screens with polls and overlapping calls | |
| `Screens` | all screens of the app side by side, and what they promise together | `ScreensProofs` |
| `Migrations` | API processes that start together in an environment and migrate the database | `MigrationsProofs` |
| `MC...` | instances of these for TLC; `MCScreens` follows one screen of `Screens` at a time | |

`EventQueue` composes the table and its workers, and implements `JobLedger`
(`Ledger == INSTANCE JobLedger WITH state <- LedgerState, tries <- attempts`).
`EventQueue` and `RuleBook` overlap in process(): the first lets it find any
existing rule or none, the second says which one and takes the claim for
granted. `RuleBook` is the composition of the rules, the demo that makes a rule and events, and
the worker that matches them; `Summaries` that of the summarizing handler, the worker,
the users' rules and the screen.
`EventQueue` and `WebhookIngest` overlap in the INSERT: the first sees
the row appear, the second who was told so. `MobileSession` sees of `RefreshTokens` only
which refresh token of a session is live, and `EventsScreen` of `EventQueue` only the
status of each event, a failed one that is claimed again included.

### Plan

Done: the modules above, and proofs of every safety invariant and action property that
a run checks. Next, in this order:

1. Lemmas that make the proofs stand for more: what `ListForUser` shows of a queue longer
   than a page, and the tie between `MobileSession` and `RefreshTokens` (a session's chain of
   numbered tokens as a refinement of the table's lineage).
2. The upgrade of a queue with rows that were processing when `claimed_at` was added.

## 3. Model and code

### EventQueue

| Code | Model |
|---|---|
| `store.go` CreatePending, first delivery | `CreatePending` |
| ClaimNextWithLease: the sub-select with FOR UPDATE SKIP LOCKED, then the UPDATE's commit | `LockNext`, then `Claim`; `QueueEmpty`, `ClaimFails`, `ClaimAnswerLost` |
| `worker.go` process() | `Match`, `Reject` (payload), `LookupFails` (database) |
| MarkAttemptFailed, MarkProcessed | `WriteFailed`, `WriteProcessed` within `MarkAttemptFailed`, `MarkProcessed`, `MarkAnswerLost`, `MarkFails` |
| tick's loop of at most 20 claims, Run's ticker | `left`, `NextIteration`, `EndTick`, `Tick` |
| SIGTERM or death of the process; start | `Crash`, `Restart` |
| DELETE of a rule | `DeleteRule` |

Time is discrete and every comparison with now() is an age: `claimed` for
claimed_at, `settled` for processed_at of a failed row, `held` for the time since
the worker's own claim began. Ages saturate where older makes no difference.
`Overrun = FALSE` makes every worker settle or die within its lease, the
assumption behind ClaimLease; `TRUE` lets it stall for any time.
SIGTERM cancels the context of every statement, so it is a crash that happens
to be announced: a statement is committed or not, a claimed row stays claimed.
The Mark statements are a single step: they lock one row by primary key and
wait for a claim in progress (`~RowLocked`), and nothing else can come between.
A mark by a rule that has been deleted fails on the foreign key.

Left out: `last_error`, LastTick, ErrorTotal, reads. `ClaimByID`, `GetByID` and
`ClaimNext`'s other leases are called by tests only.

Correct means: within a lease one worker per event (`LeaseExclusive`), whose row
still carries its claim (`HolderOwnsRow`); no schedule takes a row past its
attempts (`AttemptsLeft`); a processing row can always be taken back
(`ProcessingIsLeased`); the
counters never count twice (`CountedOnce`); attempts are only lost to bad
payloads and failing lookups (`GoodPayloadKeepsAttempts`); and the whole is a job
ledger (`LedgerSafe`, `LedgerLive`). That no match names a deleted rule
(`MatchedRuleExists`) and that what is settled stays (`SettledForever`) is proved and
needs no run of its own.

### WebhookIngest

`Deliver` is the provider's POST with the checks of signature and fields, `Lookup`
and `UnknownRef` are UserIDByRef, `Insert` and `Commit` the INSERT (which waits for
an uncommitted row of the same key), `ReadExisting` is GetByIdempotency in its own
statement, `Respond`, `CallFails`, `Die` the ways a request ends. `SetUserRef` is the
remapping of `users.user_ref` by the seed script. A body stands for type and
payload together; a signature is valid or it is not. `CallFails` after `Commit` is
an INSERT that has happened and is reported as failed.

Correct means: one event per user and key (`OneEventPerKey`); the answers are true
(`AnswersHonest`); one 202 per event (`AcceptedOnce`); the loser of the insert finds
the row (`ReplayFindsEvent`); persistence is rewarded (`EventuallyAcknowledged`). That
no delivery changes a stored event (`EventsImmutable`) is proved only.

### RefreshTokens

`Register`, `RegisterFails` and `Login` lead to `IssuePair`; `Refresh` leads through
`Select` (FOR UPDATE, then the test of expires_at), `Consume` (DELETE, COMMIT) and
`LoadUser` to it. Every statement may fail, before or after it took effect. The
handler answers 401 when UserByID fails (`handler.go`), which is why a fault may
end a session although the user did nothing. `session` and `parent` are history
variables: which login a token descends from, which token it replaced. 201 is
written as 200. Access tokens are signed and leave no trace on the server.

Correct means: a token is exchanged once (`ExchangedOnce`); a session has one live
token at most (`OneLivePerSession`) and keeps its owner (`OwnerInherited`, proved only);
a client is told the truth (`AnswersHonest`); without faults no refresh ends a session
(`SessionsSurvive`).

### RuleBook

`Receive` starts an authenticated and validated request. `Create` is the handler of
that name, `Read` and `Update` are the two statements of UpdateForUser with `Merge`
between them, `Delete` is DELETE with ON DELETE SET NULL. A simulation is `List` and
`Ensure` (ensureDemoRule, if the request asks for it), then one `Inject` for each of
its `wanted` events, of which it has `made` some; `Clamp` is what the handler does with the
number it is asked for. `Inject` may also end the request, which is an insert that
happened and seemed to fail. `Fail` ends a request anywhere. `Process` is the worker's
process() at the moment it reads the rules, `MarkProcessed` the later mark, `Reject`
stands for the attempts that a bad payload uses up. `payloadAmount` is `ValidPayload`,
`HasAmount` and `Amount`, for payloads whose amount is a number, missing, null or something
else: decoding JSON null into a float64 succeeds and leaves 0.
`DemoOverlap = FALSE` is the app's own guard (`demoBusy`) against two simulations at a
time of the same user; the API has none. The keys of simulated events are uuids, so
that no insert of a simulation meets an event that is there.

Correct means: a match is with a rule of the event's own user (`MatchedIsOwn`), the
oldest that applies to the payload there is (`OldestApplies`, which states the treatment
of null and missing amounts in full); the deleted stays deleted (`DeletedStays`); one
demo rule (`OneDemoRule`); what a simulation leaves behind, complete or not, is the
beginning of its series (`SimulatedInOrder`).

### Summaries

| Code | Model |
|---|---|
| `ai/handler.go` Summarize up to its first statement | `Ask` (other clients), `Load` (the screen), `NormalizeIDs` |
| GetForUserIDs, and the comparison of numbers | `ReadEvents`, `EventOf` |
| NamesByIDs, BuildPrompt's facts | `ReadNames`, `FactOf` |
| the provider, ValidateSummary, sameIDs | `Summarize` with any of `Replies`, `ValidateSummary` |
| `ai/store.go` Save | `Save`, or within `Fail` when its success is not noticed |
| the answer, and what the cubit makes of it | `Answer`, `Refuse` |
| the app's timeout, its button to try again, leaving the screen | `GiveUp`, `Load`, `Close` |
| MarkProcessed, MarkAttemptFailed, PATCH and DELETE of rules meanwhile | `Work`, `Settle`, `Rename`, `Delete` |

An id is what a client sends: the text of an event as the API writes it, the same uuid
in other letters (`Uuid` without being `Text`), or nothing of ours. PostgreSQL finds the
event for either, and Go's map `evs` only has the one (`handler.go:86`): such a request passes
the check of numbers, asks the provider about an event with no fields, and fails at
Save, for the empty id is no uuid. The facts of a summary are the status of each event
and the name of its rule; the other fields of an event do not change. A name of a rule
belongs to its user, so that a prompt with a name of somebody else's can be told.
Texts, the provider's latency and requestHash are left out.

Correct means: all that is told to the provider and kept is the user's own
(`AuditIsOwn`), which the handler concludes from equal numbers alone; what the screen
shows is in the audit, whichever attempt it is from (`ShownIsAudited`); a fact is the
event as it was at the first read or is at the second, never a mixture (`FactsTrue`),
although the two reads share no snapshot: a settled event changes no more except that
its rule is deleted, and then there is no name either. The spinner ends
(`ExplainNotStuck`, within `NothingStuck`).

### MobileSession

A call is a Dart future: a request of a screen, a login, the `me` that follows it, a
logout, the restore of bootstrap. `pc` is where it awaits. `Send` is onRequest,
`Accept`, `Refuse`, `AnswerFails` and `RetryRefused` are the answers as onError sees
them, `Load`, `Exchange`, `RefreshFails` and `Open` are `_refreshOnce` with its gate,
`Reread` is what onError does after it. `WriteAccess` and `WriteRefresh` are saveTokens,
`ClearAccess` and `ClearRefresh` are clear(), two awaited calls each. Register and login
are one action, as they differ in what the API does with the password. `Timeout` is
bootstrap giving up on restore(), which goes on; `KillAndStart` the death of the app.

The tokens of a session are numbered in the order they are issued; of the API the
model keeps how many it has issued (`gen`), which access tokens have expired (`fresh`)
and which sessions are over (`ended`). An access token lives for 15 minutes and an
answer to a retry is given up after 30 s, so `ExpireAccess` does not strike between
the exchange and the retry's answer, nor while the tokens of a login are being written.
`LoginShown` is the router, which keeps a user who is signed in from the login page, with the
page itself, which takes nothing while it is busy. clear() is taken not to fail; a failure of the
storage within a refresh is one of `RefreshFails`.

The code is not correct under everything that can happen, and the properties say
where the line is. `disturbed` becomes true when a call has failed otherwise than by
401, when bootstrap has timed out, when the app has died amid writes, or when a logout
and a request overlap; `overlapped` when a login begins while calls of the session
before are under way. After those, tokens of a session left behind may be
stored again, or those of a new one cleared. Whatever has happened: nobody waits for
a refresh that is not under way (`NobodyStranded`), there is one at a time
(`OneRefresh`), and no request is repeated with the token that was refused
(`RetryUsesNewToken`). Undisturbed, even when a login overlaps: no spent refresh token is
sent (`SpentTokenUnused`). Undisturbed and without overlap: the stored pair is whole and the
latest, and gone behind the login page (`StorageIsPair`), requests are made in the name of the
user shown (`UserIsOwner`), and no expiring access token ends a session (`SessionKept`).

`UserIsOwner` does need that no login has overlapped, even if nothing was disturbed. A restore
whose session has ended shows the login page, by the interceptor's callback, before bootstrap
comes to its own emit; a user who logs in at once is overtaken by that emit, which ends the busy state of the page, so that a second login may
begin while the first is still storing its tokens, and the app ends up with the tokens
of one under the name of the other. It takes three calls and three sessions, and TLC finds it
when the condition is dropped with these bounds.

### EventsScreen

A load is `Ask` (with the filter it was given), `List` (the API reads the table:
`ListForUser`, the newest `PageSize` events, 100 in the code) and
`Answer`, `AnswerFails` or `AnswerClosed`; two loads overlap in any order. `Refresh`,
`SetFilter`, `Tick` and the steps of the demo begin loads; `then` is what awaits one.
`SyncLiveWatch`, `StartLiveWatch` and `StopLiveWatch` are the methods of those names.
The demo is `RunGuidedDemo`, `Simulate` or `SimulateFails`, then `Poll` and `Check`
(`_waitUntilTerminal`, whose deadline may pass at any look), the next
event, or a last load after which the watch is adjusted; by then another demo may
have begun. Events are numbered in the order of their arrival. `Close` is the disposal of the cubit at logout: whatever emits after it
throws. simulate() always reports the event that it has injected, as the API does, so the
demo's wait of 8 s without one is left out; so are the texts and the step counter.

Correct means: live in the banner is live in fact, and what is in the queue is
watched, and nothing else (`WatchedIffNeeded`), which is what makes answers in the
wrong order harmless in the end (`EventuallyShown`); no spinner without an answer to
come (`SpinnerHasReason`); demos end (`DemoEnds`); no requests behind the user's back
(`ClosedIsSilent`). `forsaken` excepts the time between a demo's failure, which stops the
watch, and the next answer. `Inject` is the API's side of a demo's step.

### EventDetail, HealthPoll, RulesScreen

Three more cubits, modelled like the list: what Dart does up to an await is one step,
the API reads or writes in another, and the answer, or an error, arrives in a third, in
any order among calls under way.

`EventDetail`: `Load` by the screen's opening, by `Tick` of the poll or by `TryAgain` of the
error page; `Get` is the API's handler, with a 404 when there is no such event;
`SyncPoll` with `_stopPoll` after each answer. Correct means that the poll
runs exactly while the screen says so (`PollIffActive`).

`HealthPoll`: `Restart` is start(), which a sign-in causes once (`SignIn`, the listener in
`app.dart`) and a session found by bootstrap twice (`Restore`, the listener and
`bootstrap.dart`); `SignOut` is stop(); `Refresh` is what `Tick` and `Tap` also do. `Check` is the
API's ping of its database and `QueueStats` its count of events afterwards, either of which
may find the database gone. A 503 is an error to the app. Correct means one timer while signed in and none otherwise, and a
bar that is neither empty nor waiting for nothing (`PolledIffSignedIn`).

`RulesScreen`: `Refresh`, `Save` (create and update) and `Remove` begin calls, `Write` and `List`
are the API's, `Written`, `Listed`, `WriteFails` and `ListFails` what the cubit does with the
answers; a write goes on as a load before it returns and its form closes (`Return`).
`Elsewhere` is another device, or the demo's rule. Correct means that after calls which
did not overlap the list is the API's unless an error says otherwise (`ListIsCurrent`),
and that no spinner or busy form waits for nothing (`NothingStuck`). With calls that
overlap, an older list may stay until the next refresh: the code does not prevent it.

### Migrations

`Start` is main() up to Migrate, in the environment of the moment: config.Load (`Load`)
refuses one that lacks a required variable, and such a process leaves no trace.
`Spoil` and `Repair` change the environment that later processes are given. `FindTable` and `CreateTable` are CREATE TABLE IF NOT
EXISTS, whose test and whose creation are not one step when two processes run it;
`Check` is the SELECT, `Apply`, `Record` and `Commit` the transaction of a file, `Serve` what
follows Migrate: NewProvider (`NewProvider`) may refuse the configuration, and the process
exits although it has migrated the database. A statement that makes what an open transaction has made waits for it
(`InTheWay`), and fails when that one commits. `Fail` is any error or the death of the
process, the loss of the answer to COMMIT included. "beaten" marks processes that gave
up because another was faster, so that fairness need not ask anybody to start those
again. The database may be that of an older version, migrated by the first k files.

Correct means: who serves finds all migrations in effect, and the record is true
(`ServedIsMigrated`); there is always one that comes to serve (`SomeoneServes`).

## 4. Runs

| Run | Question | Bounds |
|---|---|---|
| `queue_leases` | if leases are kept, is every event one worker's? | 2 workers, a good and a malformed event, lease 3, 1 crash, 2 faults |
| `queue_overrun` | what survives workers that stall past their lease, and is every accepted event settled? | the same, lease 2, 1 fault, with fairness |
| `queue_stale_worker` | is a claim exclusive? (violated) | no crash, no fault |
| `ingest_deliveries` | may deliveries overlap at will, and is a repeated message acknowledged? | 2 handlers, 2 contents and a forgery under one key, 2 users, 1 remapping, 1 fault, 1 extra delivery, with fairness |
| `tokens_rotation` | may refreshes, logins and faults overlap at will? | 3 handlers, 2 addresses, 4 tokens, 1 fault |
| `rules_book` | may requests and simulations overlap each other, and the worker's match and mark? | 2 handlers, 1 worker, 2 users, 2 rules; an event of a provider with an amount at the threshold, none, null or another, or a simulation of 2 events |
| `rules_overlapping_patches` | does a PATCH keep what it omits? (violated) | 2 handlers, 1 rule |
| `session_overlap` | may requests, refreshes, logins and logouts overlap? | 2 calls, 2 sessions, 1 expired access token, 1 fault, 1 death, 1 wrong password |
| `screens_overlap` | is each screen polled when it must be, with nothing stuck and nothing stale, and is a summary what it should be? | 2 calls; list: 2 events of demos, 1 filter, 1 fault; detail: 1 retry, 2 faults; health: 2 faults, 2 changes; rules: 1 rule, 2 values, 1 fault, 1 change made elsewhere; summaries: 2 users with an event and a rule each, 3 ids, 5 requests, 1 fault, 1 audit row |
| `events_live` | are events seen to settle, and do demos end? | 2 loads, 2 events, of the provider's or of a demo, of which the API lists 1, 1 retry of a failed event, 1 fault, with fairness |
| `events_filter` | do the rows agree with the chip? (violated) | 1 load, 1 event, the picks All and pending |
| `start_together` | does each process serve a migrated database, and one of them always? | 3 processes, 3 files, 3 environments (complete, without a secret, without a provider), 2 faults, with fairness |

Why these are enough to be telling. Two workers and one stalled claim already
give every order of two claims and two marks of a row; two attempts distinguish
the first failure from the last; a second event fills a batch and gives the
order of arrival something to order. In
`queue_leases` the lease is longer than the longest back-off, as in the code up to 22
attempts; in `queue_overrun` they are equal, so that either may end first. A key with two contents and two
overlapping handlers, one of which may be free again for a replay, covers the
conflict, its wait, and its read.
Two calls of the app meet in every pair of places of interceptor, login, logout and
restore; two sessions are what it takes for one to write over the other. Two
loads give every order of two answers, and a second demo event gives demos of two
steps as well as two demos in a row. A page of one event among two makes an event that
is still in the queue drop out of the list, as the 101st does, and hides it from a demo as
a filter does; the filter itself is in `screens_overlap`.
Four tokens make a session with two exchanges next to another login. Two rules
of a user tell the oldest from the rest, and a deleted one leaves a match or a PATCH
behind. A simulation of two events can stop between them. Three ids are enough for equal numbers of
ids and events that are not the same, were the user not asked for; an attempt that is
given up and its successor are two calls. The rows of the rules screen do not influence each other: the
flags, the sheet and a list being fetched are shared by all of them, and one rule that is
added, changed, removed and added again, here and elsewhere, meets every order of these.
The screens share no state (`Screens`), so that a behaviour of `MCScreens` follows one of
them and shows the others as they are when left. Three processes are what it takes for
one to be beaten by two others in turn. Every bound on the environment (`MaxCrashes`, `MaxFaults`, `MaxDups`,
`MaxRemaps`, and `Supply`, which reserves a fresh token for every request under way)
limits how much goes wrong, never what the code may do next.

`ingest_deliveries` does not check deadlock: when all is acknowledged the provider has
nothing left to post. Nor do the runs of the app: its user may stop using it, and a
screen that is left does nothing more. `start_together` ends when the processes serve.

### Fairness

`EventQueue`: time passes (`WF(Pass)`) and a worker that is up takes its steps
(`WF(WorkerStep(w))`), which is the goroutine's ticker and the pool's answers. `Restart`
is not fair: the compose file restarts no process. `LedgerLive` holds because of
the two workers only one can crash.
`WebhookIngest`: a handler runs to its end (`WF`), and a provider posts a message it
has no acknowledgement for again and again (`SF`, since a free handler comes and
goes). The code's part is that the repetition is harmless and in the end succeeds.

`EventsScreen`: requests end (`WF(LoadStep(l))`), the timer fires (`WF` of some `Tick`), the
workers settle events (`WF(Work(e))`, which `queue_overrun` shows), and the demo's delays
pass (`SF(DemoStep)`: strong, only because the model limits the loads under way, so that a
step of the demo may have to wait for a free one; the app has no such limit).

`Migrations`: a process takes its steps (`WF(Step(p))`), and one that is down is started
(`WF` of `Start`, the operator's part), except those that were beaten. Whoever deploys
the API repairs an environment in which it cannot serve (`WF(Repair)`); how often it may be
spoilt is bounded.

## 5. Proofs

All are theorems of the specification for every value of the constants that
satisfies the named assumptions; sets may be infinite.

* **EventQueueProofs.** `TypeCorrect` first. The row invariants (`AttemptsBounded`,
  `NoUnleasedRow`, `NoDanglingMatch`) need to know that a row that a claim statement
  has locked is still claimable when it commits (`LockedRowClaimable`): the Mark
  statements respect the lock, so attempts cannot run out underneath it.
  `OneWorkerPerEvent` and `HoldersOwnRows` are proved together from `LeaseInv`: under
  `~Overrun` whoever holds a row holds it for exactly as long as the row says, and
  a row locked by a claim is nobody's; therefore a row whose lease is over has no
  holder. `SettledRowsFinal` and `QueueIsLedger` follow from the same invariants,
  action by action: every step maps to Accept, Finish, Fail or a stutter.
  `RowsCountedOnce` exhibits the disjoint sets of processed rows that the counters are the sizes
  of: a processed row stays processed (`ProcessedStays`), and a counted mark adds its row to
  one set. `AttemptsAreFaults` is strengthened by those marks under way that will cost an attempt:
  with them, attempts are still no more than failed database calls (`ChargesAreFaults`).
* **WebhookIngestProofs.** `InsertsExclusive` (two inserts in progress differ in user
  or key) and `InsertsFresh` (the key of an insert in progress is not stored) give
  `IngestIdempotent`; the honest answers need in addition what a handler's `ev`
  is known to be in each place.
* **MigrationsProofs.** A process that has come to a file leaves only files behind
  that are in effect (`Behind`), and no step takes one out of effect or changes the
  schema without its record; at the last file that is `MigratedBeforeServing`.
* **RuleBookProofs.** Ids are never given twice, and a rule keeps its user as long as it is
  there (`Kept`, which every step satisfies). What a worker has found is therefore its
  event's user's own or gone (`FoundOwn`), whatever is patched and deleted until it marks:
  with what a request knows of its rule (`PlaceOK`) that is the inductive `Inv` behind
  `MatchesAreOwn`, and `Kept` alone gives `DeletedRulesStay`. `MadeOK`, that the last event a
  simulation has made is in the queue, makes `SimulatedInOrder` inductive. `OldestRuleApplies`
  says that the least hit is the oldest rule that applies, by the order of the
  naturals. `DemoRuleIsOne` has two hypotheses: users do not overlap their simulations,
  and nobody gives the name of the demo rule to a rule or takes it away (`NameReserved`,
  about the bodies of requests). Its strengthening `DemoInv` says that who is to insert the
  demo rule has none.
* **SummariesProofs.** The comparison of numbers is worth what `AllFound` says: for each id one
  event is found at most, so equal numbers mean that every id denotes an event of the
  user (by surjections between finite sets). From there a request's `Seen` says that an event
  that had a rule when it was read keeps it or has lost it with the rule, which gives
  `PromptsAreTrue` and, with the owners of names, `SummariesAreOwn`. `Saved` and `Mine` tie an answer
  to the screen's user and route, for `ScreenShowsAudited`.
* **RefreshTokensProofs.** `LocksExclusive` (a locked row is locked by one request
  and live), `LineageOK` (the parent of a token is gone, sessions are inherited),
  `RequestKnown` and `AnswersKnown` (what a request and an answer know of their
  tokens) are inductive together and give four of the theorems. The fifth,
  `RefreshEndsNoSession`, follows a token that goes: only a sweep of an expired one and an
  exchange take it, and without faults an exchange leaves a successor.
* **MobileSessionProofs.** The inductive invariant has six parts, each proved from those
  before it. `Typed` adds to the type which place and which pair of tokens go with which kind of
  call. `Gate` is `OneRefresh` with `NobodyStranded`, which hold together or not at all: the
  gate opens for all who wait at once. `Retry` says that no token is of a pair still to be
  issued, that what was refused is invalid and what is sent after a refresh is valid: that makes them
  different (`RetriesDiffer`). `Chain` says that the stored refresh token is
  the last of its session except while its successor is on the way to the storage, and that a
  login's session is nobody else's (`RefreshTokensUsedOnce`). `Apart` says that without overlap only
  requests for data are under way together. `Storage` then knows of each moment
  between two writes who is writing (`WritesKnown`), when the storage is being emptied and for
  which session (`EmptyKnown`, `LoginPageKnown`), whose the tokens are (`OwnerKnown`) and what me()
  and restore() have seen (`EntryKnown`), for `PairsStored`, `ShownUserOwnsTokens` and, step by
  step, `NoSessionLost`.
* **ScreensProofs.** Each screen has its own inductive invariant. That of the list adds to
  `TypeOK`, `WatchedIffNeeded` and `SpinnerHasReason` that a demo waits for one call at most and
  does nothing else meanwhile (`DemoWaits`): otherwise the answer to a load left over could move the demo.
  That of the rules adds that there is one call at a time as long as none has overlapped
  (`Alone`) and that a list on its way is the API's but for what others have changed
  (`AnswerCurrent`). The polls of `EventDetail` and `HealthPoll` are inductive once the places of calls
  are typed, and `ExplainNotStuck` follows from the invariant of `SummariesProofs`. The
  theorems are about the specification of each screen by itself, any number of calls, events and
  rules, any page size and any filters; those of the run are instances.

Model-checked only: liveness (`LedgerLive`, `EventuallyAcknowledged`, `SomeoneServes`,
`EventuallyShown`, `DemoEnds` and `ClosedIsSilent`), which these provers do not handle under
fairness. The type invariants of
`EventQueue`, `WebhookIngest`, `RefreshTokens`, `RuleBook` and `Summaries`, and
`AttemptsLeft` and `ProcessingIsLeased`, are conjuncts of the inductive invariants and need no run.

## 6. Disagreements of code and text

* `queue_stale_worker`: the claim is described as exclusive, but a worker that
  holds a row for longer than the lease shares it with the next one, and then
  either may mark the other's claim: `LeaseExclusive` fails under `Overrun`. The
  damage is bounded by what `queue_overrun` shows.
* `rules_overlapping_patches`: a field that PATCH omits is left unchanged, says
  the comment at optionalFloat64; between the read and the write of
  UpdateForUser another PATCH may change it, and is undone.
* `events_filter`: the chip "All" loads all events but leaves the old chip selected, as
  copyWith takes null for "keep" (`events_state.dart:57`); the next refresh, a second later
  if the list is live, loads the old filter again.

## 7. Not modelled

* Texts and numbers that decide nothing: prompts and summaries, requestHash, the mock
  provider's summary and the amounts it quotes, error messages, the statistics of the health
  bar, `last_error`, LastTick and ErrorTotal.
* Passwords and e-mail addresses beyond right or wrong, taken or free; the signature of
  an access token beyond valid, expired or neither.
* The upgrade of a queue: rows that were processing when `claimed_at` was added
  (`00003_claimed_at.sql:2`) have none, and ClaimNextWithLease passes them by for ever, although
  `docs/threat-model.md:20` has stale rows reclaimable. The models begin with the schema of today.
* The app's widgets, JSON mapping, routing and theme, which have no state that a
  property could be about.
* `ClaimByID`, `GetByID` and other leases than ClaimLease, which only tests call.
