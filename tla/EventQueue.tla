------------------------------ MODULE EventQueue ------------------------------
(***************************************************************************)
(* The durable work queue of the walletops API: the rows of the table      *)
(* "events", the statements of api/internal/events/store.go that change    *)
(* them, and the worker goroutine (api/internal/worker/worker.go) that     *)
(* every API process runs against the shared database.                     *)
(*                                                                         *)
(* A worker holds nothing durable: between the claim of a row and the      *)
(* statement that settles it, the only trace of the work is the row's      *)
(* status and claimed_at.  Time is discrete; what the statements compare   *)
(* with now() is kept as an age, saturated where older makes no            *)
(* difference.                                                             *)
(***************************************************************************)
EXTENDS Integers, FiniteSets, Sequences

CONSTANTS
    Events,       \* the rows that may be ingested, by (user, idempotency key)
    Workers,      \* the API processes, one worker goroutine each
    Rules,        \* the alert rules that exist at the start
    Malformed,    \* the events whose payload payloadAmount rejects
    None,         \* SQL NULL, Go nil
    MaxAttempts,  \* attempts after which a failed row is left alone
    BatchSize,    \* claims per tick
    Lease,        \* ClaimLease
    BackoffMin, BackoffStep, BackoffCap,   \* 2, 2 and 60 seconds in the code
    Overrun,      \* may a worker hold a row for longer than the lease?
    MaxCrashes, MaxFaults    \* bounds of the environment, not of the code

ASSUME MalformedAssumption == Malformed \subseteq Events
ASSUME NoneAssumption == None \notin Events \cup Rules \cup Nat
ASSUME LimitsAssumption ==
    /\ MaxAttempts \in Nat \ {0}
    /\ BatchSize \in Nat \ {0}
ASSUME TimesAssumption ==
    /\ Lease \in Nat \ {0}
    /\ BackoffMin \in Nat /\ BackoffStep \in Nat /\ BackoffCap \in Nat
    /\ BackoffMin <= BackoffCap
ASSUME EnvironmentAssumption ==
    /\ Overrun \in BOOLEAN
    /\ MaxCrashes \in Nat /\ MaxFaults \in Nat

VARIABLES
    \* the rows
    status,     \* absent until ingested, then the column status
    attempts,   \* attempt_count
    claimed,    \* now() - claimed_at, at most Lease; None when NULL
    settled,    \* now() - processed_at of a failed row, at most BackoffCap
    matched,    \* matched_rule_id
    arrivals,   \* the rows in the order of received_at
    ruleSet,    \* the ids in alert_rules
    \* the workers
    pc,         \* where the goroutine is
    job,        \* the event it is claiming or has claimed
    found,      \* the rule that process() returned
    left,       \* iterations of tick's loop that remain, the current one included
    held,       \* time since its claim statement started, at most Lease
    done,       \* Stats.ProcessedTotal
    \* the environment
    crashes, faults

rows    == <<status, attempts, claimed, settled, matched, arrivals>>
workers == <<pc, job, found, left, held, done>>
vars    == <<rows, ruleSet, workers, crashes, faults>>

Statuses == {"absent", "pending", "processing", "processed", "failed"}
Pcs      == {"down", "sleeping", "polling", "claiming", "holding", "failing", "finishing"}
Ids      == Events \cup {None}
RuleIds  == Rules \cup {None}

Min2(a, b) == IF a <= b THEN a ELSE b
Max2(a, b) == IF a <= b THEN b ELSE a

\* A worker with a claimed row in hand.
Holding(w) == pc[w] \in {"holding", "failing", "finishing"}

RowsOK ==
    /\ status   \in [Events -> Statuses]
    /\ attempts \in [Events -> 0..MaxAttempts]
    /\ claimed  \in [Events -> (0..Lease) \cup {None}]
    /\ settled  \in [Events -> 0..BackoffCap]
    /\ matched  \in [Events -> RuleIds]
    /\ arrivals \in Seq(Events)
    /\ ruleSet  \in SUBSET Rules
WorkersOK ==
    /\ pc    \in [Workers -> Pcs]
    /\ job   \in [Workers -> Ids]
    /\ found \in [Workers -> RuleIds]
    /\ left  \in [Workers -> 0..BatchSize]
    /\ held  \in [Workers -> 0..Lease]
    /\ done  \in [Workers -> Nat]
EnvironmentOK == crashes \in 0..MaxCrashes /\ faults \in 0..MaxFaults

TypeOK == RowsOK /\ WorkersOK /\ EnvironmentOK

Init ==
    /\ status   = [e \in Events |-> "absent"]
    /\ attempts = [e \in Events |-> 0]
    /\ claimed  = [e \in Events |-> None]
    /\ settled  = [e \in Events |-> 0]
    /\ matched  = [e \in Events |-> None]
    /\ arrivals = << >>
    /\ ruleSet  = Rules
    /\ pc    = [w \in Workers |-> "polling"]
    /\ job   = [w \in Workers |-> None]
    /\ found = [w \in Workers |-> None]
    /\ left  = [w \in Workers |-> BatchSize]
    /\ held  = [w \in Workers |-> 0]
    /\ done  = [w \in Workers |-> 0]
    /\ crashes = 0
    /\ faults  = 0

(***************************************************************************)
(* The statements' conditions                                              *)
(***************************************************************************)

\* LEAST(60, GREATEST(2, attempt_count * 2))
Backoff(n) == Min2(BackoffCap, Max2(BackoffMin, n * BackoffStep))

\* Mutated forms of Claimable.
ClaimableIgnoringLease(e) ==
    \/ status[e] \in {"pending", "processing"}
    \/ status[e] = "failed" /\ attempts[e] < MaxAttempts /\ settled[e] >= Backoff(attempts[e])
ClaimableUnlessProcessing(e) ==
    \/ status[e] = "pending"
    \/ status[e] = "failed" /\ attempts[e] < MaxAttempts /\ settled[e] >= Backoff(attempts[e])

\* The WHERE clause of the claim.
Claimable(e) ==
    \/ status[e] = "pending"
    \/ /\ status[e] = "failed"
       /\ attempts[e] < MaxAttempts
       /\ settled[e] >= Backoff(attempts[e])
    \/ /\ status[e] = "processing"
       /\ claimed[e] # None
       /\ claimed[e] >= Lease

\* FOR UPDATE holds the row from the sub-select to the end of the statement.
RowLocked(e) == \E w \in Workers : pc[w] = "claiming" /\ job[w] = e

\* FOR UPDATE SKIP LOCKED: what the sub-select may return.
Candidates == {e \in Events : Claimable(e) /\ ~RowLocked(e)}

\* ORDER BY received_at ASC
Older(d, e) ==
    \E i, j \in DOMAIN arrivals : i < j /\ arrivals[i] = d /\ arrivals[j] = e

\* The iteration of tick's loop is over: the next claim, or the next tick.
NextIteration(w) ==
    /\ left' = [left EXCEPT ![w] = @ - 1]
    /\ pc'   = [pc EXCEPT ![w] = IF left[w] > 1 THEN "polling" ELSE "sleeping"]
    /\ job'  = [job EXCEPT ![w] = None]
    /\ found' = [found EXCEPT ![w] = None]
    /\ held' = [held EXCEPT ![w] = 0]

\* ProcessOne returned ok = false: tick ends.
EndTick(w) ==
    /\ pc'   = [pc EXCEPT ![w] = "sleeping"]
    /\ left' = [left EXCEPT ![w] = 0]
    /\ job'  = [job EXCEPT ![w] = None]
    /\ held' = [held EXCEPT ![w] = 0]
    /\ UNCHANGED <<found, done>>

\* The environment breaks one database call.
Fault == faults < MaxFaults /\ faults' = faults + 1

(***************************************************************************)
(* Ingest and rules                                                        *)
(***************************************************************************)

\* The INSERT of a key seen for the first time.  A replay of the key falls
\* into ON CONFLICT DO NOTHING and changes no row, so it is not a step here.
CreatePending(e) ==
    /\ status[e] = "absent"
    /\ status'   = [status EXCEPT ![e] = "pending"]
    /\ arrivals' = Append(arrivals, e)
    /\ UNCHANGED <<attempts, claimed, settled, matched, ruleSet, workers, crashes, faults>>

\* DELETE FROM alert_rules; matched_rule_id REFERENCES it ON DELETE SET NULL.
DeleteRule(r) ==
    /\ r \in ruleSet
    /\ ruleSet' = ruleSet \ {r}
    /\ matched' = [e \in Events |-> IF matched[e] = r THEN None ELSE matched[e]]
    /\ UNCHANGED <<status, attempts, claimed, settled, arrivals, workers, crashes, faults>>

(***************************************************************************)
(* The worker                                                              *)
(***************************************************************************)

\* The ticker fires: a new batch.
Tick(w) ==
    /\ pc[w] = "sleeping"
    /\ pc'   = [pc EXCEPT ![w] = "polling"]
    /\ left' = [left EXCEPT ![w] = BatchSize]
    /\ UNCHANGED <<rows, ruleSet, job, found, held, done, crashes, faults>>

\* The claim statement picks its row and locks it; claimed_at will be now(),
\* the start of the statement.
LockNext(w) ==
    /\ pc[w] = "polling"
    /\ \E e \in Candidates :
         /\ \A d \in Candidates : ~Older(d, e)
         /\ job' = [job EXCEPT ![w] = e]
    /\ pc'   = [pc EXCEPT ![w] = "claiming"]
    /\ held' = [held EXCEPT ![w] = 0]
    /\ UNCHANGED <<rows, ruleSet, found, left, done, crashes, faults>>

\* No row to claim: ErrNotFound, the tick is over.
QueueEmpty(w) ==
    /\ pc[w] = "polling"
    /\ Candidates = {}
    /\ EndTick(w)
    /\ UNCHANGED <<rows, ruleSet, crashes, faults>>

\* Mutated forms of WriteClaim: a reclaim keeps the claimed_at of the first
\* claim; a reclaim counts as a failed attempt.
WriteClaimKeepingStamp(w) ==
    /\ pc[w] = "claiming"
    /\ status'  = [status EXCEPT ![job[w]] = "processing"]
    /\ claimed' = [claimed EXCEPT ![job[w]] = IF @ = None THEN held[w] ELSE @]
    /\ settled' = [settled EXCEPT ![job[w]] = 0]
    /\ UNCHANGED <<attempts, matched, arrivals, ruleSet, crashes>>
WriteClaimCountingReclaims(w) ==
    /\ pc[w] = "claiming"
    /\ status'  = [status EXCEPT ![job[w]] = "processing"]
    /\ claimed' = [claimed EXCEPT ![job[w]] = held[w]]
    /\ settled' = [settled EXCEPT ![job[w]] = 0]
    /\ attempts' = [attempts EXCEPT ![job[w]] = IF status[job[w]] = "processing" THEN @ + 1 ELSE @]
    /\ UNCHANGED <<matched, arrivals, ruleSet, crashes>>

\* What the claim statement writes when it commits.
WriteClaim(w) ==
    /\ pc[w] = "claiming"
    /\ status'  = [status EXCEPT ![job[w]] = "processing"]
    /\ claimed' = [claimed EXCEPT ![job[w]] = held[w]]
    /\ settled' = [settled EXCEPT ![job[w]] = 0]
    /\ UNCHANGED <<attempts, matched, arrivals, ruleSet, crashes>>

Claim(w) ==
    /\ WriteClaim(w)
    /\ pc' = [pc EXCEPT ![w] = "holding"]
    /\ UNCHANGED <<job, found, left, held, done, faults>>

\* The statement commits and its answer is lost: the row is claimed by nobody.
ClaimAnswerLost(w) ==
    /\ WriteClaim(w)
    /\ EndTick(w)
    /\ Fault

\* The statement fails and is rolled back: the tick ends with an error.
ClaimFails(w) ==
    /\ pc[w] \in {"polling", "claiming"}
    /\ EndTick(w)
    /\ Fault
    /\ UNCHANGED <<rows, ruleSet, crashes>>

\* process() succeeds with the rule it found.  Which rule that is depends on
\* the user's rules at this moment; here it is any existing rule, or none.
Match(w) ==
    /\ pc[w] = "holding"
    /\ job[w] \notin Malformed
    /\ \E r \in ruleSet \cup {None} : found' = [found EXCEPT ![w] = r]
    /\ pc' = [pc EXCEPT ![w] = "finishing"]
    /\ UNCHANGED <<rows, ruleSet, job, left, held, done, crashes, faults>>

\* process() rejects the payload.
Reject(w) ==
    /\ pc[w] = "holding"
    /\ job[w] \in Malformed
    /\ pc' = [pc EXCEPT ![w] = "failing"]
    /\ UNCHANGED <<rows, ruleSet, job, found, left, held, done, crashes, faults>>

\* The lookup of the rules fails; it counts as a failed attempt like a
\* malformed payload does.
LookupFails(w) ==
    /\ pc[w] = "holding"
    /\ job[w] \notin Malformed
    /\ Fault
    /\ pc' = [pc EXCEPT ![w] = "failing"]
    /\ UNCHANGED <<rows, ruleSet, job, found, left, held, done, crashes>>

\* Mutated form of WriteFailed: the status is not asked.
WriteFailedAlways(e) ==
    /\ ~RowLocked(e)
    /\ status'   = [status EXCEPT ![e] = "failed"]
    /\ attempts' = [attempts EXCEPT ![e] = @ + 1]
    /\ settled'  = [settled EXCEPT ![e] = 0]
    /\ claimed'  = [claimed EXCEPT ![e] = None]
    /\ UNCHANGED <<matched, arrivals, ruleSet, crashes>>

\* What MarkAttemptFailed writes: WHERE status = 'processing', whoever claimed it.
WriteFailed(e) ==
    /\ ~RowLocked(e)
    /\ \/ /\ status[e] = "processing"
          /\ status'   = [status EXCEPT ![e] = "failed"]
          /\ attempts' = [attempts EXCEPT ![e] = @ + 1]
          /\ settled'  = [settled EXCEPT ![e] = 0]
          /\ claimed'  = [claimed EXCEPT ![e] = None]
       \/ /\ status[e] # "processing"
          /\ UNCHANGED <<status, attempts, settled, claimed>>
    /\ UNCHANGED <<matched, arrivals, ruleSet, crashes>>

MarkAttemptFailed(w) ==
    /\ pc[w] = "failing"
    /\ WriteFailed(job[w])
    /\ NextIteration(w)
    /\ UNCHANGED <<done, faults>>

\* What MarkProcessed writes: WHERE status = 'processing', whoever claimed it.
\* Nothing is written when the rule has been deleted meanwhile: the foreign
\* key rejects it, and the row stays in processing until its lease runs out.
WriteProcessed(e, r) ==
    /\ ~RowLocked(e)
    /\ \/ /\ status[e] = "processing" /\ r \in ruleSet \cup {None}
          /\ status'  = [status EXCEPT ![e] = "processed"]
          /\ matched' = [matched EXCEPT ![e] = r]
          /\ claimed' = [claimed EXCEPT ![e] = None]
       \/ /\ status[e] # "processing" \/ r \notin ruleSet \cup {None}
          /\ UNCHANGED <<status, matched, claimed>>
    /\ UNCHANGED <<attempts, settled, arrivals, ruleSet, crashes>>

\* Mutated form of MarkProcessed: every answer is counted.
MarkProcessedCountingAll(w) ==
    /\ pc[w] = "finishing"
    /\ WriteProcessed(job[w], found[w])
    /\ done' = [done EXCEPT ![w] = @ + 1]
    /\ NextIteration(w)
    /\ UNCHANGED faults

\* IncProcessed only follows a statement that reports one changed row.
MarkProcessed(w) ==
    /\ pc[w] = "finishing"
    /\ WriteProcessed(job[w], found[w])
    /\ done' = [done EXCEPT ![w] = IF status' # status THEN @ + 1 ELSE @]
    /\ NextIteration(w)
    /\ UNCHANGED faults

\* Either statement commits and its answer is lost.  Nothing retries it.
MarkAnswerLost(w) ==
    /\ \/ pc[w] = "failing" /\ WriteFailed(job[w])
       \/ pc[w] = "finishing" /\ WriteProcessed(job[w], found[w])
    /\ NextIteration(w)
    /\ Fault
    /\ UNCHANGED done

\* Either statement fails: the row stays in processing, the loop goes on.
MarkFails(w) ==
    /\ pc[w] \in {"failing", "finishing"}
    /\ NextIteration(w)
    /\ Fault
    /\ UNCHANGED <<rows, ruleSet, done, crashes>>

(***************************************************************************)
(* Processes and time                                                      *)
(***************************************************************************)

\* The process dies, or SIGTERM cancels the worker's context: a statement not
\* yet committed is rolled back, a claimed row stays as it is.
Crash(w) ==
    /\ pc[w] # "down"
    /\ crashes < MaxCrashes
    /\ crashes' = crashes + 1
    /\ pc'    = [pc EXCEPT ![w] = "down"]
    /\ job'   = [job EXCEPT ![w] = None]
    /\ found' = [found EXCEPT ![w] = None]
    /\ left'  = [left EXCEPT ![w] = 0]
    /\ held'  = [held EXCEPT ![w] = 0]
    /\ done'  = [done EXCEPT ![w] = 0]
    /\ UNCHANGED <<rows, ruleSet, faults>>

\* Run ticks at once, before the ticker's first period.
Restart(w) ==
    /\ pc[w] = "down"
    /\ pc'   = [pc EXCEPT ![w] = "polling"]
    /\ left' = [left EXCEPT ![w] = BatchSize]
    /\ UNCHANGED <<rows, ruleSet, job, found, held, done, crashes, faults>>

Occupied(w) == Holding(w) \/ pc[w] = "claiming"

\* One unit of time.  Unless Overrun, every worker settles the row it has
\* claimed, or dies, before the lease is over.
Pass ==
    /\ Overrun \/ \A w \in Workers : Occupied(w) => held[w] + 1 < Lease
    /\ claimed' = [e \in Events |->
                     IF claimed[e] = None THEN None ELSE Min2(claimed[e] + 1, Lease)]
    /\ settled' = [e \in Events |->
                     IF status[e] = "failed" THEN Min2(settled[e] + 1, BackoffCap) ELSE 0]
    /\ held' = [w \in Workers |-> IF Occupied(w) THEN Min2(held[w] + 1, Lease) ELSE 0]
    /\ UNCHANGED <<status, attempts, matched, arrivals, ruleSet,
                   pc, job, found, left, done, crashes, faults>>

WorkerStep(w) ==
    \/ Tick(w)
    \/ LockNext(w) \/ QueueEmpty(w)
    \/ Claim(w) \/ ClaimAnswerLost(w) \/ ClaimFails(w)
    \/ Match(w) \/ Reject(w) \/ LookupFails(w)
    \/ MarkAttemptFailed(w) \/ MarkProcessed(w) \/ MarkAnswerLost(w) \/ MarkFails(w)

Next ==
    \/ \E e \in Events : CreatePending(e)
    \/ \E r \in Rules : DeleteRule(r)
    \/ \E w \in Workers : WorkerStep(w) \/ Crash(w) \/ Restart(w)
    \/ Pass

Spec == Init /\ [][Next]_vars

\* Time passes, and a process that is up keeps running.  A crashed process
\* need not come back: nothing in the deployment restarts it.
Fairness ==
    /\ WF_vars(Pass)
    /\ \A w \in Workers : WF_vars(WorkerStep(w))

FairSpec == Spec /\ Fairness

(***************************************************************************)
(* Properties                                                              *)
(***************************************************************************)

\* Two processes never work on the same event within the lease of both:
\* what the claim with FOR UPDATE SKIP LOCKED and claimed_at is there for.
LeaseExclusive ==
    \A v, w \in Workers :
        /\ Holding(v) /\ held[v] < Lease
        /\ Holding(w) /\ held[w] < Lease
        /\ job[v] = job[w]
        => v = w

\* While its lease runs, what a worker holds in memory agrees with the row:
\* neither of the two Mark statements, guarded by status = 'processing' and
\* nothing else, can then hit a row that somebody else has claimed or settled.
HolderOwnsRow ==
    \A w \in Workers :
        Holding(w) /\ held[w] < Lease =>
            status[job[w]] = "processing" /\ claimed[job[w]] = held[w]

\* A row is worked on only while it has an attempt to lose, so that no
\* interleaving of stale Mark statements takes attempt_count past MaxAttempts.
AttemptsLeft ==
    \A e \in Events :
        /\ attempts[e] <= MaxAttempts
        /\ status[e] \in {"pending", "processing"} => attempts[e] < MaxAttempts

\* A row in processing has a claimed_at to run out, the condition under which
\* the claim statement can ever take it back from a dead worker.
ProcessingIsLeased ==
    \A e \in Events : status[e] = "processing" <=> claimed[e] # None

\* matched_rule_id names an existing rule, and only a processed row has one,
\* whatever is deleted between the lookup and the Mark statement.
MatchedRuleExists ==
    \A e \in Events :
        matched[e] # None => status[e] = "processed" /\ matched[e] \in ruleSet

\* The processed counters of the live processes never count a row twice,
\* although answers get lost and stale workers still mark their rows: they are
\* the sizes of disjoint sets of processed rows.
Processed == {e \in Events : status[e] = "processed"}
CountedOnce ==
    \E counts \in [Workers -> SUBSET Processed] :
        /\ \A v, w \in Workers : v # w => counts[v] \cap counts[w] = {}
        /\ \A w \in Workers : done[w] = Cardinality(counts[w])

\* A crash, a reclaim or a deleted rule costs an event no attempt: only a
\* failed database call can be held against an event with a good payload.
GoodPayloadKeepsAttempts ==
    \A e \in Events \ Malformed : attempts[e] <= faults

\* A row that is processed, or has failed for the last time, is never changed
\* again, except that deleting its rule clears matched_rule_id.
Settled(e) ==
    status[e] = "processed" \/ (status[e] = "failed" /\ attempts[e] = MaxAttempts)
SettledForever ==
    [][\A e \in Events : Settled(e) =>
          /\ status'[e] = status[e] /\ attempts'[e] = attempts[e]
          /\ matched'[e] \in {matched[e], None}]_vars

(***************************************************************************)
(* The queue as a job ledger                                               *)
(***************************************************************************)

LedgerState == [e \in Events |->
    IF status[e] = "absent" THEN "absent"
    ELSE IF status[e] = "processed" THEN "done"
    ELSE IF status[e] = "failed" /\ attempts[e] = MaxAttempts THEN "dead"
    ELSE "queued"]

Ledger == INSTANCE JobLedger WITH state <- LedgerState, tries <- attempts

\* Each statement of the store is a step of the ledger or none at all.
LedgerSafe == Ledger!SafeSpec
\* Moreover every accepted event is settled in the end, as long as one
\* process survives: nobody's crash or lost answer strands a row.
LedgerLive == Ledger!Spec
===============================================================================
