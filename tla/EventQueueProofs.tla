--------------------------- MODULE EventQueueProofs ---------------------------
(***************************************************************************)
(* Theorems about EventQueue, for every number of events, workers and      *)
(* rules, every lease and every back-off schedule.                         *)
(***************************************************************************)
EXTENDS EventQueue, FiniteSetTheorems, TLAPS

(***************************************************************************)
(* The inductive invariant: what is true of the rows alone, what is true   *)
(* of the workers alone, and the one fact that ties them: between the      *)
(* sub-select and the commit of a claim nobody changes the locked row, so  *)
(* that it is still claimable when it is written.                          *)
(***************************************************************************)

AbsentUntried ==
    \A e \in Events : status[e] = "absent" => attempts[e] = 0
RowInv ==
    RowsOK /\ AbsentUntried /\ AttemptsLeft /\ ProcessingIsLeased /\ MatchedRuleExists

Busy(w) == pc[w] = "claiming" \/ Holding(w)
JobsInHand ==
    \A w \in Workers :
        /\ Busy(w) => job[w] \in Events
        /\ Busy(w) \/ pc[w] = "polling" => left[w] > 0
LocksExclusive ==
    \A v, w \in Workers :
        pc[v] = "claiming" /\ pc[w] = "claiming" /\ job[v] = job[w] => v = w
WorkerInv == WorkersOK /\ JobsInHand /\ LocksExclusive

LockedRowClaimable ==
    \A w \in Workers : pc[w] = "claiming" => Claimable(job[w])

Inv == RowInv /\ WorkerInv /\ LockedRowClaimable /\ EnvironmentOK

(***************************************************************************)
(* The constants                                                           *)
(***************************************************************************)

LEMMA Constants ==
    /\ None \notin Events /\ None \notin Rules /\ None \notin Nat
    /\ Lease \in Nat /\ Lease > 0
    /\ MaxAttempts \in Nat /\ MaxAttempts > 0
    /\ BatchSize \in Nat /\ BatchSize > 0
    /\ BackoffCap \in Nat /\ MaxCrashes \in Nat /\ MaxFaults \in Nat
BY NoneAssumption, TimesAssumption, LimitsAssumption, EnvironmentAssumption

\* A failed row always becomes due: a back-off never exceeds the age at which
\* processed_at saturates.
LEMMA BackoffType ==
    ASSUME NEW n \in Nat
    PROVE  Backoff(n) \in Nat /\ Backoff(n) <= BackoffCap
BY TimesAssumption DEF Backoff, Min2, Max2

(***************************************************************************)
(* What the statements do to the rows                                      *)
(***************************************************************************)

LEMMA RowsUnchanged == RowInv /\ UNCHANGED <<rows, ruleSet>> => RowInv'
BY DEF RowInv, RowsOK, AbsentUntried, AttemptsLeft, ProcessingIsLeased, MatchedRuleExists, rows

LEMMA WriteClaimRows ==
    ASSUME RowInv, NEW w \in Workers, job[w] \in Events, held[w] \in 0..Lease,
           Claimable(job[w]), WriteClaim(w)
    PROVE  RowInv'
<1> USE Constants DEF WriteClaim, RowInv, RowsOK
<1>1. attempts[job[w]] < MaxAttempts /\ status[job[w]] # "absent" /\ status[job[w]] # "processed"
  BY DEF Claimable, AttemptsLeft, Statuses
<1>2. RowsOK'
  BY DEF Statuses
<1>3. AbsentUntried' /\ AttemptsLeft'
  BY <1>1 DEF AbsentUntried, AttemptsLeft, Statuses
<1>4. ProcessingIsLeased'
  BY DEF ProcessingIsLeased, Statuses
<1>5. MatchedRuleExists'
  BY <1>1 DEF MatchedRuleExists
<1> QED
  BY <1>2, <1>3, <1>4, <1>5

LEMMA WriteFailedRows ==
    ASSUME RowInv, NEW e \in Events, WriteFailed(e)
    PROVE  RowInv'
<1> USE Constants DEF RowInv, RowsOK
<1>1. CASE status[e] = "processing" /\ status' = [status EXCEPT ![e] = "failed"]
  <2>1. /\ attempts' = [attempts EXCEPT ![e] = @ + 1]
        /\ settled'  = [settled EXCEPT ![e] = 0]
        /\ claimed'  = [claimed EXCEPT ![e] = None]
        /\ UNCHANGED <<matched, arrivals, ruleSet>>
    BY <1>1 DEF WriteFailed, Statuses
  <2>2. attempts[e] < MaxAttempts
    BY <1>1 DEF AttemptsLeft
  <2>3. RowsOK'
    BY <1>1, <2>1, <2>2 DEF Statuses
  <2>4. AbsentUntried' /\ AttemptsLeft'
    BY <1>1, <2>1, <2>2 DEF AbsentUntried, AttemptsLeft
  <2>5. ProcessingIsLeased' /\ MatchedRuleExists'
    BY <1>1, <2>1 DEF ProcessingIsLeased, MatchedRuleExists
  <2> QED
    BY <2>3, <2>4, <2>5
<1>2. CASE UNCHANGED <<status, attempts, settled, claimed>>
  BY <1>2, RowsUnchanged DEF WriteFailed, rows
<1> QED
  BY <1>1, <1>2 DEF WriteFailed

LEMMA WriteProcessedRows ==
    ASSUME RowInv, NEW e \in Events, NEW r \in RuleIds, WriteProcessed(e, r)
    PROVE  RowInv'
<1> USE Constants DEF RowInv, RowsOK
<1>1. CASE /\ status[e] = "processing" /\ r \in ruleSet \cup {None}
           /\ status'  = [status EXCEPT ![e] = "processed"]
           /\ matched' = [matched EXCEPT ![e] = r]
           /\ claimed' = [claimed EXCEPT ![e] = None]
  <2>1. UNCHANGED <<attempts, settled, arrivals, ruleSet>>
    BY DEF WriteProcessed
  <2>2. RowsOK'
    BY <1>1, <2>1 DEF Statuses, RuleIds
  <2>3. AbsentUntried' /\ AttemptsLeft'
    BY <1>1, <2>1 DEF AbsentUntried, AttemptsLeft
  <2>4. ProcessingIsLeased' /\ MatchedRuleExists'
    BY <1>1, <2>1 DEF ProcessingIsLeased, MatchedRuleExists
  <2> QED
    BY <2>2, <2>3, <2>4
<1>2. CASE UNCHANGED <<status, matched, claimed>>
  BY <1>2, RowsUnchanged DEF WriteProcessed, rows
<1> QED
  BY <1>1, <1>2 DEF WriteProcessed

\* Time changes ages and nothing else.
LEMMA PassRows == RowInv /\ Pass => RowInv'
<1> SUFFICES ASSUME RowInv, Pass PROVE RowInv'
  OBVIOUS
<1> USE Constants DEF RowInv, RowsOK, Pass
<1>1. claimed' \in [Events -> (0..Lease) \cup {None}]
  BY DEF Min2
<1>2. settled' \in [Events -> 0..BackoffCap]
  BY DEF Min2
<1>3. \A e \in Events : claimed'[e] = None <=> claimed[e] = None
  BY DEF Min2
<1>4. RowsOK'
  BY <1>1, <1>2
<1>5. AbsentUntried' /\ AttemptsLeft' /\ MatchedRuleExists'
  BY DEF AbsentUntried, AttemptsLeft, MatchedRuleExists
<1>6. ProcessingIsLeased'
  BY <1>3 DEF ProcessingIsLeased
<1> QED
  BY <1>4, <1>5, <1>6

(***************************************************************************)
(* What the steps do to the workers                                        *)
(***************************************************************************)

LEMMA WorkersUnchanged == WorkerInv /\ UNCHANGED workers => WorkerInv'
BY DEF WorkerInv, WorkersOK, JobsInHand, LocksExclusive, Busy, Holding, workers

\* The worker w leaves what it was doing and locks no row; nobody else moves.
LEMMA WorkerLeaves ==
    ASSUME WorkerInv, NEW w \in Workers, NEW next, next \in Pcs \ {"claiming", "holding", "failing", "finishing"},
           pc' = [pc EXCEPT ![w] = next],
           job' \in [Workers -> Ids], found' \in [Workers -> RuleIds],
           left' \in [Workers -> 0..BatchSize], held' \in [Workers -> 0..Lease],
           done' \in [Workers -> Nat],
           \A v \in Workers \ {w} : job'[v] = job[v] /\ left'[v] = left[v],
           next = "polling" => left'[w] > 0
    PROVE  WorkerInv'
<1> USE DEF WorkerInv, WorkersOK
<1>1. WorkersOK'
  BY DEF Pcs
<1>2. \A v \in Workers \ {w} : pc'[v] = pc[v]
  BY DEF Pcs
<1>3. pc'[w] = next /\ ~Busy(w)'
  BY DEF Pcs, Busy, Holding
<1>4. JobsInHand'
  BY <1>2, <1>3 DEF JobsInHand, Busy, Holding
<1>5. LocksExclusive'
  BY <1>2, <1>3 DEF LocksExclusive
<1> QED
  BY <1>1, <1>4, <1>5

LEMMA EndTickWorkers ==
    ASSUME WorkerInv, NEW w \in Workers, EndTick(w)
    PROVE  WorkerInv'
<1> USE Constants DEF EndTick, WorkerInv, WorkersOK
<1>1. /\ job' \in [Workers -> Ids] /\ found' \in [Workers -> RuleIds]
      /\ left' \in [Workers -> 0..BatchSize] /\ held' \in [Workers -> 0..Lease]
      /\ done' \in [Workers -> Nat]
  BY DEF Ids
<1>2. \A v \in Workers \ {w} : job'[v] = job[v] /\ left'[v] = left[v]
  OBVIOUS
<1> QED
  BY <1>1, <1>2, WorkerLeaves DEF Pcs

LEMMA NextIterationWorkers ==
    ASSUME WorkerInv, NEW w \in Workers, Holding(w), NextIteration(w),
           done' \in [Workers -> Nat]
    PROVE  WorkerInv'
<1> USE Constants DEF NextIteration, WorkerInv, WorkersOK
<1>1. left[w] \in 1..BatchSize
  BY DEF JobsInHand, Busy
<1>2. /\ job' \in [Workers -> Ids] /\ found' \in [Workers -> RuleIds]
      /\ left' \in [Workers -> 0..BatchSize] /\ held' \in [Workers -> 0..Lease]
  BY <1>1 DEF Ids, RuleIds
<1>3. \A v \in Workers \ {w} : job'[v] = job[v] /\ left'[v] = left[v]
  OBVIOUS
<1>4. left'[w] = left[w] - 1
  OBVIOUS
<1>5. CASE left[w] > 1
  <2>1. pc' = [pc EXCEPT ![w] = "polling"] /\ left'[w] > 0
    BY <1>1, <1>4, <1>5
  <2> HIDE DEF NextIteration, WorkerInv
  <2> QED
    BY <1>2, <1>3, <2>1, WorkerLeaves DEF Pcs
<1>6. CASE left[w] = 1
  <2>1. pc' = [pc EXCEPT ![w] = "sleeping"]
    BY <1>6
  <2> HIDE DEF NextIteration, WorkerInv
  <2> QED
    BY <1>2, <1>3, <2>1, WorkerLeaves DEF Pcs
<1> QED
  BY <1>1, <1>5, <1>6

\* The worker w goes on with the event it has, which it no longer locks.
LEMMA WorkerGoesOn ==
    ASSUME WorkerInv, NEW w \in Workers, Busy(w),
           NEW next \in {"holding", "failing", "finishing"},
           pc' = [pc EXCEPT ![w] = next],
           found' \in [Workers -> RuleIds],
           UNCHANGED <<job, left, held, done>>
    PROVE  WorkerInv'
<1> USE DEF WorkerInv, WorkersOK
<1>1. WorkersOK'
  BY DEF Pcs
<1>2. pc'[w] = next /\ \A v \in Workers \ {w} : pc'[v] = pc[v]
  BY DEF Pcs
<1>3. JobsInHand'
  BY <1>2 DEF JobsInHand, Busy, Holding
<1>4. LocksExclusive'
  BY <1>2 DEF LocksExclusive
<1> QED
  BY <1>1, <1>3, <1>4

\* A claim that is under way elsewhere finds its row as it was.
LEMMA LocksKept ==
    ASSUME LockedRowClaimable,
           \A v \in Workers : pc'[v] = "claiming" =>
               /\ pc[v] = "claiming" /\ job'[v] = job[v]
               /\ status'[job[v]] = status[job[v]] /\ attempts'[job[v]] = attempts[job[v]]
               /\ claimed'[job[v]] = claimed[job[v]] /\ settled'[job[v]] = settled[job[v]]
    PROVE  LockedRowClaimable'
BY DEF LockedRowClaimable, Claimable

\* The rows as the claim statements under way see them.
KeepsLockedRows ==
    \A v \in Workers : pc[v] = "claiming" =>
        /\ status'[job[v]] = status[job[v]] /\ attempts'[job[v]] = attempts[job[v]]
        /\ claimed'[job[v]] = claimed[job[v]] /\ settled'[job[v]] = settled[job[v]]

\* The Mark statements wait for the row lock.
LEMMA MarksWait ==
    ASSUME RowInv, WorkerInv, NEW e \in Events, ~RowLocked(e),
           WriteFailed(e) \/ \E r \in RuleIds : WriteProcessed(e, r)
    PROVE  KeepsLockedRows
<1> USE DEF RowInv, RowsOK, WorkerInv, JobsInHand, Busy, RowLocked
<1>1. SUFFICES ASSUME NEW v \in Workers, pc[v] = "claiming"
              PROVE  /\ status'[job[v]] = status[job[v]] /\ attempts'[job[v]] = attempts[job[v]]
                     /\ claimed'[job[v]] = claimed[job[v]] /\ settled'[job[v]] = settled[job[v]]
  BY DEF KeepsLockedRows
<1>2. job[v] \in Events \ {e}
  BY <1>1
<1>3. CASE WriteFailed(e)
  BY <1>2, <1>3 DEF WriteFailed
<1>4. ASSUME NEW r \in RuleIds, WriteProcessed(e, r)
      PROVE  /\ status'[job[v]] = status[job[v]] /\ attempts'[job[v]] = attempts[job[v]]
             /\ claimed'[job[v]] = claimed[job[v]] /\ settled'[job[v]] = settled[job[v]]
  BY <1>2, <1>4 DEF WriteProcessed
<1> QED
  BY <1>3, <1>4

(***************************************************************************)
(* The invariant                                                           *)
(***************************************************************************)

LEMMA InitInv == Init => Inv
BY Constants
DEF Init, Inv, RowInv, WorkerInv, RowsOK, WorkersOK, EnvironmentOK, JobsInHand, LocksExclusive,
    LockedRowClaimable, AbsentUntried, AttemptsLeft, ProcessingIsLeased, MatchedRuleExists,
    Busy, Holding, Statuses, Pcs, Ids, RuleIds

\* The worker is past the end of a mark: it loops or ends its tick.
LEMMA MarkInv ==
    ASSUME Inv, NEW w \in Workers, Holding(w), NextIteration(w), done' \in [Workers -> Nat],
           EnvironmentOK', WriteFailed(job[w]) \/ WriteProcessed(job[w], found[w])
    PROVE  Inv'
<1> USE DEF Inv
<1>1. job[w] \in Events /\ found[w] \in RuleIds
  BY DEF WorkerInv, WorkersOK, JobsInHand, Busy
<1>2. RowInv'
  BY <1>1, WriteFailedRows, WriteProcessedRows
<1>3. WorkerInv'
  BY NextIterationWorkers
<1>4. KeepsLockedRows
  BY <1>1, MarksWait DEF WriteFailed, WriteProcessed
<1>5. \A v \in Workers : pc'[v] = "claiming" => pc[v] = "claiming" /\ job'[v] = job[v]
  BY DEF NextIteration, WorkerInv, WorkersOK
<1>6. LockedRowClaimable'
  BY <1>4, <1>5, LocksKept DEF KeepsLockedRows
<1> QED
  BY <1>2, <1>3, <1>6

LEMMA NextInv == Inv /\ [Next]_vars => Inv'
<1> SUFFICES ASSUME Inv, [Next]_vars PROVE Inv'
  OBVIOUS
<1> USE Constants DEF Inv
<1>1. ASSUME NEW e \in Events, CreatePending(e) PROVE Inv'
  <2> USE <1>1 DEF CreatePending
  <2>1. RowInv'
    BY DEF RowInv, RowsOK, AbsentUntried, AttemptsLeft, ProcessingIsLeased, MatchedRuleExists, Statuses
  <2>2. LockedRowClaimable'
    BY LocksKept DEF LockedRowClaimable, Claimable, RowInv, RowsOK, workers
  <2> QED
    BY <2>1, <2>2, WorkersUnchanged DEF EnvironmentOK
<1>2. ASSUME NEW r \in Rules, DeleteRule(r) PROVE Inv'
  <2> USE <1>2 DEF DeleteRule
  <2>1. RowInv'
    BY DEF RowInv, RowsOK, AbsentUntried, AttemptsLeft, ProcessingIsLeased, MatchedRuleExists, RuleIds
  <2>2. LockedRowClaimable'
    BY LocksKept DEF workers
  <2> QED
    BY <2>1, <2>2, WorkersUnchanged DEF EnvironmentOK
<1>3. ASSUME NEW w \in Workers, Tick(w) \/ Restart(w) PROVE Inv'
  <2> USE <1>3 DEF Tick, Restart
  <2>1. WorkerInv'
    BY WorkerLeaves DEF WorkerInv, WorkersOK, Pcs
  <2>2. LockedRowClaimable'
    BY LocksKept DEF rows, WorkerInv, WorkersOK
  <2> QED
    BY <2>1, <2>2, RowsUnchanged DEF EnvironmentOK
<1>4. ASSUME NEW w \in Workers, LockNext(w) PROVE Inv'
  <2> USE <1>4 DEF LockNext
  <2>1. PICK e \in Candidates : job' = [job EXCEPT ![w] = e]
    OBVIOUS
  <2>2. e \in Events /\ Claimable(e) /\ \A v \in Workers : ~(pc[v] = "claiming" /\ job[v] = e)
    BY <2>1 DEF Candidates, RowLocked
  <2>3. WorkersOK' /\ JobsInHand'
    BY <2>1, <2>2 DEF WorkerInv, WorkersOK, JobsInHand, Busy, Holding, Pcs, Ids
  <2>4. LocksExclusive'
    BY <2>1, <2>2 DEF WorkerInv, WorkersOK, LocksExclusive
  <2>5. LockedRowClaimable'
    BY <2>1, <2>2 DEF LockedRowClaimable, Claimable, WorkerInv, WorkersOK, rows
  <2> QED
    BY <2>3, <2>4, <2>5, RowsUnchanged DEF WorkerInv, EnvironmentOK
<1>5. ASSUME NEW w \in Workers, QueueEmpty(w) \/ ClaimFails(w) PROVE Inv'
  <2>1. EndTick(w) /\ UNCHANGED <<rows, ruleSet, crashes>> /\ faults' \in 0..MaxFaults
    BY <1>5 DEF QueueEmpty, ClaimFails, Fault, EnvironmentOK
  <2>2. LockedRowClaimable'
    BY <2>1, LocksKept DEF EndTick, rows, WorkerInv, WorkersOK
  <2> QED
    BY <2>1, <2>2, EndTickWorkers, RowsUnchanged DEF EnvironmentOK
<1>6. ASSUME NEW w \in Workers, Claim(w) \/ ClaimAnswerLost(w) PROVE Inv'
  <2>1. pc[w] = "claiming" /\ job[w] \in Events /\ held[w] \in 0..Lease
    BY <1>6 DEF Claim, ClaimAnswerLost, WriteClaim, WorkerInv, WorkersOK, JobsInHand, Busy
  <2>2. WriteClaim(w) /\ Claimable(job[w])
    BY <1>6, <2>1 DEF Claim, ClaimAnswerLost, LockedRowClaimable
  <2>3. RowInv'
    BY <2>1, <2>2, WriteClaimRows
  <2>4. WorkerInv'
    <3>1. CASE Claim(w)
      BY <2>1, <3>1, WorkerGoesOn DEF Claim, Busy, WorkerInv, WorkersOK
    <3>2. CASE ClaimAnswerLost(w)
      BY <3>2, EndTickWorkers DEF ClaimAnswerLost
    <3> QED
      BY <1>6, <3>1, <3>2
  <2>5. \A v \in Workers : pc'[v] = "claiming" => v # w /\ pc[v] = "claiming" /\ job'[v] = job[v]
    BY <1>6 DEF Claim, ClaimAnswerLost, EndTick, WorkerInv, WorkersOK
  <2>6. \A v \in Workers : pc'[v] = "claiming" => job[v] \in Events \ {job[w]}
    BY <2>1, <2>5 DEF WorkerInv, LocksExclusive, JobsInHand, Busy
  <2>7. LockedRowClaimable'
    BY <2>2, <2>5, <2>6, LocksKept DEF WriteClaim, RowInv, RowsOK
  <2>8. EnvironmentOK'
    BY <1>6 DEF Claim, ClaimAnswerLost, WriteClaim, Fault, EnvironmentOK
  <2> QED
    BY <2>3, <2>4, <2>7, <2>8
<1>7. ASSUME NEW w \in Workers, Match(w) \/ Reject(w) \/ LookupFails(w) PROVE Inv'
  <2>1. /\ pc[w] = "holding" /\ UNCHANGED <<rows, ruleSet, job, left, held, done, crashes>>
        /\ \E next \in {"failing", "finishing"} : pc' = [pc EXCEPT ![w] = next]
        /\ faults' \in 0..MaxFaults
    BY <1>7 DEF Match, Reject, LookupFails, Fault, EnvironmentOK
  <2>2. found' \in [Workers -> RuleIds]
    BY <1>7 DEF Match, Reject, LookupFails, WorkerInv, WorkersOK, RowInv, RowsOK, RuleIds
  <2>3. WorkerInv'
    BY <2>1, <2>2, WorkerGoesOn DEF Busy, Holding
  <2>4. LockedRowClaimable'
    BY <2>1, LocksKept DEF rows, WorkerInv, WorkersOK
  <2> QED
    BY <2>1, <2>3, <2>4, RowsUnchanged DEF EnvironmentOK
<1>8. ASSUME NEW w \in Workers, MarkAttemptFailed(w) \/ MarkProcessed(w) \/ MarkAnswerLost(w)
      PROVE  Inv'
  <2>1. Holding(w) /\ NextIteration(w) /\ (WriteFailed(job[w]) \/ WriteProcessed(job[w], found[w]))
    BY <1>8 DEF MarkAttemptFailed, MarkProcessed, MarkAnswerLost, Holding
  <2>2. done' \in [Workers -> Nat]
    BY <1>8 DEF MarkAttemptFailed, MarkProcessed, MarkAnswerLost, WorkerInv, WorkersOK
  <2>3. EnvironmentOK'
    BY <1>8 DEF MarkAttemptFailed, MarkProcessed, MarkAnswerLost, WriteFailed, WriteProcessed,
                Fault, EnvironmentOK
  <2> QED
    BY <2>1, <2>2, <2>3, MarkInv
<1>9. ASSUME NEW w \in Workers, MarkFails(w) PROVE Inv'
  <2> USE <1>9 DEF MarkFails
  <2>1. WorkerInv'
    BY NextIterationWorkers DEF Holding, WorkerInv, WorkersOK
  <2>2. LockedRowClaimable'
    BY LocksKept DEF NextIteration, rows, WorkerInv, WorkersOK
  <2> QED
    BY <2>1, <2>2, RowsUnchanged DEF Fault, EnvironmentOK
<1>10. ASSUME NEW w \in Workers, Crash(w) PROVE Inv'
  <2> USE <1>10 DEF Crash
  <2>1. WorkerInv'
    <3>1. /\ job' \in [Workers -> Ids] /\ found' \in [Workers -> RuleIds]
          /\ left' \in [Workers -> 0..BatchSize] /\ held' \in [Workers -> 0..Lease]
          /\ done' \in [Workers -> Nat]
      BY DEF WorkerInv, WorkersOK, Ids, RuleIds
    <3>2. \A v \in Workers \ {w} : job'[v] = job[v] /\ left'[v] = left[v]
      BY DEF WorkerInv, WorkersOK
    <3> QED
      BY <3>1, <3>2, WorkerLeaves DEF Pcs
  <2>2. LockedRowClaimable'
    BY LocksKept DEF rows, WorkerInv, WorkersOK
  <2> QED
    BY <2>1, <2>2, RowsUnchanged DEF EnvironmentOK
<1>11. ASSUME Pass PROVE Inv'
  <2> USE <1>11 DEF Pass
  <2>1. WorkerInv'
    BY DEF WorkerInv, WorkersOK, JobsInHand, LocksExclusive, Busy, Holding, Min2
  <2>2. LockedRowClaimable'
    <3> SUFFICES ASSUME NEW w \in Workers, pc[w] = "claiming" PROVE Claimable(job[w])'
      BY DEF LockedRowClaimable
    <3>1. job[w] \in Events /\ Claimable(job[w])
      BY DEF LockedRowClaimable, WorkerInv, JobsInHand, Busy
    <3>2. Backoff(attempts[job[w]]) \in Nat /\ Backoff(attempts[job[w]]) <= BackoffCap
      <4>1. attempts[job[w]] \in Nat
        BY <3>1 DEF RowInv, RowsOK
      <4> QED
        BY <4>1, BackoffType
    <3> DEFINE e == job[w]
    <3>3. status'[e] = status[e] /\ attempts'[e] = attempts[e]
      OBVIOUS
    <3>4. CASE status[e] = "pending"
      BY <3>3, <3>4 DEF Claimable
    <3>5. CASE status[e] = "failed"
      <4>1. attempts[e] < MaxAttempts /\ settled[e] >= Backoff(attempts[e]) /\ settled[e] \in Nat
        BY <3>1, <3>5 DEF Claimable, RowInv, RowsOK
      <4>2. settled'[e] = Min2(settled[e] + 1, BackoffCap)
        BY <3>1, <3>5
      <4>3. settled'[e] >= Backoff(attempts[e])
        BY <3>2, <4>1, <4>2 DEF Min2
      <4>4. Backoff(attempts[e])' = Backoff(attempts[e])
        BY DEF Backoff, Min2, Max2
      <4> QED
        BY <3>3, <3>5, <4>1, <4>3, <4>4 DEF Claimable
    <3>6. CASE status[e] = "processing"
      <4>1. claimed[e] # None /\ claimed[e] >= Lease
        BY <3>1, <3>6 DEF Claimable
      <4>2. claimed[e] = Lease
        BY <3>1, <4>1 DEF RowInv, RowsOK
      <4>3. claimed'[e] = Lease
        BY <3>1, <4>2 DEF Min2
      <4> QED
        BY <3>3, <3>6, <4>3 DEF Claimable
    <3> QED
      BY <3>1, <3>4, <3>5, <3>6 DEF Claimable
  <2> QED
    BY <2>1, <2>2, PassRows DEF EnvironmentOK
<1>12. CASE UNCHANGED vars
  BY <1>12, RowsUnchanged, WorkersUnchanged, LocksKept DEF vars, rows, workers, EnvironmentOK
<1> HIDE DEF Inv
<1> QED
  BY <1>1, <1>2, <1>3, <1>4, <1>5, <1>6, <1>7, <1>8, <1>9, <1>10, <1>11, <1>12
  DEF Next, WorkerStep

\* Everything the store and the workers keep stays within its type: among
\* others, the 5 attempts of a row and the 20 claims of a tick are not exceeded.
THEOREM TypeCorrect == Spec => []TypeOK
<1>1. Inv => TypeOK
  BY DEF Inv, RowInv, WorkerInv, TypeOK
<1> QED
  BY InitInv, NextInv, <1>1, PTL DEF Spec

LEMMA InvAlways == Spec => []Inv
BY InitInv, NextInv, PTL DEF Spec

\* A row is worked on only while it has an attempt left, in whatever order
\* stale and live workers run the two Mark statements.
THEOREM AttemptsBounded == Spec => []AttemptsLeft
<1>1. Inv => AttemptsLeft
  BY DEF Inv, RowInv
<1> QED
  BY <1>1, InvAlways, PTL

\* No row is stuck in processing without the claimed_at that lets the claim
\* statement take it back.
THEOREM NoUnleasedRow == Spec => []ProcessingIsLeased
<1>1. Inv => ProcessingIsLeased
  BY DEF Inv, RowInv
<1> QED
  BY <1>1, InvAlways, PTL

\* matched_rule_id of a processed row never dangles.
THEOREM NoDanglingMatch == Spec => []MatchedRuleExists
<1>1. Inv => MatchedRuleExists
  BY DEF Inv, RowInv
<1> QED
  BY <1>1, InvAlways, PTL

(***************************************************************************)
(* The lease                                                               *)
(***************************************************************************)

\* When no worker overruns its lease, a worker in hand of a row is the one
\* the row's claimed_at speaks of, and is alone.
Punctual == \A w \in Workers : Busy(w) => held[w] < Lease
HoldersExclusive ==
    \A v, w \in Workers : Holding(v) /\ Holding(w) /\ job[v] = job[w] => v = w
HoldersOwn ==
    \A w \in Workers : Holding(w) =>
        /\ status[job[w]] = "processing" /\ claimed[job[w]] = held[w]
LeaseInv == Punctual /\ HoldersOwn /\ HoldersExclusive

\* A row in a worker's hands is not claimable, so no claim is under way on it.
LEMMA HeldRowNotClaimable ==
    ASSUME Inv, LeaseInv, NEW w \in Workers, Holding(w)
    PROVE  /\ ~Claimable(job[w])
           /\ \A v \in Workers : pc[v] = "claiming" => job[v] # job[w]
<1>1. /\ status[job[w]] = "processing" /\ claimed[job[w]] = held[w]
      /\ held[w] < Lease /\ held[w] \in Nat
  BY DEF LeaseInv, Punctual, HoldersOwn, Busy, Inv, WorkerInv, WorkersOK
<1>2. ~Claimable(job[w])
  BY <1>1, Constants DEF Claimable
<1> QED
  BY <1>2 DEF Inv, LockedRowClaimable

\* A step that leaves the rows alone, moves one worker, and gives it nothing
\* to hold that it did not hold before.
LEMMA LeaseFrame ==
    ASSUME LeaseInv, UNCHANGED <<status, claimed>>,
           \A v \in Workers : Holding(v)' => Holding(v) /\ job'[v] = job[v] /\ held'[v] = held[v],
           \A v \in Workers : Busy(v)' => held'[v] < Lease
    PROVE  LeaseInv'
BY DEF LeaseInv, Punctual, HoldersOwn, HoldersExclusive

\* One worker lets go of its row, having written to it or not.
LEMMA LeaseRelease ==
    ASSUME Inv, LeaseInv, NEW w \in Workers, Holding(w), NextIteration(w),
           \A e \in Events \ {job[w]} : status'[e] = status[e] /\ claimed'[e] = claimed[e]
    PROVE  LeaseInv'
<1> USE DEF NextIteration, Inv, WorkerInv, WorkersOK
<1>1. ~Busy(w)'
  BY DEF Busy, Holding
<1>2. \A v \in Workers \ {w} : pc'[v] = pc[v] /\ job'[v] = job[v] /\ held'[v] = held[v]
  OBVIOUS
<1>3. \A v \in Workers \ {w} : Busy(v)' = Busy(v) /\ Holding(v)' = Holding(v)
  BY <1>2 DEF Busy, Holding
<1>4. \A v \in Workers \ {w} : Holding(v) => job[v] \in Events \ {job[w]}
  BY DEF LeaseInv, HoldersExclusive, JobsInHand, Busy
<1>5. Punctual'
  BY <1>1, <1>2, <1>3 DEF LeaseInv, Punctual
<1>6. HoldersOwn'
  BY <1>1, <1>2, <1>3, <1>4 DEF LeaseInv, HoldersOwn, Busy
<1>7. HoldersExclusive'
  BY <1>1, <1>2, <1>3 DEF LeaseInv, HoldersExclusive, Busy
<1> QED
  BY <1>5, <1>6, <1>7 DEF LeaseInv

\* A claim commits: its row was in nobody's hands.
LEMMA LeaseClaim ==
    ASSUME Inv, LeaseInv, NEW w \in Workers, Claim(w) \/ ClaimAnswerLost(w)
    PROVE  LeaseInv'
<1> USE DEF Inv, WorkerInv, WorkersOK
<1>1. pc[w] = "claiming" /\ job[w] \in Events /\ WriteClaim(w)
  BY DEF Claim, ClaimAnswerLost, WriteClaim, JobsInHand, Busy
<1>2. \A v \in Workers : Holding(v) => v # w /\ job[v] # job[w] /\ job[v] \in Events
  BY <1>1, HeldRowNotClaimable DEF Holding, JobsInHand, Busy
<1>3. /\ status'[job[w]] = "processing" /\ claimed'[job[w]] = held[w]
      /\ \A e \in Events \ {job[w]} : status'[e] = status[e] /\ claimed'[e] = claimed[e]
  BY <1>1 DEF WriteClaim, RowInv, RowsOK
<1>4. \A v \in Workers \ {w} : pc'[v] = pc[v] /\ job'[v] = job[v] /\ held'[v] = held[v]
  BY DEF Claim, ClaimAnswerLost, EndTick
<1>5. \A v \in Workers \ {w} : Busy(v)' = Busy(v) /\ Holding(v)' = Holding(v)
  BY <1>4 DEF Busy, Holding
<1>6. ~Busy(w)' \/ (pc'[w] = "holding" /\ job'[w] = job[w] /\ held'[w] = held[w])
  BY DEF Claim, ClaimAnswerLost, EndTick, Busy, Holding
<1>7. Punctual'
  BY <1>1, <1>4, <1>5, <1>6 DEF LeaseInv, Punctual, Busy
<1>8. HoldersOwn'
  BY <1>2, <1>3, <1>4, <1>5, <1>6 DEF LeaseInv, HoldersOwn, Busy
<1>9. HoldersExclusive'
  BY <1>2, <1>4, <1>5, <1>6 DEF LeaseInv, HoldersExclusive, Busy
<1> QED
  BY <1>7, <1>8, <1>9 DEF LeaseInv

LEMMA LeasePass ==
    ASSUME ~Overrun, Inv, LeaseInv, Pass
    PROVE  LeaseInv'
<1> USE Constants DEF Pass, Inv, WorkerInv, WorkersOK
<1>1. \A w \in Workers : Occupied(w) = Busy(w) /\ Busy(w)' = Busy(w) /\ Holding(w)' = Holding(w)
  BY DEF Occupied, Busy, Holding
<1>2. \A w \in Workers : Busy(w) => held'[w] = held[w] + 1 /\ held'[w] < Lease
  BY <1>1 DEF Min2
<1>3. Punctual'
  BY <1>1, <1>2 DEF Punctual
<1>4. HoldersOwn'
  <2> SUFFICES ASSUME NEW w \in Workers, Holding(w)
               PROVE  status'[job[w]] = "processing" /\ claimed'[job[w]] = held'[w]
    BY <1>1 DEF HoldersOwn
  <2>1. /\ job[w] \in Events
        /\ status[job[w]] = "processing" /\ claimed[job[w]] = held[w]
    BY DEF LeaseInv, HoldersOwn, JobsInHand, Busy
  <2>2. claimed'[job[w]] = Min2(held[w] + 1, Lease)
    BY <2>1
  <2>3. held'[w] = held[w] + 1 /\ held[w] + 1 < Lease /\ held[w] \in Nat
    BY <1>2 DEF Busy
  <2> QED
    BY <2>1, <2>2, <2>3 DEF Min2
<1>5. HoldersExclusive'
  BY <1>1 DEF LeaseInv, HoldersExclusive
<1> QED
  BY <1>3, <1>4, <1>5 DEF LeaseInv

LEMMA LeaseNext ==
    ASSUME ~Overrun, Inv, LeaseInv, [Next]_vars
    PROVE  LeaseInv'
<1> USE Constants
<1>1. ASSUME NEW e \in Events, CreatePending(e) PROVE LeaseInv'
  <2>1. \A w \in Workers : Holding(w) => job[w] # e /\ job[w] \in Events
    BY <1>1 DEF CreatePending, LeaseInv, HoldersOwn, Inv, WorkerInv, JobsInHand, Busy
  <2>2. /\ UNCHANGED <<claimed, workers>>
        /\ \A d \in Events \ {e} : status'[d] = status[d]
    BY <1>1 DEF CreatePending, Inv, RowInv, RowsOK
  <2> QED
    BY <2>1, <2>2 DEF LeaseInv, Punctual, HoldersOwn, HoldersExclusive, Busy, Holding, workers
<1>2. ASSUME NEW r \in Rules, DeleteRule(r) PROVE LeaseInv'
  BY <1>2, LeaseFrame DEF DeleteRule, workers, LeaseInv, Punctual, Busy, Holding
<1>3. ASSUME NEW w \in Workers, Tick(w) \/ Restart(w) \/ LockNext(w) PROVE LeaseInv'
  <2>1. UNCHANGED <<status, claimed>>
    BY <1>3 DEF Tick, Restart, LockNext, rows
  <2>2. \A v \in Workers \ {w} : pc'[v] = pc[v] /\ job'[v] = job[v] /\ held'[v] = held[v]
    BY <1>3 DEF Tick, Restart, LockNext, Inv, WorkerInv, WorkersOK
  <2>3. ~Holding(w)' /\ (Busy(w)' => held'[w] < Lease)
    BY <1>3 DEF Tick, Restart, LockNext, Inv, WorkerInv, WorkersOK, Busy, Holding
  <2> QED
    BY <2>1, <2>2, <2>3, LeaseFrame DEF LeaseInv, Punctual, Busy, Holding
<1>4. ASSUME NEW w \in Workers, QueueEmpty(w) \/ ClaimFails(w) \/ Crash(w) PROVE LeaseInv'
  <2>1. UNCHANGED <<status, claimed>>
    BY <1>4 DEF QueueEmpty, ClaimFails, Crash, rows
  <2>2. \A v \in Workers \ {w} : pc'[v] = pc[v] /\ job'[v] = job[v] /\ held'[v] = held[v]
    BY <1>4 DEF QueueEmpty, ClaimFails, Crash, EndTick, Inv, WorkerInv, WorkersOK
  <2>3. ~Busy(w)'
    BY <1>4 DEF QueueEmpty, ClaimFails, Crash, EndTick, Inv, WorkerInv, WorkersOK, Busy, Holding
  <2> QED
    BY <2>1, <2>2, <2>3, LeaseFrame DEF LeaseInv, Punctual, Busy, Holding
<1>5. ASSUME NEW w \in Workers, Match(w) \/ Reject(w) \/ LookupFails(w) PROVE LeaseInv'
  <2>1. UNCHANGED <<status, claimed, job, held>> /\ pc[w] = "holding"
    BY <1>5 DEF Match, Reject, LookupFails, rows
  <2>2. \A v \in Workers \ {w} : pc'[v] = pc[v]
    BY <1>5 DEF Match, Reject, LookupFails, Inv, WorkerInv, WorkersOK
  <2> QED
    BY <2>1, <2>2, LeaseFrame DEF LeaseInv, Punctual, Busy, Holding
<1>6. ASSUME NEW w \in Workers,
             MarkAttemptFailed(w) \/ MarkProcessed(w) \/ MarkAnswerLost(w) \/ MarkFails(w)
      PROVE  LeaseInv'
  <2>1. Holding(w) /\ NextIteration(w)
    BY <1>6 DEF MarkAttemptFailed, MarkProcessed, MarkAnswerLost, MarkFails, Holding
  <2>2. \A e \in Events \ {job[w]} : status'[e] = status[e] /\ claimed'[e] = claimed[e]
    <3>1. CASE WriteFailed(job[w])
      BY <3>1 DEF WriteFailed, Inv, RowInv, RowsOK
    <3>2. CASE WriteProcessed(job[w], found[w])
      BY <3>2 DEF WriteProcessed, Inv, RowInv, RowsOK
    <3>3. CASE MarkFails(w)
      BY <3>3 DEF MarkFails, rows
    <3> QED
      BY <1>6, <3>1, <3>2, <3>3 DEF MarkAttemptFailed, MarkProcessed, MarkAnswerLost
  <2> QED
    BY <2>1, <2>2, LeaseRelease
<1>7. CASE UNCHANGED vars
  BY <1>7, LeaseFrame DEF vars, rows, workers, LeaseInv, Punctual, Busy, Holding
<1> QED
  BY <1>1, <1>2, <1>3, <1>4, <1>5, <1>6, <1>7, LeaseClaim, LeasePass DEF Next, WorkerStep

LEMMA InitLease == Init => LeaseInv
BY DEF Init, LeaseInv, Punctual, HoldersOwn, HoldersExclusive, Busy, Holding

LEMMA LeaseAlways == ~Overrun /\ Spec => []LeaseInv
<1> SUFFICES ASSUME ~Overrun PROVE Spec => []LeaseInv
  OBVIOUS
<1>1. Inv /\ LeaseInv /\ [Next]_vars => LeaseInv'
  BY LeaseNext
<1> QED
  BY <1>1, InitLease, InvAlways, PTL DEF Spec

\* Two processes never work on the same event within the lease of both, for
\* any number of processes, as long as nobody works past its lease.
THEOREM OneWorkerPerEvent == ~Overrun /\ Spec => []LeaseExclusive
<1>1. LeaseInv => LeaseExclusive
  BY DEF LeaseInv, HoldersExclusive, LeaseExclusive
<1> QED
  BY <1>1, LeaseAlways, PTL

\* Under the same condition the status test of the two Mark statements is
\* enough: the row still carries the claim of the worker that marks it.
THEOREM HoldersOwnRows == ~Overrun /\ Spec => []HolderOwnsRow
<1>1. LeaseInv => HolderOwnsRow
  BY DEF LeaseInv, HoldersOwn, HolderOwnsRow
<1> QED
  BY <1>1, LeaseAlways, PTL

(***************************************************************************)
(* The ledger                                                              *)
(***************************************************************************)

LEMMA InitLedger == Init => Ledger!Init
BY DEF Init, Ledger!Init, LedgerState

\* The steps of the queue that the ledger does not see.
RowsStand == UNCHANGED <<LedgerState, attempts>>

LEMMA SameRows ==
    ASSUME UNCHANGED <<status, attempts>>
    PROVE  RowsStand
BY DEF RowsStand, LedgerState

\* A claim takes a row that is queued and leaves it queued.
LEMMA ClaimStutters ==
    ASSUME Inv, NEW w \in Workers, WriteClaim(w)
    PROVE  RowsStand
<1> USE DEF Inv, RowInv, RowsOK
<1> DEFINE e == job[w]
<1>1. e \in Events /\ Claimable(e)
  BY DEF WriteClaim, WorkerInv, JobsInHand, Busy, LockedRowClaimable
<1>2. attempts[e] < MaxAttempts /\ status[e] \notin {"absent", "processed"}
  BY <1>1, Constants DEF Claimable, AttemptsLeft
<1>3. status'[e] = "processing" /\ UNCHANGED attempts
  BY <1>1 DEF WriteClaim
<1>4. \A d \in Events \ {e} : status'[d] = status[d]
  BY <1>1 DEF WriteClaim
<1>5. LedgerState'[e] = LedgerState[e]
  BY <1>1, <1>2, <1>3, Constants DEF LedgerState
<1>6. \A d \in Events : LedgerState'[d] = LedgerState[d]
  BY <1>3, <1>4, <1>5 DEF LedgerState
<1> QED
  BY <1>3, <1>6 DEF RowsStand, LedgerState

LEMMA FailIsFail ==
    ASSUME Inv, NEW e \in Events, WriteFailed(e)
    PROVE  RowsStand \/ Ledger!Fail(e)
<1> USE DEF Inv, RowInv, RowsOK
<1>1. CASE UNCHANGED <<status, attempts>>
  BY <1>1, SameRows
<1>2. CASE /\ status[e] = "processing"
           /\ status'   = [status EXCEPT ![e] = "failed"]
           /\ attempts' = [attempts EXCEPT ![e] = @ + 1]
  <2>1. attempts[e] < MaxAttempts /\ attempts[e] \in Nat /\ attempts'[e] = attempts[e] + 1
    BY <1>2 DEF AttemptsLeft
  <2>2. LedgerState[e] = "queued"
    BY <1>2 DEF LedgerState
  <2>3. status'[e] = "failed"
    BY <1>2
  <2>4. LedgerState'[e] = IF attempts[e] + 1 = MaxAttempts THEN "dead" ELSE "queued"
    BY <2>1, <2>3 DEF LedgerState
  <2>5. \A d \in Events \ {e} : LedgerState'[d] = LedgerState[d]
    BY <1>2 DEF LedgerState
  <2>6. LedgerState' = [LedgerState EXCEPT ![e] =
                          IF attempts[e] + 1 = MaxAttempts THEN "dead" ELSE "queued"]
    BY <2>4, <2>5 DEF LedgerState
  <2> QED
    BY <1>2, <2>1, <2>2, <2>6 DEF Ledger!Fail
<1> QED
  BY <1>1, <1>2 DEF WriteFailed

LEMMA FinishIsFinish ==
    ASSUME Inv, NEW e \in Events, NEW r \in RuleIds, WriteProcessed(e, r)
    PROVE  RowsStand \/ Ledger!Finish(e)
<1> USE DEF Inv, RowInv, RowsOK
<1>1. UNCHANGED attempts
  BY DEF WriteProcessed
<1>2. CASE UNCHANGED status
  BY <1>1, <1>2, SameRows
<1>3. CASE status[e] = "processing" /\ status' = [status EXCEPT ![e] = "processed"]
  <2>1. LedgerState[e] = "queued" /\ LedgerState'[e] = "done"
    BY <1>3 DEF LedgerState
  <2>2. \A d \in Events \ {e} : LedgerState'[d] = LedgerState[d]
    BY <1>1, <1>3 DEF LedgerState
  <2>3. LedgerState' = [LedgerState EXCEPT ![e] = "done"]
    BY <2>1, <2>2 DEF LedgerState
  <2> QED
    BY <1>1, <2>1, <2>3 DEF Ledger!Finish
<1> QED
  BY <1>2, <1>3 DEF WriteProcessed

LEMMA CreateIsAccept ==
    ASSUME Inv, NEW e \in Events, CreatePending(e)
    PROVE  Ledger!Accept(e)
<1> USE DEF Inv, RowInv, RowsOK, CreatePending
<1>1. LedgerState[e] = "absent" /\ LedgerState'[e] = "queued"
  BY DEF LedgerState
<1>2. \A d \in Events \ {e} : LedgerState'[d] = LedgerState[d]
  BY DEF LedgerState
<1>3. LedgerState' = [LedgerState EXCEPT ![e] = "queued"]
  BY <1>1, <1>2 DEF LedgerState
<1> QED
  BY <1>1, <1>3 DEF Ledger!Accept

LEMMA NextIsLedgerNext ==
    ASSUME Inv, [Next]_vars
    PROVE  [Ledger!Next]_(Ledger!vars)
<1>1. ASSUME NEW e \in Events, CreatePending(e) PROVE Ledger!Next
  BY <1>1, CreateIsAccept DEF Ledger!Next
<1>2. ASSUME NEW w \in Workers, MarkAttemptFailed(w) \/ MarkProcessed(w) \/ MarkAnswerLost(w)
      PROVE  RowsStand \/ Ledger!Next
  <2>1. job[w] \in Events /\ found[w] \in RuleIds
    BY <1>2 DEF MarkAttemptFailed, MarkProcessed, MarkAnswerLost,
                Inv, WorkerInv, WorkersOK, JobsInHand, Busy, Holding
  <2>2. WriteFailed(job[w]) \/ WriteProcessed(job[w], found[w])
    BY <1>2 DEF MarkAttemptFailed, MarkProcessed, MarkAnswerLost
  <2> QED
    BY <2>1, <2>2, FailIsFail, FinishIsFinish DEF Ledger!Next, Ledger!Settle
<1>3. ASSUME NEW w \in Workers, Claim(w) \/ ClaimAnswerLost(w) PROVE RowsStand
  BY <1>3, ClaimStutters DEF Claim, ClaimAnswerLost
<1>4. ASSUME NEW w \in Workers,
             \/ Tick(w) \/ LockNext(w) \/ QueueEmpty(w) \/ ClaimFails(w) \/ Match(w) \/ Reject(w)
             \/ LookupFails(w) \/ MarkFails(w) \/ Crash(w) \/ Restart(w)
      PROVE  RowsStand
  BY <1>4, SameRows DEF Tick, LockNext, QueueEmpty, ClaimFails, Match, Reject, LookupFails,
                        MarkFails, Crash, Restart, rows
<1>5. ASSUME NEW r \in Rules, DeleteRule(r) PROVE RowsStand
  BY <1>5, SameRows DEF DeleteRule
<1>6. ASSUME Pass \/ UNCHANGED vars PROVE RowsStand
  BY <1>6, SameRows DEF Pass, vars, rows
<1>7. RowsStand \/ Ledger!Next
  BY <1>1, <1>2, <1>3, <1>4, <1>5, <1>6 DEF Next, WorkerStep
<1> QED
  BY <1>7 DEF RowsStand, Ledger!vars

\* The store and its workers implement the job ledger: whatever crashes, is
\* lost or is late, an accepted event is only ever attempted, finished, or
\* given up after its last attempt.
THEOREM QueueIsLedger == Spec => LedgerSafe
BY InitLedger, NextIsLedgerNext, InvAlways, PTL DEF Spec, LedgerSafe, Ledger!SafeSpec

(***************************************************************************)
(* Settled rows                                                            *)
(***************************************************************************)

RowKept(e) ==
    /\ status'[e] = status[e] /\ attempts'[e] = attempts[e]
    /\ matched'[e] \in {matched[e], None}

LEMMA SettledStep ==
    ASSUME Inv, [Next]_vars, NEW e \in Events, Settled(e)
    PROVE  RowKept(e)
<1> USE DEF Inv, RowInv, RowsOK, Settled, RowKept
<1>1. status[e] \notin {"absent", "processing"} /\ ~Claimable(e)
  BY Constants DEF Claimable
<1>2. CASE UNCHANGED <<status, attempts, matched>>
  BY <1>2
<1>3. ASSUME NEW d \in Events, CreatePending(d) PROVE RowKept(e)
  BY <1>1, <1>3 DEF CreatePending
<1>4. ASSUME NEW r \in Rules, DeleteRule(r) PROVE RowKept(e)
  BY <1>4 DEF DeleteRule
<1>5. ASSUME NEW w \in Workers, WriteClaim(w) PROVE RowKept(e)
  <2>1. job[w] # e
    BY <1>1, <1>5 DEF WriteClaim, LockedRowClaimable
  <2> QED
    BY <1>5, <2>1 DEF WriteClaim
<1>6. ASSUME NEW d \in Events, WriteFailed(d) PROVE RowKept(e)
  BY <1>1, <1>6 DEF WriteFailed
<1>7. ASSUME NEW d \in Events, NEW r \in RuleIds, WriteProcessed(d, r) PROVE RowKept(e)
  BY <1>1, <1>7 DEF WriteProcessed
<1>8. ASSUME NEW w \in Workers, MarkAttemptFailed(w) \/ MarkProcessed(w) \/ MarkAnswerLost(w)
      PROVE  RowKept(e)
  <2>1. job[w] \in Events /\ found[w] \in RuleIds
    BY <1>8 DEF MarkAttemptFailed, MarkProcessed, MarkAnswerLost,
                WorkerInv, WorkersOK, JobsInHand, Busy, Holding
  <2> QED
    BY <1>6, <1>7, <1>8, <2>1 DEF MarkAttemptFailed, MarkProcessed, MarkAnswerLost
<1>9. ASSUME NEW w \in Workers,
             \/ Tick(w) \/ LockNext(w) \/ QueueEmpty(w) \/ ClaimFails(w) \/ Match(w) \/ Reject(w)
             \/ LookupFails(w) \/ MarkFails(w) \/ Crash(w) \/ Restart(w)
      PROVE  RowKept(e)
  BY <1>2, <1>9 DEF Tick, LockNext, QueueEmpty, ClaimFails, Match, Reject, LookupFails,
                    MarkFails, Crash, Restart, rows
<1>10. CASE Pass \/ UNCHANGED vars
  BY <1>2, <1>10 DEF Pass, vars, rows
<1> HIDE DEF Inv, RowKept, Settled
<1> QED
  BY <1>3, <1>4, <1>5, <1>8, <1>9, <1>10 DEF Next, WorkerStep, Claim, ClaimAnswerLost

\* A processed row and a row out of attempts are final, whatever stale worker
\* still has them in hand.
THEOREM SettledRowsFinal == Spec => SettledForever
<1>1. Inv /\ [Next]_vars => [\A e \in Events : Settled(e) =>
          /\ status'[e] = status[e] /\ attempts'[e] = attempts[e]
          /\ matched'[e] \in {matched[e], None}]_vars
  BY SettledStep DEF RowKept
<1> QED
  BY <1>1, InvAlways, PTL DEF Spec, SettledForever

(***************************************************************************)
(* Counters                                                                *)
(***************************************************************************)

CountsOK(counts) ==
    /\ counts \in [Workers -> SUBSET Processed]
    /\ \A v, w \in Workers : v # w => counts[v] \cap counts[w] = {}
    /\ \A w \in Workers : IsFiniteSet(counts[w]) /\ done[w] = Cardinality(counts[w])

LEMMA ProcessedStays ==
    ASSUME Inv, [Next]_vars
    PROVE  Processed \subseteq Processed'
<1> SUFFICES ASSUME NEW e \in Events, status[e] = "processed" PROVE status'[e] = "processed"
  BY DEF Processed
<1> QED
  BY SettledStep DEF Settled, RowKept

LEMMA CountStep ==
    ASSUME Inv, [Next]_vars, NEW counts, CountsOK(counts)
    PROVE  \E next : CountsOK(next)'
<1> USE DEF Inv, RowInv, RowsOK, WorkerInv, WorkersOK
<1>0. Processed \subseteq Processed'
  BY ProcessedStays
<1>1. CASE UNCHANGED done
  BY <1>0, <1>1 DEF CountsOK
<1>2. ASSUME NEW w \in Workers, MarkProcessed(w), status' # status
      PROVE  \E next : CountsOK(next)'
  <2> DEFINE e == job[w]
             next == [counts EXCEPT ![w] = @ \cup {e}]
  <2>1. e \in Events
    BY <1>2 DEF MarkProcessed, JobsInHand, Busy, Holding
  <2>2. status[e] = "processing" /\ status'[e] = "processed" /\ done' = [done EXCEPT ![w] = @ + 1]
    BY <1>2, <2>1 DEF MarkProcessed, WriteProcessed
  <2>3. e \notin Processed /\ e \in Processed'
    BY <2>1, <2>2 DEF Processed
  <2>4. /\ next[w] = counts[w] \cup {e} /\ e \notin counts[w]
        /\ \A v \in Workers \ {w} : next[v] = counts[v] /\ e \notin counts[v]
    BY <2>3 DEF CountsOK
  <2>5. IsFiniteSet(next[w]) /\ Cardinality(next[w]) = Cardinality(counts[w]) + 1
    BY <2>4, FS_AddElement DEF CountsOK
  <2>6. next \in [Workers -> SUBSET Processed']
    BY <1>0, <2>3, <2>4 DEF CountsOK
  <2>7. \A v \in Workers : IsFiniteSet(next[v]) /\ done'[v] = Cardinality(next[v])
    BY <2>2, <2>4, <2>5 DEF CountsOK
  <2>8. \A u, v \in Workers : u # v => next[u] \cap next[v] = {}
    BY <2>4 DEF CountsOK
  <2> QED
    BY <2>6, <2>7, <2>8 DEF CountsOK
<1>3. ASSUME NEW w \in Workers, Crash(w)
      PROVE  \E next : CountsOK(next)'
  <2> DEFINE next == [counts EXCEPT ![w] = {}]
  <2>1. done' = [done EXCEPT ![w] = 0]
    BY <1>3 DEF Crash
  <2>2. next[w] = {} /\ \A v \in Workers \ {w} : next[v] = counts[v]
    BY DEF CountsOK
  <2>3. next \in [Workers -> SUBSET Processed']
    BY <1>0 DEF CountsOK
  <2>4. \A v \in Workers : IsFiniteSet(next[v]) /\ done'[v] = Cardinality(next[v])
    BY <2>1, <2>2, FS_EmptySet DEF CountsOK
  <2>5. \A u, v \in Workers : u # v => next[u] \cap next[v] = {}
    BY <2>2 DEF CountsOK
  <2> QED
    BY <2>3, <2>4, <2>5 DEF CountsOK
<1>4. ASSUME NEW w \in Workers, WorkerStep(w) \/ Restart(w)
      PROVE  UNCHANGED done \/ (MarkProcessed(w) /\ status' # status)
  <2>1. CASE MarkProcessed(w) /\ status' = status
    BY <2>1 DEF MarkProcessed
  <2> QED
    BY <1>4, <2>1 DEF WorkerStep, Restart, Tick, LockNext, QueueEmpty, Claim, ClaimAnswerLost,
       ClaimFails, EndTick, Match, Reject, LookupFails, MarkAttemptFailed, MarkAnswerLost, MarkFails
<1>5. (\E e \in Events : CreatePending(e)) \/ (\E r \in Rules : DeleteRule(r)) \/ Pass \/ UNCHANGED vars
        => UNCHANGED done
  BY DEF CreatePending, DeleteRule, Pass, vars, workers
<1> HIDE DEF Inv, RowInv, RowsOK, WorkerInv, WorkersOK
<1> QED
  BY <1>1, <1>2, <1>3, <1>4, <1>5 DEF Next

CountInv == \E counts : CountsOK(counts)

\* Whatever answers are lost and whoever marks a row that another worker has
\* claimed: a row is added to one counter at most, once.
THEOREM RowsCountedOnce == Spec => []CountedOnce
<1>1. Init => CountInv
  <2> SUFFICES ASSUME Init PROVE CountsOK([w \in Workers |-> {}])
    BY DEF CountInv
  <2> QED
    BY FS_EmptySet DEF Init, CountsOK
<1>2. Inv /\ CountInv /\ [Next]_vars => CountInv'
  BY CountStep DEF CountInv
<1>3. CountInv => CountedOnce
  BY DEF CountInv, CountsOK, CountedOnce
<1> QED
  BY <1>1, <1>2, <1>3, InvAlways, PTL DEF Spec

(***************************************************************************)
(* Attempts                                                                *)
(***************************************************************************)

\* The workers that are about to count an attempt against the event e.  Every
\* attempt of a good payload, counted or about to be, stands for a fault.
Charging(e) == {w \in Workers : pc[w] = "failing" /\ job[w] = e}
Charged(e) == IsFiniteSet(Charging(e)) /\ attempts[e] + Cardinality(Charging(e)) <= faults
ChargesAreFaults == \A e \in Events \ Malformed : Charged(e)

LEMMA ChargesFrame ==
    ASSUME Inv, ChargesAreFaults, UNCHANGED attempts, faults' \in Nat, faults' >= faults,
           \A e \in Events \ Malformed : Charging(e)' \subseteq Charging(e)
    PROVE  ChargesAreFaults'
<1> SUFFICES ASSUME NEW e \in Events \ Malformed PROVE Charged(e)'
  BY DEF ChargesAreFaults
<1>1. IsFiniteSet(Charging(e)')
      /\ Cardinality(Charging(e)') <= Cardinality(Charging(e))
  BY FS_Subset DEF ChargesAreFaults, Charged
<1>2. Cardinality(Charging(e)') \in Nat /\ Cardinality(Charging(e)) \in Nat /\ attempts[e] \in Nat
  BY <1>1, FS_CardinalityType DEF ChargesAreFaults, Charged, Inv, RowInv, RowsOK
<1>3. attempts[e] + Cardinality(Charging(e)) <= faults /\ faults \in Nat
  BY DEF ChargesAreFaults, Charged, Inv, EnvironmentOK
<1> QED
  BY <1>1, <1>2, <1>3 DEF Charged

\* The charge of the worker w becomes an attempt, or is dropped.
LEMMA ChargeCounted ==
    ASSUME Inv, ChargesAreFaults, NEW w \in Workers, pc[w] = "failing", NextIteration(w),
           WriteFailed(job[w]), faults' \in Nat, faults' >= faults
    PROVE  ChargesAreFaults'
<1> USE DEF Inv, RowInv, RowsOK, WorkerInv, WorkersOK
<1> SUFFICES ASSUME NEW e \in Events \ Malformed PROVE Charged(e)'
  BY DEF ChargesAreFaults
<1>1. pc'[w] # "failing" /\ \A v \in Workers \ {w} : pc'[v] = pc[v] /\ job'[v] = job[v]
  BY DEF NextIteration, Pcs
<1>2. Charging(e)' = Charging(e) \ {w}
  BY <1>1 DEF Charging
<1>3. IsFiniteSet(Charging(e)) /\ Cardinality(Charging(e)) \in Nat
  BY FS_CardinalityType DEF ChargesAreFaults, Charged
<1>4. /\ IsFiniteSet(Charging(e)')
      /\ Cardinality(Charging(e)') = IF job[w] = e THEN Cardinality(Charging(e)) - 1
                                                   ELSE Cardinality(Charging(e))
  <2>1. w \in Charging(e) <=> job[w] = e
    BY DEF Charging
  <2>2. /\ IsFiniteSet(Charging(e) \ {w})
        /\ Cardinality(Charging(e) \ {w}) = IF w \in Charging(e) THEN Cardinality(Charging(e)) - 1
                                                               ELSE Cardinality(Charging(e))
    BY <1>3, FS_RemoveElement
  <2> QED
    BY <1>2, <2>1, <2>2
<1>5. attempts'[e] \in Nat /\ attempts'[e] <= attempts[e] + (IF job[w] = e THEN 1 ELSE 0)
  BY DEF WriteFailed
<1>6. attempts[e] + Cardinality(Charging(e)) <= faults /\ faults \in Nat /\ attempts[e] \in Nat
  BY DEF ChargesAreFaults, Charged, EnvironmentOK
<1>7. attempts'[e] + Cardinality(Charging(e)') <= faults'
  BY <1>3, <1>4, <1>5, <1>6
<1> QED
  BY <1>4, <1>7 DEF Charged

LEMMA ChargesNext ==
    ASSUME Inv, ChargesAreFaults, [Next]_vars
    PROVE  ChargesAreFaults'
<1> USE DEF Inv, RowInv, RowsOK, WorkerInv, WorkersOK, EnvironmentOK
<1>0. faults \in Nat /\ (Fault => faults' = faults + 1)
  BY Constants DEF Fault
<1>1. ASSUME NEW w \in Workers, LookupFails(w) PROVE ChargesAreFaults'
  <2> SUFFICES ASSUME NEW e \in Events \ Malformed PROVE Charged(e)'
    BY DEF ChargesAreFaults
  <2>1. pc'[w] = "failing" /\ \A v \in Workers \ {w} : pc'[v] = pc[v]
    BY <1>1 DEF LookupFails
  <2>2. Charging(e)' \subseteq Charging(e) \cup {w}
    BY <1>1, <2>1 DEF Charging, LookupFails
  <2>3. IsFiniteSet(Charging(e)) /\ Cardinality(Charging(e)) \in Nat
    BY FS_CardinalityType DEF ChargesAreFaults, Charged
  <2>4. /\ IsFiniteSet(Charging(e) \cup {w})
        /\ Cardinality(Charging(e) \cup {w}) <= Cardinality(Charging(e)) + 1
    <3>1. /\ IsFiniteSet(Charging(e) \cup {w})
          /\ Cardinality(Charging(e) \cup {w}) = IF w \in Charging(e) THEN Cardinality(Charging(e))
                                                                     ELSE Cardinality(Charging(e)) + 1
      BY <2>3, FS_AddElement
    <3> QED
      BY <2>3, <3>1
  <2>5. IsFiniteSet(Charging(e)') /\ Cardinality(Charging(e)') <= Cardinality(Charging(e) \cup {w})
    BY <2>2, <2>4, FS_Subset
  <2>6. Cardinality(Charging(e)') \in Nat /\ Cardinality(Charging(e) \cup {w}) \in Nat
    BY <2>4, <2>5, FS_CardinalityType
  <2>7. /\ attempts'[e] = attempts[e] /\ attempts[e] \in Nat /\ faults' = faults + 1
        /\ attempts[e] + Cardinality(Charging(e)) <= faults
    BY <1>0, <1>1 DEF LookupFails, rows, ChargesAreFaults, Charged
  <2>8. attempts'[e] + Cardinality(Charging(e)') <= faults'
    BY <1>0, <2>3, <2>4, <2>5, <2>6, <2>7
  <2> QED
    BY <2>5, <2>8 DEF Charged
<1>2. ASSUME NEW w \in Workers, MarkAttemptFailed(w) \/ (MarkAnswerLost(w) /\ pc[w] = "failing")
      PROVE  ChargesAreFaults'
  <2>1. pc[w] = "failing" /\ NextIteration(w) /\ WriteFailed(job[w])
    BY <1>2 DEF MarkAttemptFailed, MarkAnswerLost
  <2>2. faults' \in Nat /\ faults' >= faults
    BY <1>0, <1>2 DEF MarkAttemptFailed, MarkAnswerLost
  <2> HIDE DEF Inv, RowInv, RowsOK, WorkerInv, WorkersOK, EnvironmentOK
  <2> QED
    BY <2>1, <2>2, ChargeCounted
<1>3. ASSUME NEW w \in Workers,
             \/ MarkProcessed(w) \/ (MarkAnswerLost(w) /\ pc[w] = "finishing")
             \/ MarkFails(w) \/ ClaimAnswerLost(w) \/ ClaimFails(w) \/ QueueEmpty(w)
             \/ Tick(w) \/ LockNext(w) \/ Claim(w) \/ Match(w) \/ Crash(w) \/ Restart(w)
      PROVE  ChargesAreFaults'
  <2>1. /\ UNCHANGED attempts
        /\ pc'[w] # "failing" /\ \A v \in Workers \ {w} : pc'[v] = pc[v] /\ job'[v] = job[v]
    BY <1>3 DEF MarkProcessed, WriteProcessed, MarkAnswerLost, MarkFails, ClaimAnswerLost, ClaimFails,
         WriteClaim, QueueEmpty, Tick, LockNext, Claim, Match, Crash, Restart, NextIteration, EndTick,
         rows, Pcs
  <2>2. faults' \in Nat /\ faults' >= faults
    BY <1>0, <1>3 DEF MarkProcessed, MarkAnswerLost, MarkFails, ClaimAnswerLost, ClaimFails,
         QueueEmpty, Tick, LockNext, Claim, Match, Crash, Restart
  <2>3. \A e \in Events : Charging(e)' \subseteq Charging(e)
    BY <2>1 DEF Charging
  <2> QED
    BY <2>1, <2>2, <2>3, ChargesFrame
<1>4. ASSUME NEW w \in Workers, Reject(w) PROVE ChargesAreFaults'
  <2>1. /\ UNCHANGED <<attempts, job, faults>> /\ job[w] \in Malformed
        /\ \A v \in Workers \ {w} : pc'[v] = pc[v]
    BY <1>4 DEF Reject, rows
  <2>2. \A e \in Events \ Malformed : Charging(e)' \subseteq Charging(e)
    BY <2>1 DEF Charging
  <2> QED
    BY <1>0, <2>1, <2>2, ChargesFrame
<1>5. CASE \/ \E e \in Events : CreatePending(e)
           \/ \E r \in Rules : DeleteRule(r)
           \/ Pass \/ UNCHANGED vars
  <2>1. UNCHANGED <<attempts, pc, job, faults>>
    BY <1>5 DEF CreatePending, DeleteRule, Pass, vars, rows, workers
  <2>2. \A e \in Events : Charging(e)' \subseteq Charging(e)
    BY <2>1 DEF Charging
  <2> QED
    BY <1>0, <2>1, <2>2, ChargesFrame
<1> HIDE DEF Inv, RowInv, RowsOK, WorkerInv, WorkersOK, EnvironmentOK
<1> QED
  BY <1>1, <1>2, <1>3, <1>4, <1>5 DEF Next, WorkerStep, MarkAnswerLost

\* Neither crashes, nor reclaims, nor deleted rules cost an event an attempt: with
\* a payload that can be read it loses one only for a failed database call.
THEOREM AttemptsAreFaults == Spec => []GoodPayloadKeepsAttempts
<1>1. Init => ChargesAreFaults
  <2> SUFFICES ASSUME Init, NEW e \in Events PROVE Charged(e)
    BY DEF ChargesAreFaults
  <2>1. Charging(e) = {}
    BY DEF Init, Charging
  <2> QED
    BY <2>1, FS_EmptySet DEF Init, Charged
<1>2. Inv /\ ChargesAreFaults => GoodPayloadKeepsAttempts
  <2> SUFFICES ASSUME Inv, ChargesAreFaults, NEW e \in Events \ Malformed
               PROVE  attempts[e] <= faults
    BY DEF GoodPayloadKeepsAttempts
  <2>1. Cardinality(Charging(e)) \in Nat
    BY FS_CardinalityType DEF ChargesAreFaults, Charged
  <2>2. attempts[e] \in Nat /\ faults \in Nat /\ attempts[e] + Cardinality(Charging(e)) <= faults
    BY DEF ChargesAreFaults, Charged, Inv, RowInv, RowsOK, EnvironmentOK
  <2> QED
    BY <2>1, <2>2
<1>3. Inv /\ ChargesAreFaults /\ [Next]_vars => ChargesAreFaults'
  BY ChargesNext
<1> QED
  BY <1>1, <1>2, <1>3, InvAlways, PTL DEF Spec
===============================================================================
