------------------------------- MODULE Migrations ------------------------------
(***************************************************************************)
(* The start of the API: every process reads its environment, runs the     *)
(* migrations that are not recorded yet, each in a transaction with its    *)
(* record, and then serves, if it has a provider of summaries.             *)
(* Nothing keeps processes from starting together, nor the database from   *)
(* being one that an older version has migrated.                           *)
(***************************************************************************)
EXTENDS Naturals, FiniteSets

CONSTANTS
    Processes,
    Last,         \* the migrations are the files 1..Last, in the order of names
    Environments, \* that processes may be given: the variables that are set,
                  \* and the value of AI_PROVIDER
    MaxFaults     \* bound of the environment

ASSUME ProcessesAssumption == IsFiniteSet(Processes)
ASSUME LastAssumption == Last \in Nat
ASSUME FaultsAssumption == MaxFaults \in Nat

\* config.Load, which has a default for the other variables.
Required == {"DATABASE_URL", "JWT_SECRET", "WEBHOOK_SECRET"}
Load(e) == Required \subseteq e.set

\* NewProvider; AI_PROVIDER is "mock" where it is not set.
NewProvider(e) ==
    e.provider \in {"", "mock"} \/ (e.provider = "openai" /\ "AI_API_KEY" \in e.set)

Complete(e) == Load(e) /\ NewProvider(e)

ASSUME EnvironmentsAssumption == \E e \in Environments : Complete(e)

VARIABLES
    env,              \* what a process that is started is given
    cfg,              \* what each process was given
    table,            \* schema_migrations is there
    schema, records,  \* files that are in effect, and rows of schema_migrations
    pc, file,         \* of each process: its next step, and its file
    faults

vars == <<env, cfg, table, schema, records, pc, file, faults>>

Files == 1..Last

\* "beaten": the process has exited because another one was faster; "down": it
\* has exited for any other reason.
Init ==
    /\ env \in Environments
    /\ cfg = [p \in Processes |-> env]
    /\ \E k \in 0..Last : schema = 1..k
    /\ records = schema
    /\ table \in BOOLEAN /\ (schema # {} => table)
    /\ pc = [p \in Processes |-> "down"]
    /\ file = [p \in Processes |-> 1]
    /\ faults = 0

Goto(p, place) == pc' = [pc EXCEPT ![p] = place]

\* The process is started; it may never be, if it was beaten.  One that lacks a
\* variable is down again before it has done anything.
Start(p) ==
    /\ pc[p] \in {"down", "beaten"}
    /\ Load(env) /\ cfg' = [cfg EXCEPT ![p] = env]
    /\ Goto(p, "starting") /\ file' = [file EXCEPT ![p] = 1]
    /\ UNCHANGED <<env, table, schema, records, faults>>

\* Another environment, for processes that are started later: one that is
\* spoilt is repaired, and any may be spoilt.
Repair ==
    /\ ~Complete(env) /\ env' \in {e \in Environments : Complete(e)}
    /\ UNCHANGED <<cfg, table, schema, records, pc, file, faults>>

Spoil ==
    /\ faults < MaxFaults /\ faults' = faults + 1
    /\ env' \in Environments
    /\ UNCHANGED <<cfg, table, schema, records, pc, file>>

\* CREATE TABLE IF NOT EXISTS finds the table, or goes to make it.
FindTable(p) ==
    /\ pc[p] = "starting"
    /\ Goto(p, IF table THEN "checking" ELSE "creating")
    /\ UNCHANGED <<env, cfg, table, schema, records, file, faults>>

\* Its name may be taken meanwhile; the statement fails then.
CreateTable(p) ==
    /\ pc[p] = "creating"
    /\ Goto(p, IF table THEN "beaten" ELSE "checking")
    /\ table' = TRUE
    /\ UNCHANGED <<env, cfg, schema, records, file, faults>>

\* Mutated form of Check: files are not skipped.
CheckNot(p) ==
    /\ pc[p] = "checking" /\ file[p] \in Files
    /\ Goto(p, "applying")
    /\ UNCHANGED <<env, cfg, table, schema, records, file, faults>>

Check(p) ==
    /\ pc[p] = "checking" /\ file[p] \in Files
    /\ IF file[p] \in records
         THEN file' = [file EXCEPT ![p] = @ + 1] /\ UNCHANGED pc
         ELSE Goto(p, "applying") /\ UNCHANGED file
    /\ UNCHANGED <<env, cfg, table, schema, records, faults>>

\* The transaction of q has run the file of p and is still open.
InTheWay(q, p) == q # p /\ file[q] = file[p] /\ pc[q] \in {"recording", "committing"}

\* The statements of a file fail when they are in effect already, and wait for a
\* transaction that has made them.
Apply(p) ==
    /\ pc[p] = "applying"
    /\ ~\E q \in Processes : InTheWay(q, p)
    /\ Goto(p, IF file[p] \in schema THEN "beaten" ELSE "recording")
    /\ UNCHANGED <<env, cfg, table, schema, records, file, faults>>

\* Mutated form of Record: the row is written outside the transaction.
RecordAtOnce(p) ==
    /\ pc[p] = "recording"
    /\ Goto(p, "committing")
    /\ records' = records \cup {file[p]}
    /\ UNCHANGED <<env, cfg, table, schema, file, faults>>

Record(p) ==
    /\ pc[p] = "recording"
    /\ Goto(p, IF file[p] \in records THEN "beaten" ELSE "committing")
    /\ UNCHANGED <<env, cfg, table, schema, records, file, faults>>

\* The answer to COMMIT may be lost.
Commit(p) ==
    /\ pc[p] = "committing"
    /\ schema' = schema \cup {file[p]}
    /\ records' = records \cup {file[p]}
    /\ \/ Goto(p, "checking") /\ file' = [file EXCEPT ![p] = @ + 1] /\ UNCHANGED faults
       \/ faults < MaxFaults /\ faults' = faults + 1 /\ Goto(p, "down") /\ UNCHANGED file
    /\ UNCHANGED <<env, cfg, table>>

\* Without a provider the process exits, and has migrated all the same.
Serve(p) ==
    /\ pc[p] = "checking" /\ file[p] \notin Files
    /\ Goto(p, IF NewProvider(cfg[p]) THEN "serving" ELSE "down")
    /\ UNCHANGED <<env, cfg, table, schema, records, file, faults>>

\* A statement fails or the process dies; the open transaction is rolled back.
Fail(p) ==
    /\ pc[p] \notin {"down", "beaten"}
    /\ faults < MaxFaults /\ faults' = faults + 1
    /\ Goto(p, "down")
    /\ UNCHANGED <<env, cfg, table, schema, records, file>>

Step(p) ==
    FindTable(p) \/ CreateTable(p) \/ Check(p) \/ Apply(p) \/ Record(p) \/ Commit(p) \/ Serve(p)

Next ==
    \/ Repair \/ Spoil
    \/ \E p \in Processes : Start(p) \/ Step(p) \/ Fail(p)

Spec == Init /\ [][Next]_vars

\* A process that was beaten need not be started again.  An environment that is
\* spoilt is repaired.
FairSpec ==
    /\ Spec
    /\ WF_vars(Repair)
    /\ \A p \in Processes : WF_vars(Step(p)) /\ WF_vars(pc[p] = "down" /\ Start(p))

(***************************************************************************)
(* Properties                                                              *)
(***************************************************************************)
\* A process that serves finds every migration in effect, and what is recorded
\* is what is in effect, wherever processes fail or overtake each other.
ServedIsMigrated ==
    /\ records = schema
    /\ \A p \in Processes : pc[p] = "serving" => schema = Files

\* Processes that start together do not all give up because of each other, and
\* none leaves behind what keeps the next from starting, not even one that has
\* migrated the database and lacks a provider.
SomeoneServes == []<>(\E p \in Processes : pc[p] = "serving")
===============================================================================
