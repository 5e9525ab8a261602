--------------------------- MODULE MigrationsProofs ----------------------------
(***************************************************************************)
(* A process serves from a database that is migrated: the proof.  A process*)
(* leaves only files behind that are in effect, and nothing takes a file   *)
(* out of effect again.                                                    *)
(***************************************************************************)
EXTENDS Migrations, TLAPS

Places == {"down", "beaten", "starting", "creating", "checking", "applying",
           "recording", "committing", "serving"}

\* How far p has come, by its place.
Behind(p) ==
    /\ pc[p] \in {"starting", "creating"} => file[p] = 1
    /\ pc[p] \in {"checking", "applying", "recording", "committing"} =>
         \A f \in Files : f < file[p] => f \in schema
    /\ pc[p] \in {"applying", "recording", "committing"} => file[p] \in Files
    /\ pc[p] = "serving" => schema = Files

Inv ==
    /\ schema \subseteq Files
    /\ pc \in [Processes -> Places]
    /\ file \in [Processes -> 1..(Last + 1)]
    /\ records = schema
    /\ \A p \in Processes : Behind(p)

\* It holds of every database that an older version has left.
LEMMA InitInv == Init => Inv
  BY LastAssumption DEF Init, Inv, Behind, Files, Places

\* Every step keeps it.
LEMMA NextInv == Inv /\ [Next]_vars => Inv'
<1>1. SUFFICES ASSUME Inv, [Next]_vars PROVE Inv'
  OBVIOUS
<1>2. CASE UNCHANGED vars
  BY <1>1, <1>2 DEF vars, Inv, Behind
<1>3. ASSUME NEW p \in Processes, Start(p) PROVE Inv'
  BY <1>1, <1>3, LastAssumption DEF Inv, Behind, Places, Files, Start, Goto
<1>4. ASSUME NEW p \in Processes, FindTable(p) PROVE Inv'
  BY <1>1, <1>4, LastAssumption DEF Inv, Behind, Places, Files, FindTable, Goto
<1>5. ASSUME NEW p \in Processes, CreateTable(p) PROVE Inv'
  BY <1>1, <1>5, LastAssumption DEF Inv, Behind, Places, Files, CreateTable, Goto
<1>6. ASSUME NEW p \in Processes, Check(p) PROVE Inv'
  <2>1. CASE file[p] \in records
    BY <1>1, <1>6, <2>1, LastAssumption DEF Inv, Behind, Places, Files, Check
  <2>2. CASE file[p] \notin records
    BY <1>1, <1>6, <2>2 DEF Inv, Behind, Places, Check, Goto
  <2>3. QED
    BY <2>1, <2>2
<1>7. ASSUME NEW p \in Processes, Apply(p) PROVE Inv'
  BY <1>1, <1>7 DEF Inv, Behind, Places, Apply, Goto
<1>8. ASSUME NEW p \in Processes, Record(p) PROVE Inv'
  BY <1>1, <1>8 DEF Inv, Behind, Places, Record, Goto
<1>9. ASSUME NEW p \in Processes, Commit(p) PROVE Inv'
  <2>1. /\ file[p] \in Files
        /\ schema' = schema \cup {file[p]} /\ records' = schema'
        /\ schema' \subseteq Files
    BY <1>1, <1>9 DEF Inv, Behind, Commit
  <2>2. file' \in [Processes -> 1..(Last + 1)] /\ pc' \in [Processes -> Places]
    BY <1>1, <1>9, <2>1, LastAssumption DEF Inv, Places, Commit, Goto, Files
  <2>3. ASSUME NEW q \in Processes PROVE Behind(q)'
    <3>1. CASE q = p
      BY <1>1, <1>9, <2>1, <3>1, LastAssumption DEF Inv, Behind, Commit, Goto, Files
    <3>2. CASE q # p
      <4>1. pc'[q] = pc[q] /\ file'[q] = file[q]
        BY <1>1, <1>9, <3>2 DEF Inv, Commit, Goto
      <4>2. QED
        BY <1>1, <2>1, <4>1 DEF Inv, Behind
    <3>3. QED
      BY <3>1, <3>2
  <2>4. QED
    BY <2>1, <2>2, <2>3 DEF Inv
<1>10. ASSUME NEW p \in Processes, Serve(p) PROVE Inv'
  <2>1. file[p] = Last + 1
    BY <1>1, <1>10, LastAssumption DEF Inv, Serve, Files
  <2>2. ASSUME NEW f \in Files PROVE f \in schema
    <3>1. f < file[p]
      BY <2>1, LastAssumption DEF Files
    <3>2. QED
      BY <1>1, <1>10, <3>1 DEF Inv, Behind, Serve
  <2>3. schema = Files
    BY <1>1, <2>2 DEF Inv
  <2>4. QED
    BY <1>1, <1>10, <2>3 DEF Inv, Behind, Places, Serve, Goto
<1>11. ASSUME NEW p \in Processes, Fail(p) PROVE Inv'
  BY <1>1, <1>11 DEF Inv, Behind, Places, Fail, Goto
<1>12. CASE Repair \/ Spoil
  BY <1>1, <1>12 DEF Inv, Behind, Repair, Spoil
<1>13. QED
  BY <1>1, <1>2, <1>3, <1>4, <1>5, <1>6, <1>7, <1>8, <1>9, <1>10, <1>11, <1>12 DEF Next, Step

\* A process that serves finds every migration in effect, and what is recorded
\* is what is in effect, for any number of processes, files and faults.
THEOREM MigratedBeforeServing == Spec => []ServedIsMigrated
<1>1. Inv => ServedIsMigrated
  BY DEF Inv, Behind, ServedIsMigrated
<1>2. QED
  BY <1>1, InitInv, NextInv, PTL DEF Spec
===============================================================================
