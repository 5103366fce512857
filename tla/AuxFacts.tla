------------------------------ MODULE AuxFacts ------------------------------
(***************************************************************************)
(* The auxiliary branch of dags/snapshot_offload.py beside the main one.   *)
(* offload_aux copies a day of backup_run partition by partition (delete,  *)
(* then put), while transform of the same run reads whatever of it is in   *)
(* the archive: no task of the main branch waits for the auxiliary one.    *)
(* fct_backup_daily takes the days from its newest on, mart_backup_rpo     *)
(* holds the last successful backup against the newest day of another      *)
(* fact, and publish puts both in front of the dashboards.                 *)
(*                                                                         *)
(* A backup of a day is recorded by DBTower and updated when it has been   *)
(* verified, at any time later; a day of an instance is abstracted to the  *)
(* number 0 (no backup), 1 (recorded) or 2 (verified).  A day of           *)
(* query_snapshot is whole or fails the gate; SnapshotDag has the details  *)
(* of the main branch.                                                     *)
(***************************************************************************)
EXTENDS Integers, FiniteSets

CONSTANTS
  Instances,  \* registered instances: numbers, in the order of their ids
  LastDay,    \* bound: the calendar stops at this day
  MaxGap,     \* backup_max_gap_days
  Retention,  \* days after which DBTower's sweeper forgets backups (7 in production)
  MaxRuns,    \* bound: runs started in all
  MaxUpdates  \* bound: backups recorded and verified that the source has

Days == 0..LastDay

ASSUME ConstantsOK ==
  /\ Instances \subseteq Nat /\ Instances # {}
  /\ LastDay \in Nat /\ MaxGap \in Nat /\ Retention \in Nat
  /\ MaxRuns \in Nat /\ MaxUpdates \in Nat

VARIABLES
  today,    \* the current UTC day
  backup,   \* backup[i][d]: what the source has
  raw,      \* raw[i][d]: what the archive has under raw/backup_run
  newest,   \* the newest day of raw/query_snapshot, -1 before the first
  fct,      \* fct[i][d]: fct_backup_daily in the DuckDB file
  asOf,     \* as_of_dt of mart_backup_rpo in the DuckDB file
  served,   \* what the dashboards show: [fct, asOf]
  day,      \* the logical date of the run
  main,     \* where its main branch is
  aux,      \* where its offload_aux is
  todo,     \* instances offload_aux has still to copy
  held,     \* the rows it has fetched
  runs,     \* runs started so far
  \* history
  late,     \* partitions put when the fact was past their day
  fresh     \* partitions put since the fact was last built

auxVars   == <<raw, aux, todo, held, late>>
mainVars  == <<newest, fct, asOf, served, main>>
worldVars == <<today, backup>>
vars      == <<worldVars, auxVars, mainVars, day, runs, fresh>>

Parts   == Instances \X Days
Nothing == [i \in Instances |-> [d \in Days |-> 0]]
Facts   == [Instances -> [Days -> 0..2]]

TypeOK ==
  /\ today \in Days
  /\ backup \in Facts /\ raw \in Facts /\ fct \in Facts
  /\ newest \in -1..LastDay /\ asOf \in -1..LastDay
  /\ served \in [fct : Facts, asOf : -1..LastDay]
  /\ day \in Days
  /\ main \in {"offload", "transform", "publish", "served", "over"}
  /\ aux \in {"fetch", "delete", "put", "over"}
  /\ todo \subseteq Instances
  /\ held \in 0..2
  /\ runs \in 0..MaxRuns
  /\ late \subseteq Parts /\ fresh \subseteq Parts

Init ==
  /\ today = 0
  /\ backup = Nothing /\ raw = Nothing /\ newest = -1
  /\ fct = Nothing /\ asOf = -1
  /\ served = [fct |-> Nothing, asOf |-> -1]
  /\ day = 0 /\ main = "over" /\ aux = "over"
  /\ todo = {} /\ held = 0 /\ runs = 0
  /\ late = {} /\ fresh = {}

-----------------------------------------------------------------------------
(* The world. *)

Tick ==
  /\ today < LastDay
  /\ today' = today + 1
  /\ UNCHANGED <<backup, auxVars, mainVars, day, runs, fresh>>

Updates == Cardinality({u \in Instances \X Days \X (1..2) :
                          u[3] <= backup[u[1]][u[2]]})

\* The source may have forgotten the day.
Expired(d) == today - d >= Retention

\* A backup succeeds, on the day it was started or later (backups of the last
\* day of the calendar, which is never copied, are left out).
Record ==
  /\ Updates < MaxUpdates
  /\ \E i \in Instances, d \in (0..today) \ {LastDay} :
       ~Expired(d) /\ backup[i][d] = 0 /\ backup' = [backup EXCEPT ![i][d] = 1]
  /\ UNCHANGED <<today, auxVars, mainVars, day, runs, fresh>>

\* DBTower verifies it, and updates its row.
Verify ==
  /\ Updates < MaxUpdates
  /\ \E i \in Instances, d \in 0..today :
       backup[i][d] = 1 /\ backup' = [backup EXCEPT ![i][d] = 2]
  /\ UNCHANGED <<today, auxVars, mainVars, day, runs, fresh>>

\* DBTower's sweeper forgets the days that have expired.
Sweep ==
  /\ \E d \in Days : Expired(d)
  /\ backup' = [i \in Instances |-> [d \in Days |-> IF Expired(d) THEN 0 ELSE backup[i][d]]]
  /\ UNCHANGED <<today, auxVars, mainVars, day, runs, fresh>>

\* A run of a closed day, by the schedule or for an older day, when no other
\* is active: both branches start at once.
StartRun ==
  /\ main \in {"served", "over"} /\ aux = "over"
  /\ runs < MaxRuns
  /\ \E d \in Days : d < today /\ day' = d
  /\ runs' = runs + 1
  /\ main' = "offload"
  /\ aux' = "fetch" /\ todo' = Instances
  /\ UNCHANGED <<worldVars, raw, held, late, newest, fct, asOf, served, fresh>>

-----------------------------------------------------------------------------
(* offload_aux: run_offload of backup_run, instance by instance. *)

This == CHOOSE i \in todo : \A j \in todo : i <= j

\* decide_partition_action, what is there of the partition being looked up behind
\* the fetch: rows are copied.
Fetch ==
  /\ aux = "fetch"
  /\ todo # {}
  /\ backup[This][day] # 0
  /\ held' = backup[This][day]
  /\ aux' = IF raw[This][day] = 0 THEN "put" ELSE "delete"
  /\ UNCHANGED <<worldVars, todo, raw, late, mainVars, day, runs, fresh>>

\* Neither rows nor a partition.
Skip ==
  /\ aux = "fetch"
  /\ todo # {}
  /\ backup[This][day] = 0 /\ raw[This][day] = 0
  /\ todo' = todo \ {This}
  /\ UNCHANGED <<worldVars, aux, held, raw, late, mainVars, day, runs, fresh>>

\* The attempt ends: it is retried from the first instance, or was the last.
AttemptEnds ==
  /\ held' = 0
  /\ \/ aux' = "fetch" /\ todo' = Instances
     \/ aux' = "over" /\ todo' = {}
  /\ UNCHANGED <<worldVars, raw, late, mainVars, day, runs, fresh>>

\* No rows, but a partition: ArchiveSelfDestructError.
Refuse ==
  /\ aux = "fetch"
  /\ todo # {}
  /\ backup[This][day] = 0 /\ raw[This][day] # 0
  /\ AttemptEnds

Delete ==
  /\ aux = "delete"
  /\ raw' = [raw EXCEPT ![This][day] = 0]
  /\ aux' = "put"
  /\ UNCHANGED <<worldVars, todo, held, late, mainVars, day, runs, fresh>>

\* The days of the fact, of any instance.
FactDays == {d \in Days : \E i \in Instances : fct[i][d] # 0}

Put ==
  /\ aux = "put"
  /\ raw' = [raw EXCEPT ![This][day] = held]
  /\ late' = IF \E d \in FactDays : d > day
            THEN late \cup {<<This, day>>}
            ELSE late \ {<<This, day>>}
  /\ fresh' = fresh \cup {<<This, day>>}
  /\ aux' = "fetch"
  /\ todo' = todo \ {This}
  /\ held' = 0
  /\ UNCHANGED <<worldVars, mainVars, day, runs>>

CopyDone ==
  /\ aux = "fetch"
  /\ todo = {}
  /\ aux' = "over"
  /\ UNCHANGED <<worldVars, raw, todo, held, late, mainVars, day, runs, fresh>>

\* The attempt dies, wherever it is.
CopyFails ==
  /\ aux # "over"
  /\ AttemptEnds

-----------------------------------------------------------------------------
(* The main branch. *)

\* offload and quality_gate: the day's rows are in the archive even if the gate
\* fails on them.
Offload ==
  /\ main = "offload"
  /\ newest' = IF day > newest THEN day ELSE newest
  /\ main' \in {"transform", "over"}
  /\ UNCHANGED <<worldVars, auxVars, fct, asOf, served, day, runs, fresh>>

\* Every attempt of offload has failed before it wrote anything.
OffloadFails ==
  /\ main = "offload"
  /\ main' = "over"
  /\ UNCHANGED <<worldVars, auxVars, newest, fct, asOf, served, day, runs, fresh>>

\* Mutant: dt > max(dt).
RecomputedAfter(d) == \A e \in FactDays : d > e

\* where dt >= max(dt), and everything into an empty fact.
Recomputed(d) == \A e \in FactDays : d >= e

\* Mutant: materialized as a table.
BackupFactFull == raw

\* delete+insert: what the archive has of a day replaces what the fact has.
BackupFact ==
  [i \in Instances |-> [d \in Days |->
     IF Recomputed(d) /\ raw[i][d] # 0 THEN raw[i][d] ELSE fct[i][d]]]

\* Mutant: current_date.
AsOfClock == today

\* The anchor of mart_backup_rpo: the newest day of fct_query_daily.
AsOf == newest

\* The glob of the source must match a file.
Build ==
  /\ \E i \in Instances, d \in Days : raw[i][d] # 0
  /\ fct' = BackupFact
  /\ asOf' = AsOf
  /\ fresh' = {}

Transform ==
  /\ main = "transform"
  /\ Build
  /\ main' = "publish"
  /\ UNCHANGED <<worldVars, auxVars, newest, served, day, runs>>

\* A model or a test fails, behind the models of this module or before them;
\* the task is retried or was at its last attempt.
TransformFails ==
  /\ main = "transform"
  /\ Build \/ UNCHANGED <<fct, asOf, fresh>>
  /\ main' \in {"transform", "over"}
  /\ UNCHANGED <<worldVars, auxVars, newest, served, day, runs>>

Publish ==
  /\ main = "publish"
  /\ served' = [fct |-> fct, asOf |-> asOf]
  /\ main' = "served"
  /\ UNCHANGED <<worldVars, auxVars, newest, fct, asOf, day, runs, fresh>>

\* An attempt is rolled back, or dies after its commit; it is retried or was the
\* last.
PublishFails ==
  /\ main = "publish"
  /\ served' \in {served, [fct |-> fct, asOf |-> asOf]}
  /\ main' \in {"publish", "over"}
  /\ UNCHANGED <<worldVars, auxVars, newest, fct, asOf, day, runs, fresh>>

-----------------------------------------------------------------------------

Branch == Fetch \/ Skip \/ Refuse \/ Delete \/ Put \/ CopyDone \/ CopyFails

Main ==
  Offload \/ OffloadFails \/ Transform \/ TransformFails \/ Publish \/ PublishFails

Next == Tick \/ Record \/ Verify \/ Sweep \/ StartRun \/ Branch \/ Main

Spec == Init /\ [][Next]_vars

-----------------------------------------------------------------------------
(* Properties. *)

\* What the archive has of a partition and the fact could see: it was put while
\* the fact was not past its day, and the fact has been built since.
InTime(i, d) ==
  /\ raw[i][d] # 0
  /\ <<i, d>> \notin late /\ <<i, d>> \notin fresh

\* A copy in time is what the dashboards show as soon as a run has published,
\* a later verification included when the day was copied again; attempts that
\* died, builds in the middle of a rewrite and runs of other days in between
\* change nothing.  The price is the other half: a copy that is late stays out.
CopiesInTimeAreServed ==
  main = "served" =>
    \A i \in Instances, d \in Days : InTime(i, d) => served.fct[i][d] = raw[i][d]

\* No build in the middle of a rewrite takes a backup, or its verification,
\* off the dashboards again.
ServedBackupsStay ==
  [][\A i \in Instances, d \in Days : served'.fct[i][d] >= served.fct[i][d]]_vars

\* rpo_status: no successful backup for more than MaxGap days.
Breach(i) ==
  LET successes == {d \in Days : served.fct[i][d] # 0}
  IN  successes # {} /\ \A d \in successes : served.asOf - d > MaxGap

\* A breach is never reported over a backup that was copied in time, although
\* the two branches of a run and two facts of different age meet in the mart.
BreachIsNotALag ==
  main = "served" =>
    \A i \in Instances : Breach(i) =>
      \A d \in Days : newest - d \in 0..MaxGap => ~InTime(i, d)
=============================================================================
