----------------------------- MODULE RawOffload -----------------------------
(***************************************************************************)
(* The extract-and-load half of the lakehouse: extract/offload.py copies   *)
(* one closed day of every registered instance from the DBTower metadata   *)
(* database (the source) to one parquet object per partition               *)
(* raw/<table>/dt=<day>/instance_id=<id>/ (the archive).                   *)
(*                                                                         *)
(* The source forgets: it keeps seven days of query snapshots and a fixed  *)
(* number of plan snapshots per query, so the archive may be the only copy *)
(* of what it holds.  An overwrite deletes the prefix and then puts the    *)
(* new object, in two calls, so another worker, a crash or a sweep of the  *)
(* source can fall between any two steps of a run.                         *)
(*                                                                         *)
(* A Job is something that runs the loop: the Airflow tasks offload and    *)
(* offload_aux, or an operator at the command line.  Row contents are      *)
(* abstracted to row numbers, ordered by the watermark column.             *)
(***************************************************************************)
EXTENDS Integers, Sequences

CONSTANTS
  Tables,       \* the tables of extract/tables.py this instance looks at
  Instances,    \* ids that may be in the source's database_instance
  Rows,         \* row numbers within a partition, in watermark order
  LastDay,      \* bound: the calendar stops at this day
  Jobs,         \* the processes that run the offload loop
  JobTables,    \* JobTables[j]: the tables job j walks, in order
  DimJobs,      \* the jobs that end with the dim_instance snapshot
  Retries,      \* Retries[j]: attempts the scheduler adds after a failure
  Retention,    \* Retention[t]: days the source keeps t, 0 = kept by count
  SourceDays,   \* bound: the days on which rows appear
  MaxRuns       \* bound: runs started in all

Days == 0..LastDay
Part == Tables \X Instances \X Days

ASSUME ConstantsOK ==
  /\ Instances \subseteq Nat
  /\ Rows \subseteq Nat
  /\ LastDay \in Nat
  /\ JobTables \in [Jobs -> Seq(Tables) \ {<<>>}]
  /\ DimJobs \subseteq Jobs
  /\ Retries \in [Jobs -> Nat]
  /\ Retention \in [Tables -> Nat]
  /\ SourceDays \subseteq Days
  /\ MaxRuns \in Nat

VARIABLES
  \* the source, outside this repository
  today,        \* the current UTC day
  registry,     \* rows of database_instance
  source,       \* source[p]: rows of partition p the source still has
  captured,     \* history: rows the source ever had
  \* the archive
  archive,      \* archive[p]: rows in the parquet object, {} = no object
  dim,          \* dim[d]: instances in raw/dim_instance/dt=d, {} = no object
  written,      \* history: what the last successful put of p wrote
  torn,         \* history: partitions a dead attempt deleted and did not put
  \* the workers
  pc,           \* where each job is
  day,          \* the logical date of the run
  tab,          \* index in JobTables[j] of the table being walked
  todo,         \* instances of that table still to do
  cur,          \* the instance being copied
  buf,          \* the rows fetched for it
  dimbuf,       \* the instances fetched for the dimension snapshot
  result,       \* result[j][<<t, i>>]: rows reported written, {} = none
  tries,        \* failed attempts of this run
  runs          \* runs started so far

sourceVars == <<today, registry, source, captured>>
storeVars  == <<archive, dim, written, torn>>
jobVars    == <<pc, day, tab, todo, cur, buf, dimbuf, result, tries, runs>>
vars       == <<sourceVars, storeVars, jobVars>>

Running == {"list", "fetch", "decide", "delete", "put",
            "dim_fetch", "dim_decide", "dim_delete", "dim_put"}
Resting == {"idle", "done", "failed"}

Table(j) == JobTables[j][tab[j]]

\* The partition job j is copying.
Cur(j) == <<Table(j), cur[j], day[j]>>

NoResult == [k \in Tables \X Instances |-> {}]

TypeOK ==
  /\ today \in Days
  /\ registry \subseteq Instances
  /\ source \in [Part -> SUBSET Rows]
  /\ captured \in [Part -> SUBSET Rows]
  /\ archive \in [Part -> SUBSET Rows]
  /\ dim \in [Days -> SUBSET Instances]
  /\ written \in [Part -> SUBSET Rows]
  /\ torn \subseteq Part
  /\ pc \in [Jobs -> Running \cup Resting]
  /\ day \in [Jobs -> Days]
  /\ tab \in [Jobs -> Nat \ {0}]
  /\ \A j \in Jobs : tab[j] <= Len(JobTables[j])
  /\ todo \in [Jobs -> SUBSET Instances]
  /\ cur \in [Jobs -> Nat]
  /\ \A j \in Jobs : pc[j] \in {"decide", "delete", "put"} => cur[j] \in Instances
  /\ buf \in [Jobs -> SUBSET Rows]
  /\ dimbuf \in [Jobs -> SUBSET Instances]
  /\ result \in [Jobs -> [Tables \X Instances -> SUBSET Rows]]
  /\ tries \in [Jobs -> Nat]
  /\ runs \in Nat

Init ==
  /\ today = 0
  /\ registry \in SUBSET Instances
  /\ source = [p \in Part |-> {}]
  /\ captured = [p \in Part |-> {}]
  /\ archive = [p \in Part |-> {}]
  /\ dim = [d \in Days |-> {}]
  /\ written = [p \in Part |-> {}]
  /\ torn = {}
  /\ pc = [j \in Jobs |-> "idle"]
  /\ day = [j \in Jobs |-> 0]
  /\ tab = [j \in Jobs |-> 1]
  /\ todo = [j \in Jobs |-> {}]
  /\ cur = [j \in Jobs |-> 0]
  /\ buf = [j \in Jobs |-> {}]
  /\ dimbuf = [j \in Jobs |-> {}]
  /\ result = [j \in Jobs |-> NoResult]
  /\ tries = [j \in Jobs |-> 0]
  /\ runs = 0

-----------------------------------------------------------------------------
(* The source.  DBTower is another repository: what follows is what this   *)
(* one relies on, from docs/CONTRACT.md and the table specifications.      *)

Tick ==
  /\ today < LastDay
  /\ today' = today + 1
  /\ UNCHANGED <<registry, source, captured, storeVars, jobVars>>

\* A snapshot row appears; a late one may still arrive the day after.
Capture ==
  \E p \in Part, r \in Rows :
    /\ p[2] \in registry
    /\ p[3] \in {today, today - 1} \cap SourceDays
    /\ r \notin captured[p]
    /\ source' = [source EXCEPT ![p] = @ \cup {r}]
    /\ captured' = [captured EXCEPT ![p] = @ \cup {r}]
    /\ UNCHANGED <<today, registry, storeVars, jobVars>>

\* Retention by age: the oldest rows of a day that has expired go first.
SweepByAge ==
  \E p \in Part :
    /\ Retention[p[1]] # 0
    /\ today - p[3] >= Retention[p[1]]
    /\ \E r \in source[p] :
         source' = [source EXCEPT ![p] = {x \in @ : x > r}]
    /\ UNCHANGED <<today, registry, captured, storeVars, jobVars>>

\* Retention by count: a row goes once newer ones of its instance exist,
\* even while its own day is still open.
SweepByCount ==
  \E p \in Part, q \in Part :
    /\ Retention[p[1]] = 0
    /\ p[1] = q[1] /\ p[2] = q[2]
    /\ \E r \in source[p], x \in source[q] :
         /\ q[3] > p[3] \/ (q[3] = p[3] /\ x > r)
         /\ source' = [source EXCEPT ![p] = @ \ {r}]
    /\ UNCHANGED <<today, registry, captured, storeVars, jobVars>>

Register ==
  /\ \E i \in Instances :
       registry' = IF i \in registry THEN registry \ {i} ELSE registry \cup {i}
  /\ UNCHANGED <<today, source, captured, storeVars, jobVars>>

-----------------------------------------------------------------------------
(* The offload loop. *)

\* A run is started for a closed day: by the schedule, a Clear, a backfill or
\* an operator.  A job has one run at a time (max_active_tis_per_dag=1).
Start(j) ==
  /\ pc[j] \in Resting
  /\ runs < MaxRuns
  /\ \E d \in Days : d < today /\ day' = [day EXCEPT ![j] = d]
  /\ pc' = [pc EXCEPT ![j] = "list"]
  /\ tab' = [tab EXCEPT ![j] = 1]
  /\ result' = [result EXCEPT ![j] = NoResult]
  /\ tries' = [tries EXCEPT ![j] = 0]
  /\ runs' = runs + 1
  /\ UNCHANGED <<sourceVars, storeVars, todo, cur, buf, dimbuf>>

\* An attempt ends in an exception, or its process dies: the scheduler starts
\* it over from the first table while retries are left.  Nothing it did to
\* the archive is undone.
AttemptFails(j) ==
  /\ pc' = [pc EXCEPT ![j] = IF tries[j] < Retries[j] THEN "list" ELSE "failed"]
  /\ tries' = [tries EXCEPT ![j] = @ + 1]
  /\ tab' = [tab EXCEPT ![j] = 1]
  /\ result' = [result EXCEPT ![j] = NoResult]
  /\ torn' = IF pc[j] = "put" THEN torn \cup {Cur(j)} ELSE torn
  /\ UNCHANGED <<sourceVars, archive, dim, written, day, todo, cur, buf, dimbuf, runs>>

\* Control after job j has dealt with every instance but those in rest: the
\* next instance, the next table, the dimension snapshot, or the end.
Advance(j, rest) ==
  /\ todo' = [todo EXCEPT ![j] = rest]
  /\ IF rest # {}
       THEN pc' = [pc EXCEPT ![j] = "fetch"] /\ tab' = tab
     ELSE IF tab[j] < Len(JobTables[j])
       THEN pc' = [pc EXCEPT ![j] = "list"] /\ tab' = [tab EXCEPT ![j] = @ + 1]
     ELSE pc' = [pc EXCEPT ![j] = IF j \in DimJobs THEN "dim_fetch" ELSE "done"]
          /\ tab' = tab

\* The registry is read once per table.
List(j) ==
  /\ pc[j] = "list"
  /\ Advance(j, registry)
  /\ UNCHANGED <<sourceVars, storeVars, day, cur, buf, dimbuf, result, tries, runs>>

\* Mutant: of the batches a query returns only the last is kept.
FetchLastBatch(j) ==
  /\ pc[j] = "fetch"
  /\ \E i \in todo[j] :
       /\ \A k \in todo[j] : i <= k
       /\ cur' = [cur EXCEPT ![j] = i]
       /\ buf' = [buf EXCEPT ![j] =
            LET rows == source[<<Table(j), i, day[j]>>]
            IN  {r \in rows : \A x \in rows : x <= r}]
  /\ pc' = [pc EXCEPT ![j] = "decide"]
  /\ UNCHANGED <<sourceVars, storeVars, day, tab, todo, dimbuf, result, tries, runs>>

\* One query, hence one snapshot of the partition; instances in id order.
Fetch(j) ==
  /\ pc[j] = "fetch"
  /\ \E i \in todo[j] :
       /\ \A k \in todo[j] : i <= k
       /\ cur' = [cur EXCEPT ![j] = i]
       /\ buf' = [buf EXCEPT ![j] = source[<<Table(j), i, day[j]>>]]
  /\ pc' = [pc EXCEPT ![j] = "decide"]
  /\ UNCHANGED <<sourceVars, storeVars, day, tab, todo, dimbuf, result, tries, runs>>

\* Mutant: the number of source rows is not looked at.
OverwriteUnchecked(j) ==
  /\ pc[j] = "decide"
  /\ pc' = [pc EXCEPT ![j] = "delete"]
  /\ UNCHANGED <<sourceVars, storeVars, day, tab, todo, cur, buf, dimbuf,
                 result, tries, runs>>

Overwrite(j) ==
  /\ pc[j] = "decide"
  /\ buf[j] # {}
  /\ pc' = [pc EXCEPT ![j] = "delete"]
  /\ UNCHANGED <<sourceVars, storeVars, day, tab, todo, cur, buf, dimbuf,
                 result, tries, runs>>

\* Nothing in the source, nothing in the archive: a day without rows.
Skip(j) ==
  /\ pc[j] = "decide"
  /\ buf[j] = {}
  /\ archive[Cur(j)] = {}
  /\ Advance(j, todo[j] \ {cur[j]})
  /\ UNCHANGED <<sourceVars, storeVars, day, cur, buf, dimbuf, result, tries, runs>>

\* Mutant: the archive is brought in line with the empty source before the error.
RefuseTooLate(j) ==
  /\ pc[j] = "decide"
  /\ buf[j] = {}
  /\ archive[Cur(j)] # {}
  /\ pc' = [pc EXCEPT ![j] = "failed"]
  /\ archive' = [archive EXCEPT ![Cur(j)] = {}]
  /\ UNCHANGED <<sourceVars, dim, written, torn, day, tab, todo, cur, buf, dimbuf,
                 result, tries, runs>>

\* Nothing in the source but something in the archive, perhaps the only copy:
\* ArchiveSelfDestructError, which ends the whole attempt.
Refuse(j) ==
  /\ pc[j] = "decide"
  /\ buf[j] = {}
  /\ archive[Cur(j)] # {}
  /\ AttemptFails(j)

\* Mutant: the prefix that is deleted names the day only.
DeleteWholeDay(j) ==
  /\ pc[j] = "delete"
  /\ archive' = [p \in Part |-> IF p[3] = day[j] THEN {} ELSE archive[p]]
  /\ pc' = [pc EXCEPT ![j] = "put"]
  /\ UNCHANGED <<sourceVars, dim, written, torn, day, tab, todo, cur, buf, dimbuf,
                 result, tries, runs>>

Delete(j) ==
  /\ pc[j] = "delete"
  /\ archive' = [archive EXCEPT ![Cur(j)] = {}]
  /\ pc' = [pc EXCEPT ![j] = "put"]
  /\ UNCHANGED <<sourceVars, dim, written, torn, day, tab, todo, cur, buf, dimbuf,
                 result, tries, runs>>

Put(j) ==
  /\ pc[j] = "put"
  /\ archive' = [archive EXCEPT ![Cur(j)] = buf[j]]
  /\ written' = [written EXCEPT ![Cur(j)] = buf[j]]
  /\ torn' = torn \ {Cur(j)}
  /\ result' = [result EXCEPT ![j][<<Table(j), cur[j]>>] = buf[j]]
  /\ Advance(j, todo[j] \ {cur[j]})
  /\ UNCHANGED <<sourceVars, dim, day, cur, buf, dimbuf, tries, runs>>

DimFetch(j) ==
  /\ pc[j] = "dim_fetch"
  /\ dimbuf' = [dimbuf EXCEPT ![j] = registry]
  /\ pc' = [pc EXCEPT ![j] = "dim_decide"]
  /\ UNCHANGED <<sourceVars, storeVars, day, tab, todo, cur, buf, result, tries, runs>>

\* Mutant: an empty registry is snapshotted like any other.
DimDecideUnchecked(j) ==
  /\ pc[j] = "dim_decide"
  /\ pc' = [pc EXCEPT ![j] = "dim_delete"]
  /\ UNCHANGED <<sourceVars, storeVars, day, tab, todo, cur, buf, dimbuf,
                 result, tries, runs>>

DimDecide(j) ==
  /\ pc[j] = "dim_decide"
  /\ \/ /\ dimbuf[j] # {}
        /\ pc' = [pc EXCEPT ![j] = "dim_delete"]
        /\ UNCHANGED <<sourceVars, storeVars, day, tab, todo, cur, buf, dimbuf,
                       result, tries, runs>>
     \/ /\ dimbuf[j] = {} /\ dim[day[j]] = {}
        /\ pc' = [pc EXCEPT ![j] = "done"]
        /\ UNCHANGED <<sourceVars, storeVars, day, tab, todo, cur, buf, dimbuf,
                       result, tries, runs>>
     \/ /\ dimbuf[j] = {} /\ dim[day[j]] # {}
        /\ AttemptFails(j)

DimDelete(j) ==
  /\ pc[j] = "dim_delete"
  /\ dim' = [dim EXCEPT ![day[j]] = {}]
  /\ pc' = [pc EXCEPT ![j] = "dim_put"]
  /\ UNCHANGED <<sourceVars, archive, written, torn, day, tab, todo, cur, buf, dimbuf,
                 result, tries, runs>>

DimPut(j) ==
  /\ pc[j] = "dim_put"
  /\ dim' = [dim EXCEPT ![day[j]] = dimbuf[j]]
  /\ pc' = [pc EXCEPT ![j] = "done"]
  /\ UNCHANGED <<sourceVars, archive, written, torn, day, tab, todo, cur, buf, dimbuf,
                 result, tries, runs>>

\* The database, the network or the worker fails at any point of an attempt.
Crash(j) ==
  /\ pc[j] \in Running
  /\ AttemptFails(j)

JobStep(j) ==
  \/ List(j) \/ Fetch(j) \/ Overwrite(j) \/ Skip(j) \/ Refuse(j)
  \/ Delete(j) \/ Put(j)
  \/ DimFetch(j) \/ DimDecide(j) \/ DimDelete(j) \/ DimPut(j)

Environment == Tick \/ Capture \/ SweepByAge \/ SweepByCount \/ Register

Next ==
  \/ Environment
  \/ \E j \in Jobs : Start(j) \/ JobStep(j) \/ Crash(j)

Spec == Init /\ [][Next]_vars

-----------------------------------------------------------------------------
(* Properties. *)

\* Only a worker that holds rows of its own for a partition (or for a day of
\* the dimension) ever removes what is archived there: an empty read never
\* destroys a copy, whatever other workers, crashes and sweeps come between
\* the read and the deletion (decide_partition_action's fail-closed rule).
NoDeleteWithoutRows ==
  [][/\ \A p \in Part : archive[p] # {} /\ archive'[p] = {} =>
          \E j \in Jobs : pc[j] = "delete" /\ Cur(j) = p /\ buf[j] # {}
     /\ \A d \in Days : dim[d] # {} /\ dim'[d] = {} =>
          \E j \in Jobs : pc[j] = "dim_delete" /\ day[j] = d /\ dimbuf[j] # {}
    ]_vars

\* A partition that was once written is absent only while a worker is between
\* its deletion and its put, or after an attempt died exactly there: no other
\* interleaving of workers can leave a hole (delete, then put_object).
VanishedOnlyMidRewrite ==
  \A p \in Part : archive[p] = {} /\ written[p] # {} =>
    p \in torn \/ \E j \in Jobs : pc[j] = "put" /\ Cur(j) = p

\* When a run reports success, every row count it reports is what the archive
\* holds, until the next run of that job: retries after a partial attempt and
\* the other task's writes do not disturb it.  For jobs with disjoint tables.
DoneMeansArchived ==
  \A j \in Jobs : pc[j] = "done" =>
    \A k \in Tables \X Instances :
      result[j][k] # {} => archive[<<k[1], k[2], day[j]>>] = result[j][k]

\* Inside the retention window of a table kept by age, running the same day
\* again, in whole or after a crash, never writes fewer rows than the run
\* before it did.  For jobs with disjoint tables.
WindowedRerunKeepsRows ==
  [][\A p \in Part :
       Retention[p[1]] # 0 /\ today - p[3] < Retention[p[1]] =>
         written[p] \subseteq written'[p]]_vars
=============================================================================
