------------------------------ MODULE DuckLake ------------------------------
(***************************************************************************)
(* The serving side: the marts go from the DuckDB file that dbt builds to  *)
(* the DuckLake (catalog in PostgreSQL, data in S3) that the dashboards    *)
(* read.  Three parties work on the lake at once:                          *)
(*                                                                         *)
(*   the pipeline: extract/publish_marts.py in one transaction, then       *)
(*     extract/run_log.py appends a row;                                   *)
(*   the weekly maintenance: extract/ducklake_maintenance.py measures,     *)
(*     checkpoints, cleans up and measures again;                          *)
(*   dashboard queries, each on the snapshot that was newest at its start. *)
(*                                                                         *)
(* A mart's rows are abstracted to the number of the build they came from, *)
(* builds having different row counts; its data files to the number of the *)
(* publication that wrote them.                                            *)
(***************************************************************************)
EXTENDS Integers, FiniteSets

CONSTANTS
  Marts,        \* MART_TABLES
  Readers,      \* dashboard queries
  Retention,    \* DUCKLAKE_RETENTION, in ticks of the clock
  LastTick,     \* bound: the clock stops here
  MaxBuilds,    \* bound: dbt builds
  MaxPubs,      \* bound: publications begun
  MaxLog        \* bound: rows of pipeline_run_log

ASSUME ConstantsOK ==
  /\ Marts # {}
  /\ Retention \in Nat /\ LastTick \in Nat
  /\ MaxBuilds \in Nat /\ MaxPubs \in Nat /\ MaxLog \in Nat

RunLog == "pipeline_run_log"

VARIABLES
  now,
  \* the pipeline
  pipe,      \* where the pipeline is
  duck,      \* duck[m]: the build that mart m in the DuckDB file is from
  builds,    \* builds begun
  pubs,      \* publications begun
  txn,       \* the marts replaced in the open transaction
  \* the lake
  snaps,     \* the snapshots in the catalog
  objects,   \* data files in S3: <<m, p>> is mart m of publication p
  doomed,    \* files that expired snapshots have left for deletion
  \* the maintenance
  maint,     \* where the maintenance is
  todo,      \* tables still to measure
  before,    \* row counts measured before
  after,     \* row counts measured after
  \* the dashboards
  reading,   \* reading[r]: the snapshot query r is on, or None
  unread,    \* marts query r has still to read
  lost       \* queries that met a file that was gone

pipeVars  == <<pipe, duck, builds, pubs, txn>>
lakeVars  == <<snaps, objects, doomed>>
maintVars == <<maint, todo, before, after>>
readVars  == <<reading, unread, lost>>
vars      == <<now, pipeVars, lakeVars, maintVars, readVars>>

None == [id |-> -1]

\* A snapshot: when it was committed, which build and publication each mart
\* is from, and how many rows the run log has.
Snapshots == [id : Nat, at : 0..LastTick, build : [Marts -> 0..MaxBuilds],
              pub : [Marts -> 0..MaxPubs], log : 0..MaxLog]

Current == CHOOSE s \in snaps : \A x \in snaps : x.id <= s.id

Files(s) == {<<m, s.pub[m]>> : m \in Marts}

Tables == Marts \cup {RunLog}

\* The row count of a table now: a number that tells builds apart.
Count(t) == IF t = RunLog THEN Current.log ELSE Current.build[t]

NotMeasured == [t \in Tables |-> -1]

TypeOK ==
  /\ now \in 0..LastTick
  /\ pipe \in {"idle", "build", "built", "publish", "log"}
  /\ duck \in [Marts -> 0..MaxBuilds]
  /\ builds \in 0..MaxBuilds
  /\ pubs \in 0..MaxPubs
  /\ txn \subseteq Marts
  /\ snaps \subseteq Snapshots /\ snaps # {}
  /\ \A s, x \in snaps : s.id = x.id => s = x
  /\ objects \subseteq Marts \X (0..MaxPubs)
  /\ doomed \subseteq Marts \X (0..MaxPubs)
  /\ maint \in {"idle", "before", "checkpoint", "cleanup", "after", "alarm"}
  /\ todo \subseteq Tables
  /\ before \in [Tables -> Int] /\ after \in [Tables -> Int]
  /\ reading \in [Readers -> Snapshots \cup {None}]
  /\ unread \in [Readers -> SUBSET Marts]
  /\ lost \subseteq Readers

First == [id |-> 0, at |-> 0, build |-> [m \in Marts |-> 0],
          pub |-> [m \in Marts |-> 0], log |-> 0]

\* A lake that has been published once.
Init ==
  /\ now = 0
  /\ pipe = "idle" /\ duck = [m \in Marts |-> 0]
  /\ builds = 0 /\ pubs = 0 /\ txn = {}
  /\ snaps = {First} /\ objects = Files(First) /\ doomed = {}
  /\ maint = "idle" /\ todo = {} /\ before = NotMeasured /\ after = NotMeasured
  /\ reading = [r \in Readers |-> None]
  /\ unread = [r \in Readers |-> {}]
  /\ lost = {}

Tick ==
  /\ now < LastTick
  /\ now' = now + 1
  /\ UNCHANGED <<pipeVars, lakeVars, maintVars, readVars>>

-----------------------------------------------------------------------------
(* The pipeline: the tasks transform, publish and heartbeat of one run. *)

\* A commit adds a snapshot behind the newest.
Commit(build, pub, log) ==
  snaps' = snaps \cup {[id |-> Current.id + 1, at |-> now, build |-> build,
                        pub |-> pub, log |-> log]}

StartBuild ==
  /\ pipe = "idle"
  /\ builds < MaxBuilds
  /\ builds' = builds + 1
  /\ pipe' = "build"
  /\ UNCHANGED <<now, duck, pubs, txn, lakeVars, maintVars, readVars>>

\* dbt replaces the marts in the file one model at a time.
BuildMart ==
  /\ pipe = "build"
  /\ \E m \in Marts : duck[m] # builds /\ duck' = [duck EXCEPT ![m] = builds]
  /\ UNCHANGED <<now, pipe, builds, pubs, txn, lakeVars, maintVars, readVars>>

BuildDone ==
  /\ pipe = "build"
  /\ \A m \in Marts : duck[m] = builds
  /\ pipe' = "built"
  /\ UNCHANGED <<now, duck, builds, pubs, txn, lakeVars, maintVars, readVars>>

\* A model or a test fails: what was replaced stays replaced.
BuildFails ==
  /\ pipe = "build"
  /\ pipe' = "idle"
  /\ UNCHANGED <<now, duck, builds, pubs, txn, lakeVars, maintVars, readVars>>

\* BEGIN
PublishBegin ==
  /\ pipe = "built"
  /\ pubs < MaxPubs
  /\ pubs' = pubs + 1
  /\ txn' = {}
  /\ pipe' = "publish"
  /\ UNCHANGED <<now, duck, builds, lakeVars, maintVars, readVars>>

\* CREATE OR REPLACE TABLE: the file is in S3 before the transaction commits.
PublishTable ==
  /\ pipe = "publish"
  /\ \E m \in Marts \ txn :
       /\ txn' = txn \cup {m}
       /\ objects' = objects \cup {<<m, pubs>>}
  /\ UNCHANGED <<now, pipe, duck, builds, pubs, snaps, doomed, maintVars, readVars>>

\* Mutant: a commit for each table.
PublishCommitEach ==
  /\ pipe = "publish"
  /\ txn # {}
  /\ Commit([m \in Marts |-> IF m \in txn THEN duck[m] ELSE Current.build[m]],
            [m \in Marts |-> IF m \in txn THEN pubs ELSE Current.pub[m]],
            Current.log)
  /\ pipe' = IF txn = Marts THEN "log" ELSE pipe
  /\ UNCHANGED <<now, duck, builds, pubs, txn, objects, doomed, maintVars, readVars>>

\* COMMIT, when every table is in.
PublishCommit ==
  /\ pipe = "publish"
  /\ txn = Marts
  /\ Commit([m \in Marts |-> IF m \in txn THEN duck[m] ELSE Current.build[m]],
            [m \in Marts |-> IF m \in txn THEN pubs ELSE Current.pub[m]],
            Current.log)
  /\ txn' = {}
  /\ pipe' = "log"
  /\ UNCHANGED <<now, duck, builds, pubs, objects, doomed, maintVars, readVars>>

\* ROLLBACK, or the connection dies: publish is retried, or the run is over.
PublishFails ==
  /\ pipe = "publish"
  /\ txn' = {}
  /\ pipe' \in {"built", "idle"}
  /\ UNCHANGED <<now, duck, builds, pubs, lakeVars, maintVars, readVars>>

\* Mutant: the row becomes visible in the snapshot that is there already.
AppendLogInPlace ==
  /\ pipe = "log"
  /\ pipe' = "idle"
  /\ Current.log < MaxLog
  /\ snaps' = snaps \cup {[Current EXCEPT !.log = @ + 1]}
  /\ UNCHANGED <<now, duck, builds, pubs, txn, objects, doomed, maintVars, readVars>>

\* The run ends with a row in the log; failing to write it is ignored.
AppendLog ==
  /\ pipe = "log"
  /\ pipe' = "idle"
  /\ \/ /\ Current.log < MaxLog
        /\ Commit(Current.build, Current.pub, Current.log + 1)
     \/ UNCHANGED snaps
  /\ UNCHANGED <<now, duck, builds, pubs, txn, objects, doomed, maintVars, readVars>>

-----------------------------------------------------------------------------
(* The maintenance: run_maintenance. *)

StartMaintenance ==
  /\ maint \in {"idle", "alarm"}
  /\ maint' = "before"
  /\ todo' = Tables
  /\ before' = NotMeasured /\ after' = NotMeasured
  /\ UNCHANGED <<now, pipeVars, lakeVars, readVars>>

\* ORDER BY table_name: the marts in some order, which TLC may choose once for
\* all, and pipeline_run_log behind them.
NextTable ==
  IF todo \cap Marts # {} THEN CHOOSE m \in todo \cap Marts : TRUE ELSE RunLog

\* measure counts one table after another, each in a query of its own.
MeasureBefore ==
  /\ maint = "before"
  /\ before' = [before EXCEPT ![NextTable] = Count(NextTable)]
  /\ todo' = todo \ {NextTable}
  /\ maint' = IF todo' = {} THEN "checkpoint" ELSE maint
  /\ UNCHANGED <<now, pipeVars, lakeVars, after, readVars>>

\* Mutant: a snapshot of exactly the retention's age expires.
ExpiredEarly(s) == now - s.at >= Retention /\ s # Current

Expired(s) == now - s.at > Retention /\ s # Current

\* Mutant: the files of expired snapshots go even if a kept one shares them.
CheckpointShared ==
  /\ maint = "checkpoint"
  /\ LET kept == {s \in snaps : ~Expired(s)}
     IN  /\ snaps' = kept
         /\ doomed' = doomed \cup UNION {Files(s) : s \in snaps \ kept}
  /\ maint' = "cleanup"
  /\ UNCHANGED <<now, pipeVars, objects, todo, before, after, readVars>>

\* CHECKPOINT: old snapshots leave the catalog; the files that only they had
\* are marked for deletion.
Checkpoint ==
  /\ maint = "checkpoint"
  /\ LET kept == {s \in snaps : ~Expired(s)}
     IN  /\ snaps' = kept
         /\ doomed' = doomed \cup ((UNION {Files(s) : s \in snaps \ kept})
                                     \ (UNION {Files(s) : s \in kept}))
  /\ maint' = "cleanup"
  /\ UNCHANGED <<now, pipeVars, objects, todo, before, after, readVars>>

\* ducklake_cleanup_old_files(cleanup_all => true): no grace period.
Cleanup ==
  /\ maint = "cleanup"
  /\ objects' = objects \ doomed
  /\ doomed' = {}
  /\ maint' = "after"
  /\ todo' = Tables
  /\ UNCHANGED <<now, pipeVars, snaps, before, after, readVars>>

MeasureAfter ==
  /\ maint = "after"
  /\ todo # {}
  /\ after' = [after EXCEPT ![NextTable] = Count(NextTable)]
  /\ todo' = todo \ {NextTable}
  /\ UNCHANGED <<now, pipeVars, lakeVars, maint, before, readVars>>

Compare ==
  /\ maint = "after"
  /\ todo = {}
  /\ \/ /\ after = before
        /\ maint' = "idle"
        /\ before' = NotMeasured /\ after' = NotMeasured
     \/ /\ after # before
        /\ maint' = "alarm"
        /\ UNCHANGED <<before, after>>
  /\ UNCHANGED <<now, pipeVars, lakeVars, todo, readVars>>

\* PostgreSQL or S3 fails; the scheduler starts the task over.
MaintenanceFails ==
  /\ maint \in {"before", "checkpoint", "cleanup", "after"}
  /\ maint' = "idle"
  /\ todo' = {}
  /\ before' = NotMeasured /\ after' = NotMeasured
  /\ UNCHANGED <<now, pipeVars, lakeVars, readVars>>

Maintenance ==
  StartMaintenance \/ MeasureBefore \/ Checkpoint \/ Cleanup \/ MeasureAfter
    \/ Compare \/ MaintenanceFails

-----------------------------------------------------------------------------
(* The dashboards. *)

StartReading(r) ==
  /\ reading[r] = None
  /\ reading' = [reading EXCEPT ![r] = Current]
  /\ unread' = [unread EXCEPT ![r] = Marts]
  /\ UNCHANGED <<now, pipeVars, lakeVars, maintVars, lost>>

Read(r) ==
  /\ reading[r] # None
  /\ \E m \in unread[r] :
       IF <<m, reading[r].pub[m]>> \in objects
         THEN /\ unread' = [unread EXCEPT ![r] = @ \ {m}]
              /\ lost' = lost
         ELSE /\ unread' = [unread EXCEPT ![r] = {}]
              /\ lost' = lost \cup {r}
  /\ UNCHANGED <<now, pipeVars, lakeVars, maintVars, reading>>

StopReading(r) ==
  /\ reading[r] # None
  /\ unread[r] = {}
  /\ reading' = [reading EXCEPT ![r] = None]
  /\ lost' = lost \ {r}
  /\ UNCHANGED <<now, pipeVars, lakeVars, maintVars, unread>>

Pipeline ==
  StartBuild \/ BuildMart \/ BuildDone \/ BuildFails \/ PublishBegin
    \/ PublishTable \/ PublishCommit \/ PublishFails \/ AppendLog

Next ==
  \/ Tick \/ Pipeline \/ Maintenance
  \/ \E r \in Readers : StartReading(r) \/ Read(r) \/ StopReading(r)

Spec == Init /\ [][Next]_vars

-----------------------------------------------------------------------------
(* Properties. *)

\* The build a snapshot shows, or -2 when its marts are from several.
BuildOf(s) ==
  LET first == s.build[CHOOSE m \in Marts : TRUE]
  IN  IF \A m \in Marts : s.build[m] = first THEN first ELSE -2

View == [r \in Readers |-> IF reading[r] = None THEN -1 ELSE BuildOf(reading[r])]

Served == INSTANCE ServedLake
            WITH shown <- BuildOf(Current), logged <- Current.log, view <- View

\* The lake shows one whole build after the other, never an older one, and each
\* query stays on its own: no failure of dbt between two models, none of the
\* publication between two tables and no log row committed in between mixes
\* versions (publish_marts' single transaction), and no step of the maintenance
\* changes what a new query sees.
ImplementsServedLake == Served!Spec

\* The files of every snapshot in the catalog are in S3: maintenance never
\* cleans away what an open or a failed publication, or an older snapshot that
\* is still kept, has written.
CatalogIsReadable ==
  \A s \in snaps : Files(s) \subseteq objects

\* A query whose snapshot is within the retention never meets a missing file,
\* although the cleanup has no grace period.
FreshReadersAreSafe ==
  \A r \in Readers :
    r \in lost => now - reading[r].at > Retention
=============================================================================
