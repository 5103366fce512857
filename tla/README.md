# Verification of the DBTower lakehouse

TLA+ models of the pipeline in this repository, the TLC configurations that
check them on small instances, and TLAPS proofs of what matters most for every
size. Source paths below are relative to the repository.

The system copies, once a day, what an operational database is about to forget
into an archive, judges the copy, builds facts and marts from it, publishes them
to the dashboards and writes one baseline back to the source. Its correctness is
about order and failure: five tasks in a chain, an auxiliary branch, retries,
operators with a command line, a weekly maintenance and dashboards that all
work on the same stores, while the source expires underneath.

## 1. The system

| Part | State it keeps | Operations | Hard behaviour |
|---|---|---|---|
| **Extraction loop** `extract/offload.py` | one parquet object per partition `raw/<table>/dt=<day>/instance_id=<id>/`, `raw/dim_instance` | `run_offload`, `run_offload_aux`, `run_offload_dim`: list the instances, fetch, decide (overwrite, skip, refuse), delete, put | delete and put are two calls; crash, retry or rival between any two; the source shrinks while the archive may be the only copy |
| **Table registry** `extract/tables.py` | none (specifications) | gate profiles, watermark columns | rows of `backup_run` change after their day is closed |
| **Quality gate** `extract/quality.py` | none | four axes, `evaluate`, `assert_gate` | registry, schema, archive and source are read by separate queries; counts, not rows, are compared |
| **Daily DAG** `dags/snapshot_offload.py` | task states of one run | eight tasks, retries, `all_success`, `max_active_runs=1`; beside it the full refresh and the publication of `docs/RUNBOOK.md` | the gate judges one day, everything after it works on all days |
| **Incremental facts** `dbt/.../models/marts/fct_*.sql` | tables in the DuckDB file | watermark `dt >= max(dt)`, delete+insert | re-runs of older days, keys that vanish, full refreshes from an archive that has less, reading the archive in the middle of the auxiliary branch's rewrite |
| **Marts** `dbt/.../models/marts/mart_*.sql`, `int_*`, `dim_*` | tables in the DuckDB file | windows, deltas, verdicts | boundaries, gaps in the days, counters that reset |
| **Publication** `extract/publish_marts.py`, **run log** `extract/run_log.py` | DuckLake tables (catalog in PostgreSQL, files in S3) | one transaction over all marts; append of one row | failure between two tables, mixed builds |
| **Maintenance** `extract/ducklake_maintenance.py` | the lake's snapshots and files | measure, checkpoint, cleanup, measure, compare | readers and publications at the same time, no grace period |
| **Writeback** `extract/writeback.py` | `baseline_longterm` in the source database | delete, insert, count, commit | a poller reads at any time; two writers, one of which may stall |
| **Heartbeat and deadman** `extract/heartbeat.py`, `extract/deadman.py` | `pipeline_heartbeat` | upsert after publish; hourly age check | late success against the deadline; backfills refresh the record; a cron that does not catch up; a webhook that is not set |
| **Catalog bootstrap** `extract/ducklake_load.py` | the catalog database | create if missing, ACID demonstration | two creators at once |
| **Host pipeline** `extract/run_pipeline.py` | none | gate over several days, then dbt | — |
| **Dashboard bootstrap** `scripts/metabase_bootstrap.py` | Metabase's account, connection, cards and dashboards | look up by name, make or update, over HTTP | death between two calls, a call carried out after its answer was given up, two operators, older versions of the script |
| Alerts, configuration, count verifier, fixtures, deployment | none of their own | — | — |

They interact through stores, not through calls: the archive is written by the
extraction loop and read by the gate and by dbt; the DuckDB file is written by dbt
and read by the publication; the lake is written by publication, run log and
maintenance and read by dashboards and by the writeback; the heartbeat is written
by the DAG and read by the deadman; the connection of the dashboards is made by
the bootstrap and shows what has been published. So the hard questions are which
step of one party may fall between which steps of another.

What makes each part correct:

* extraction: an empty read never destroys an archived copy; a hole in the
  archive is always the trace of an interrupted rewrite; a reported success is
  what the archive holds; a re-run inside the retention window loses nothing;
* gate: what has passed is in the archive, of every instance and with every row that
  the source had when the gate began, although registry, archive and source are
  read at different moments; counts that agree stand for the same rows;
* DAG: a run changes the lake only behind a gate that is still true; a heartbeat
  means that the day is served; what is served of a day shrinks only by a full
  refresh made by hand;
* lake: no snapshot mixes builds; every kept snapshot has its files; maintenance
  changes nothing a new query sees;
* writeback: the poller always finds one whole version;
* deadman: no alarm without a cause, no silence without an alarm, whatever dies;
* facts: a day is never overcounted, the hours agree with the day;
* verdicts: they are true of the days they are based on, and final once their
  windows have passed;
* auxiliary branch: what it copies in time is served, whatever the main branch
  reads in between, and its lag is not taken for a missing backup;
* dashboards: a dashboard is empty or whole, running the script again makes
  nothing twice, and a run that ends leaves its own screens.

`PROJECT.json` lists the hazards behind these, each at its line.

## 2. The modules

| Module | Models | Used by |
|---|---|---|
| `RawOffload` | the extraction loop, source and archive | `OffloadGate` (composition), `OffloadGate_proofs`, `MCRawOffload` |
| `QualityGate` | the gate's verdict as operators | `OffloadGate` |
| `OffloadGate` | the gate's queries behind a running `RawOffload` | `OffloadGate_proofs`, `MCOffloadGate` |
| `SnapshotDag` | the daily DAG over archive, facts, lake and heartbeat | `SnapshotDag_proofs`, `MCSnapshotDag` |
| `AuxFacts` | the auxiliary branch beside the main one: `backup_run`, `fct_backup_daily`, `mart_backup_rpo`, the dashboards | `AuxFacts_proofs`, run directly |
| `ServedLake` | abstract: what the lake promises its readers | `DuckLake` (refinement) |
| `DuckLake` | publication, run log, maintenance, readers | `DuckLake_proofs`, run directly |
| `BaselineTable` | abstract: what the writeback promises the poller | `Writeback` (refinement) |
| `Writeback` | the writeback transactions | `Writeback_proofs`, `MCWriteback` |
| `Deadman` | heartbeat, its two watchers, the alarm | `Deadman_proofs`, run directly |
| `CounterFacts` | staging, `fct_query_daily`, `fct_query_hourly`, `fct_index_daily`, `mart_index_verdict` | `FactsAndMarts_proofs`, run directly |
| `DayMarts` | `mart_plan_regression`, `mart_config_impact`, `mart_backup_rpo`, `mart_capacity_forecast` | `FactsAndMarts_proofs`, run directly |
| `MetabaseBootstrap` | the dashboard script, call by call | `MetabaseBootstrap_proofs`, `MCMetabaseBootstrap` |

### RawOffload

`source` is what the source still has of a partition, `archive` what the parquet
object holds (`{}`: no object), `dim` the dimension's object. Rows are numbers
in the order of the watermark column. A `Job` is a process that runs the loop,
and its `pc` names the next call of `run_offload`: `list`
(`_list_instance_ids`), `fetch` (`_fetch_partition`), `decide`
(`decide_partition_action` with the listing of the prefix), `delete`
(`_delete_prefix`), `put` (`put_object`), then the same for the dimension.
`AttemptFails` is the scheduler's retry: from the first table, nothing undone.
`Crash` may take it at any point, so it also stands for lost
connections and killed workers. A call may also hang for ever: only the connect is
timed (`connect_timeout`, `extract/config.py:25`), and no task has an
`execution_timeout`; a job may therefore stop anywhere, and nothing is claimed
about its end. Inside `_fetch_partition` nothing happens to the
archive, and it is one query, so it is one step. `Refuse`
(`ArchiveSelfDestructError`) ends the attempt, as the exception does.

`written` and `torn` are history: what the last put wrote, and which partitions
an attempt that died between deletion and put has left empty. `captured` is what
the source ever had; a row that was swept does not come back.

The source is external: rows appear on their day or the day after, are swept by
age in the order of the watermark (`SweepByAge`) or by count
(`SweepByCount`, `plan_snapshot`), and the registry changes at any time.

### QualityGate, OffloadGate

The axes of `evaluate` are operators over count functions; 0 stands for a key that
neither counting query returns. The gate's state machine reads registry, schema,
archive, and the source once per instance, in the order of the code, each in a
step of its own; `max(captured_at)` is a further query, taken with the verdict.
`verdicts` keeps for each table that has passed what was read for it; what one
`evaluate` has read is gone when it returns (`Return`). `gsteady` and `gsource`
are history: the instances that have been registered ever since the gate began,
and the source as it was then. They are given up when the gate blocks or its
offload starts over. The gate of a run begins when its offload has reported
success; the offload does not begin again while the gate is at work
(`max_active_runs=1`), but a rival job may.

### SnapshotDag

`raw[d]`, `fct[d]` and `lake[d]` are the sets of instances that day `d` has in the
archive, in `fct_query_daily` and on the dashboards. `Wires` is the last statement
of the DAG. A task is `scheduled`, `running` and then `success`, `failed`,
`upstream_failed` or scheduled again. `BuildFct` is the incremental model: days
below the newest in the table are left alone, the others get the archive's keys on
top of the old ones. `FullRefresh` is the operator's `dbt run --select
fct_query_daily+ --full-refresh` (`docs/RUNBOOK.md` 2-4), at any moment, also in
the middle of an offload: all days are built from what is in the archive
(`BuildAnew`), so a served day may shrink. `PublishByHand` puts the facts before
the dashboards outside of any run. `dropped` is history: what full refreshes have
taken from the facts since the last publication. The gate's verdict is left open
beyond completeness and reconciliation: `QualityGateFails` may fire at any time. A
failed `offload` has written some partitions and may have torn one; a failed
`transform` may have built the facts; a failed `publish` may have committed. The
auxiliary gate and the writeback keep no state of this model (`Leaf`). Between
`transform` and the source lies `AuxReadable`: one dbt run builds the staging
models of all tables, and `read_parquet` of a glob without a file is an error.

### AuxFacts

`offload_aux` and the main branch of one run start together and nothing joins
them: `transform` reads the partitions of `backup_run` while they are deleted and
put. `aux` is where the copy is, `held` what it has fetched for the partition at
hand, `main` where the main branch is. A backup of a day is a number: none (0),
recorded (1), verified later (2), for `verified_at` is written by DBTower at any
time after the day has closed. The source forgets a day after `Retention` days
(`Sweep`): an instance without rows is skipped where it has no partition (`Skip`),
and ends the attempt where it has one (`Refuse`, `ArchiveSelfDestructError`); an
attempt that ends is made again from the first instance or was the last
(`AttemptEnds`). `BackupFact` is `fct_backup_daily` with its
watermark, `AsOf` the anchor of `mart_backup_rpo`, which comes from
`fct_query_daily` and so from the other branch. Runs are of any closed day in any
order (schedule, backfill, repair), one at a time.

`late` and `fresh` are history: partitions that were put when the fact had moved
past their day, and partitions put since the last build. They are what the
properties need to say which copies are in time. The gate of the main branch is
open (`Offload` may end the branch), `OffloadFails` has written nothing, and
`PublishFails` is rolled back or dies after its commit; `SnapshotDag` has them in
detail.

### ServedLake and DuckLake

`ServedLake` is the lake as a reader may think of it: one build at a time,
replaced in one step by a newer one, a log that grows, queries that stay on what
they started with. `DuckLake` implements it under the mapping `BuildOf(Current)`,
where a snapshot with marts of several builds has no image: so neither a failed
dbt run, nor a publication that fails between two tables, nor a log row committed
meanwhile may show a mixture, and every step of the maintenance is a stutter.

A snapshot of the catalog says which build and which publication each mart is
from. A publication writes its files before it commits, so files of open and
failed transactions are in S3 (`objects`) without a snapshot. `Checkpoint`
drops the snapshots older than the retention, except the newest, and dooms the
files that only they had; `Cleanup` deletes what is doomed. A dashboard query
stays on the snapshot that was newest at its start. Compaction of files is not
told apart from expiry: both leave contents alone and both doom files.

### BaselineTable and Writeback

`BaselineTable` has one version of the baseline, replaced by another in one step.
It may go back to an older one: a writer that has read the mart before a rival
may commit behind it. `Writeback` implements it.

The transaction at PostgreSQL's READ COMMITTED: `Delete` takes the statement's
snapshot, `Deleted` ends the statement when no row it has found is locked, and
skips rows that a rival has deleted and committed. Then insert, count, commit,
each a step; `Fails` is a lost connection at any point, or a deadlock that
PostgreSQL breaks. A writer may stall inside its transaction, since the connection
has a `connect_timeout` and no statement or lock timeout, and then those behind it
wait as long: that they get through is not claimed.

### Deadman

Time goes by the hour; `age` is the age of the row of `pipeline_heartbeat`, cut at
one above the deadline, `Never` without a row. The DAG `deadman_watch` and the
cron outside Airflow check once in each hour they live: `ReadHeartbeats`, then
`JudgeStale` or `JudgeHealthy`, two steps since a success may be recorded in
between. The cron (`docs/RUNBOOK.md:244`) starts its check when the hour begins,
on a host that lives then: a check that dies with its host or hangs (`HostDies`,
`CronHangs`) is lost for this hour, and a host that comes up in the middle of one
has none before the next. Airflow keeps the check of the latest hour for when it
is back, so `SchedulerDies` leaves it due, but an hour does not wait for it.
`whole` is history: the watchers that nothing has kept from this hour's check; the
hour ends when those are done (`Tick`). At exactly 26 hours the minutes, which are
not modelled, decide (`Verdicts`). `CheckFails` is a catalog that cannot be
reached: the DAG's check is retried once, its last failure is posted
(`notify_task_failure`), the cron's ends with an error. A watcher without
`ALERT_WEBHOOK_URL` posts nothing (`wired`); what the DAG's check then says nobody
hears, while the cron's exit code still tells of it (`Says`, `said`). A post may
be lost and is not repeated (`post_webhook`). `missed` is history: since the last
success a midnight has gone by its two hours of grace without the day's run.

### CounterFacts

`count` are the counters of the monitored database, `snap` what each sample
reports of them, and `calls` what really happened, which no code sees. A restart
sets all counters to zero; a sample may miss a series. `Folded` adds the series
of one fingerprint (`stg_query_snapshot`), `Delta` takes the two ends of a day or
of an hour, clamped at zero, `IndexDelta` the same of one index. `Transform` is a
night's dbt run: the watermark, the recomputed rows, delete+insert. Latencies are
differenced like calls and are not repeated; a NULL `scan_count` is not modelled.
`observation_days` of the index verdict is the span of the days, as in the code,
not their number.

### DayMarts

The marts are rebuilt every night from the whole history, so they are operators
of it and the only step appends a day. The rounding to hundredths, on which the
code compares, is `Hundredths`. One instance and one query are modelled; a
behaviour has data for one topic, since the marts read disjoint facts. Left out:
the volume axis of `mart_config_impact`, instances without a threshold, and the
per-instance overrides of the seeds, which only replace constants. Where the code
says "the last N days" the capacity mart's window has N+1, both ends included.

### MetabaseBootstrap

The state is Metabase's (account, connections, cards, dashboards; ids are
positions, names need not be unique) and one `op` per operator, whose `pc` names
the next call of `main`: health, login or setup, the connection, the wait for its
synchronisation, and then per dashboard its cards one by one and the dashboard,
made by a POST and filled by a PUT. Every call is a step. `Dies` covers a killed
script, an HTTP error and the timeout of `api`: the call at hand is not carried
out, or is, or goes to `late` and is carried out by `LateCall` at any time. A card's
SQL is the version of the script that wrote it, and each version has its own list of
cards for a dashboard (`Listed`): a newer script renames and adds cards. The
dashboards behind the first wait for the one table that the script names (`awaits`),
not for all that their cards read, and are skipped without it; the first does not
wait (`ensure_database` checks its marts, but only for a connection it has just
made).

`clean` (no two runs at once, no late call), `torn` (a dashboard whose POST was
carried out while its maker died before the PUT was) and `seen` of a run (the tables
that were visible when it took its connection) are history.

### Mutant operators

Before some definitions stands a variant marked `Mutant:`, with a plausible bug
in it. No next-state relation uses one. Substituted for the definition, it makes
TLC find the property violated that `PROJECT.json` names with it, which shows
that the property depends on that piece of the code.

## 3. The runs

| Run | Instance | Shows |
|---|---|---|
| `offload_rivals` | a task on 2 tables and the dimension, an operator's command on one of them, 1 instance, 2 rows, 2 days, 2 runs, the task's of 2 attempts, one table kept by count, the shared one for a day | `VanishedOnlyMidRewrite`, `NoDeleteWithoutRows` |
| `gate_primary` | full profile, 2 instances, 2 rows, 2 offload runs of 2 attempts, a retention of two days | `DoneMeansArchived`, `PassedDayIsArchived`, `NoEmptyDayPasses`, `WindowedRerunKeepsRows` |
| `gate_aux` | 2 tables with partial profiles, a rival command on one of them inside its window, while the other is kept by count and loses rows as it is copied, 1 instance, 2 rows, no schema drift | `GateTypeOK`, `EqualCountsMeanSameRows` |
| `dag_runs` | 2 instances, 1 auxiliary table, 3 days, 2 runs, transform retried, 1 full refresh, publications by hand | `HeartbeatMeansServed`, `OnlyRefreshShrinksDays`, `PublishedOnlyByWholeDay` |
| `aux_facts` | 2 instances, 3 days, 3 runs, 2 updates, a gap of 0 days, a retention of two days | `CopiesInTimeAreServed`, `BreachIsNotALag`, `ServedBackupsStay` |
| `lake_publish` | 2 marts, 1 reader, 3 ticks, 2 builds, 2 publications, 1 log row | `TypeOK`, `CatalogIsReadable`, `FreshReadersAreSafe`, `ImplementsServedLake` |
| `writeback_rivals` | 3 writers, 3 runs, 3 versions of which two have the same size | `ImplementsBaseline` |
| `deadman` | a day of 24 hours, deadline 26, 1 retry | `TypeOK`, `AlarmHasCause`, `SilentHourIsReported`, `SilenceIsHeard` |
| `counters` | 2 series, 3 days of 2 hours of 2 samples, 2 calls, 1 restart, 1 gap, a window of 2 days | `TypeOK`, `DayNeverOvercounts`, `HoursFitInDay`, `IndexVerdictIsJustified` |
| `marts` | every history of 6 days over 2 plans, 2 latencies, 4 sizes, windows of 1 to 3 days | `SlowerIsNotImproved`, `FlagMatchesDays`, `VerdictsBecomeFinal`, `BackupIsNotThePipeline` |
| `dashboards` | 2 operators, 2 dashboards, 2 runs, 2 versions of the script of which the second renames a card of one dashboard and adds one to the other, 1 late call | `TypeOK`, `BoardsAreEmptyOrWhole`, `NothingIsMadeTwice`, `RunLeavesItsScreens` |
| `dag_halfday` | 2 instances, 3 days, 2 runs; a violation is expected | a statement of the documentation that the code does not keep (section 6) |

Why the bounds are enough:

* two writers are what a partition can get (a task, and a command beside it):
  `offload_rivals` has them on one table, with crashes, retries and a source that
  expires meanwhile, `gate_aux` between the counts of a gate, and the theorems of
  section 5 cover any number of them;
* two rows tell a smaller read from a larger and an old row from a late one, one
  row in the morning and one in the evening cover both sides of the freshness
  thresholds;
* a day and the one behind it, on which it has expired or has not, are all the
  relations a day has to the calendar: in `offload_rivals` the retention of weeks is
  cut to a day, and one table of `gate_aux` is kept by count, so that rows go while
  they are copied; `gate_primary`, and the table of `gate_aux` that has a rival,
  stay inside the window, of which their properties speak;
* an attempt keeps nothing but the archive, so a run of two attempts and a second
  run of the day are all that more of them could repeat;
* with two runs of any of three days a day can fail its gate and another can take
  it along or overtake it; one full refresh can drop part of a day that is served;
  the properties of `dag_runs` are proved for every number of runs, retries and
  refreshes;
* in `aux_facts` three runs can copy a day, overtake it and copy it again, the
  two updates give it a backup and verify it, or give each instance one, and two
  days after it the source has forgotten the first; all its properties are proved
  without the bounds;
* two instances give a whole day, a half one and an empty one;
* in the lake, two publications are one that is replaced and one that replaces
  it, and the third tick lets a snapshot be older than the retention;
* versions of equal size show that the writeback's count alone does not tell
  them apart; three writers, that a writer can wait behind another that waits;
* the deadman has the code's own numbers; its state returns to itself, so the run
  covers every length of time;
* two calls tell a use from none and one place from another; three days are one
  inside the window of two, one at its edge and one that has left it; all that
  `counters` checks is proved without the bounds;
* two runs of the dashboard script are a run and its repetition or its rival, two
  cards the smallest dashboard that can get a wrong one, two dashboards the first,
  which is not skipped, and one that may be; rivals run the same version of the
  script, as one checkout does; one poll is as good as sixty, since
  synchronisation may come between any two or never;
* six days hold a flip with its whole windows on both sides and another flip at
  every distance from it; the sizes reach from below the threshold, at growths
  on either side of the 30 and 90 days, to above it.

`CHECK_DEADLOCK FALSE` is set everywhere but in `deadman`, since the bounds on
days and runs let the other models come to rest.

## 4. Fairness

One property is about what must happen in the end, `SilenceIsHeard` of `Deadman`:
however the pipeline stops, an alarm is delivered or a success comes first. Its
`FairSpec` assumes what the cron outside Airflow is there for, and no more:

* time passes, and again and again an hour begins while the cron's host lives
  (`[]<><<TickOnHost>>_vars`);
* now and then a check of it reaches the catalog (`SF` of `ReadHeartbeats`) and ends
  (`SF` of `Judge`): checks may fail, hang and die any number of times in between;
* now and then the post of a stale verdict gets through (`SF` of the delivered
  `JudgeStale`).

It also has the premise that the cron has a webhook: without one nothing is ever
delivered. Nothing is assumed of Airflow, which may be dead or paused for ever, and
nothing of the pipeline.

No other specification has fairness, because the code gives no ground for it. The
connections to source and catalog have a `connect_timeout` and nothing else
(`extract/config.py:25`), so a query that has begun may hang; no task has an
`execution_timeout`, so the scheduler waits for it, and with `max_active_runs=1`
every later day waits too; a transaction of the writeback has no statement or lock
timeout, so its rivals wait as long as its holder stalls; nothing restarts a
dashboard script that has died. That every run ends, that every task settles and
that every writer gets through are therefore not claimed: that a stopped pipeline
is noticed is the deadman's part.

## 5. What is proved

For every number of tables, instances, days, jobs, retries, runs, marts, readers,
writers, operators and dashboards, from the assumptions on the constants that each
module states (`ConstantsOK`, `GateConstantsOK`, `ClockOK`, `BoundsOK`,
`MartBoundsOK`) and no other, except where a hypothesis stands in the theorem:

| Theorem | Module | States |
|---|---|---|
| `TypeCorrect` | `OffloadGate_proofs` | `Spec => []TypeOK` |
| `HolesAreTorn` | `OffloadGate_proofs` | `Spec => []VanishedOnlyMidRewrite` |
| `EmptyReadsDestroyNothing` | `OffloadGate_proofs` | `Spec => NoDeleteWithoutRows` |
| `SuccessIsArchived` | `OffloadGate_proofs` | `OwnTables => (Spec => []DoneMeansArchived)` |
| `RerunsKeepRows` | `OffloadGate_proofs` | `OwnTables => (Spec => WindowedRerunKeepsRows)` |
| `GateTypeCorrect` | `OffloadGate_proofs` | `GateSpec => []GateTypeOK` |
| `GatedHolesAreTorn` | `OffloadGate_proofs` | `GateSpec => []VanishedOnlyMidRewrite` |
| `CountsStandForRows` | `OffloadGate_proofs` | `GateSpec => []EqualCountsMeanSameRows` |
| `PassedDaysAreArchived` | `OffloadGate_proofs` | `OwnTables => (GateSpec => []PassedDayIsArchived)` |
| `EmptyDaysAreBlocked` | `OffloadGate_proofs` | `OwnTables => (GateSpec => []NoEmptyDayPasses)` |
| `TypeCorrect` | `SnapshotDag_proofs` | `Spec => []TypeOK` |
| `DashboardsKeepDays` | `SnapshotDag_proofs` | `Spec => OnlyRefreshShrinksDays` |
| `PublishIsGated` | `SnapshotDag_proofs` | `Spec => PublishedOnlyByWholeDay` |
| `HeartbeatIsServed` | `SnapshotDag_proofs` | `Spec => []HeartbeatMeansServed` |
| `TypeCorrect` | `AuxFacts_proofs` | `Spec => []TypeOK` |
| `CopiesReachTheDashboards` | `AuxFacts_proofs` | `Spec => []CopiesInTimeAreServed` |
| `BreachHasNoCopy` | `AuxFacts_proofs` | `Spec => []BreachIsNotALag` |
| `BackupsStay` | `AuxFacts_proofs` | `Spec => ServedBackupsStay` |
| `TypeCorrect` | `DuckLake_proofs` | `Spec => []TypeOK` |
| `CatalogAlwaysReadable` | `DuckLake_proofs` | `Spec => []CatalogIsReadable` |
| `FreshReadersKeepTheirFiles` | `DuckLake_proofs` | `Spec => []FreshReadersAreSafe` |
| `LakeImplementsServedLake` | `DuckLake_proofs` | `Spec => ImplementsServedLake` |
| `TypeCorrect` | `Writeback_proofs` | `Spec => []TypeOK` |
| `WritebackImplementsBaseline` | `Writeback_proofs` | `MartsHaveRows => (Spec => ImplementsBaseline)` |
| `TypeCorrect` | `FactsAndMarts_proofs` | `Spec => []TypeOK` |
| `DaysAreNotOvercounted` | `FactsAndMarts_proofs` | `Spec => []DayNeverOvercounts` |
| `HoursAgreeWithDays` | `FactsAndMarts_proofs` | `Spec => []HoursFitInDay` |
| `IndexVerdictsAreJustified` | `FactsAndMarts_proofs` | `Spec => []IndexVerdictIsJustified` |
| `MartsTypeCorrect` | `FactsAndMarts_proofs` | `MartSpec => []MartTypeOK` |
| `VerdictsAreFinal` | `FactsAndMarts_proofs` | `MartSpec => VerdictsBecomeFinal` |
| `BackupsAreJudgedByTheFacts` | `FactsAndMarts_proofs` | `MartSpec => BackupIsNotThePipeline` |
| `SlowerQueriesAreNotImproved` | `FactsAndMarts_proofs` | `RatioMeansSlower => (MartSpec => []SlowerIsNotImproved)` |
| `FlagsMatchDays` | `FactsAndMarts_proofs` | `WindowIsShort => (MartSpec => []FlagMatchesDays)` |
| `TypeCorrect` | `Deadman_proofs` | `Spec => []TypeOK` |
| `AlarmsHaveCauses` | `Deadman_proofs` | `Spec => AlarmHasCause` |
| `SilentHoursAreReported` | `Deadman_proofs` | `Spec => SilentHourIsReported` |
| `TypeCorrect` | `MetabaseBootstrap_proofs` | `Spec => []TypeOK` |
| `BoardsAreWhole` | `MetabaseBootstrap_proofs` | `Spec => []BoardsAreEmptyOrWhole` |
| `RerunsMakeNothingTwice` | `MetabaseBootstrap_proofs` | `Spec => []NothingIsMadeTwice` |
| `RunsRepairScreens` | `MetabaseBootstrap_proofs` | `Spec => []RunLeavesItsScreens` |

Four hypotheses are in the statements because the code needs them:

* `OwnTables`: no table is walked by two jobs or twice by one. The DAG's tasks are
  like that (`offload` has the primary tables, `offload_aux` the others, one run at
  a time); an operator's command line beside them need not be, and then a success
  may be overwritten by the rival the moment after, and a rival with an older read
  may put fewer rows than there are. What holds with rivals is stated without it.
* `MartsHaveRows`: no version of the mart is empty. On an empty target the two
  DELETEs lock nothing and both counts agree (section 7).
* `RatioMeansSlower`: the regression ratio is above 1 (`plan_regress_ratio` is
  1.3; a seed may set another per instance). At 1 a query that is as fast as
  before is REGRESSED; the half of the property about IMPROVED does not need it.
* `WindowIsShort`: the capacity window has at most 200 days (`capacity_window_days`
  is 30). `mart_capacity_forecast` judges the slope it shows, rounded to hundredths
  of a byte per day; over a longer window two sizes that differ by one byte have a
  slope that rounds to zero and are called stable. The rest of the property does not
  need it.

Every inductive invariant below was checked by TLC on the constants of a run
before it was proved.

**RawOffload.** `VanishedOnlyMidRewrite` and `NoDeleteWithoutRows` are not
inductive: a put of nothing would open a hole that nobody explains, and a
deletion by a worker without rows would destroy a copy. What excludes both is
`HoldsRows`: a worker at `delete` or `put` holds rows, and one at `dim_delete` or
`dim_put` holds instances. It holds because `Fetch` is the only step that fills
the buffer, `Overwrite` the only one that leads to `delete`, and no other job
touches a worker's buffer. The inductive invariant is the conjunction of type,
`HoldsRows` and the property.

`RerunsKeepRows` needs what a worker knows about the source: inside the window the
source still has all that was ever copied (`WindowKept`), and so a worker of an
owned table holds at least what was written before it (`HoldsWritten`), also when
its predecessor died between deletion and put. `SuccessIsArchived` needs
that a report is of a partition which the walk has left behind
(`ReportsAreBehind`), so that what was reported is still there (`ReportsHold`).

**OffloadGate.** A step of the gate reads, so everything proved of `RawOffload`
holds behind it. `EqualCountsMeanSameRows` holds with any rivals: rows read from the
archive are among those the source has when it is counted later (`CountsAreBounded`,
from `WindowKept`), and a subset with as many elements is the whole set; that the
table compares them at all needs that source counts are of registered instances only
(`CountsAreRegistered`).

`PassedDayIsArchived` is about the archive itself, after the gate, and not about
what was read. Who has been registered since the gate began is in the registry it
read (`SteadyKnown`), and inside the window the source still has what it had then
(`SourceSince`), so that it is part of what was counted there (`CountedSince`).
With `OwnTables` the gate's own task is over (`GateFollows`) and what was counted
in the archive is what is there (`CountsAreCurrent`), so a table that passes has
it all, and keeps it while the next tables are judged (`ArchivedSoFar`).
`NoEmptyDayPasses` compares a count with a later query of the same objects and
needs the same.

**SnapshotDag.** The inductive invariant says how far along the chain a run is:

* `Chain`: a task that has begun or settled by itself has its upstream in
  `success`, so that the order of the DAG survives retries;
* `WholeAfterGate`: once the gate has passed, the day is whole in the archive and
  stays so, since only `offload` writes it and `Chain` says it is over;
* `BuiltAfterTransform`: once `transform` has succeeded, the day is whole in the
  facts, or a later day is there already;
* `ServedAfterPublish`: once `publish` has succeeded, the lake is the facts, since
  no build can follow in the same run;
* `LakeWithinFacts`: the lake has of a day what the facts have, and at most what
  full refreshes have dropped beside it, from which it follows that publishing
  takes nothing else away. A refresh between the tasks of a run does not undo what
  they have done, since the run's own day is whole in the archive it builds from.

**AuxFacts.** The properties speak of the dashboards and of copies long past; the
inductive invariant follows a backup on its way:

* `Descending`: source, archive, fact and dashboards never have more than the one
  before them, where the archive has the partition at all and the source has not
  forgotten the day (`Forgotten`), for what is forgotten is not copied again;
* `Carried`: a copy between its fetch and its put holds at least what it is about
  to replace and what the fact has, although the source may forget it meanwhile,
  so that no build in between can get ahead of it;
* `Reached`: a partition put in time is in the fact, or will be recomputed by the
  next build, because the newest day of the fact moves only with a build;
* `PublishedIsBuilt` and `AnchorBehind`: once a run has published, the dashboards
  have the fact as it is, and no anchor is newer than the archive.

`CopiesInTimeAreServed` is `Reached` seen through `PublishedIsBuilt`; a breach
needs an anchor that is past the copy by more than the gap, which `AnchorBehind`
excludes; `ServedBackupsStay` is `Descending` at the step of publish.

**DuckLake.** `Builds` says that every snapshot and every query's snapshot is of one
build, and that a build under way is newer than all of them, so that publishing it
is an abstract `Publish`. `FilesKept` is the invariant of the cleanup: files of kept
snapshots and of the open transaction are there and are not doomed; a doomed file is
of a publication that is over (`IsPast`), which is why the files a new one writes
cannot be among them. `ReadersKept` ties a query to the catalog or to its age. For
the refinement, each step but the publication's commit and the log's leaves
`BuildOf(Current)` and what the queries are on alone.

**Writeback.** The table holds the rows of one run and one version (`Whole`); at
most one transaction has deleted, and it has deleted everything (`Locks`); a
DELETE that waited has found what is still there, or rows that are all gone
(`Found`) - and then its count, which expects its own rows only, disagrees,
because with `MartsHaveRows` the rival's rows are there (`Ready`). So a commit
replaces one version by another, which is the abstract step; everything else
is a stutter.

**Deadman.** `RecentUnlessMissed` bounds the record's age by the hour of the day as
long as no run has missed its grace, which with the deadline of one period and the
grace keeps a healthy pipeline below it. `ReadIsCurrent`: what a check has read is
still so, or a success has come since. `DoneHasSaid`: in a silent hour a check
that nothing has kept from its end, and that is over, has posted or failed aloud, if
its watcher can; the hour does not end before such checks have. Nothing is proved of
an hour in which both watchers were kept from theirs.

**CounterFacts.** The facts sum over sets, so the laws of sums come first
(`FactsAndMarts_proofs`, from `Least` on): the library's induction theorems take an
operator, which the provers cannot instantiate, but a least counterexample is a fact
about a set of numbers, and `Induct` and `InductOnSubsets` are made of it. The
invariant then has three parts beside the types (`World`):

* `Tracks` and `Spans`: between any two samples of a series, or a sample and now, a
  counter has grown by no more than was called, and by no less unless a restart lies
  between;
* `Tables`: the incremental tables are what a rebuild of all built days from the
  samples would give. `Watermark` is the reason: the days that a night's run leaves
  out were built before, because days close in order and are built together.

An index verdict and a day's delta are `Spans` at the two ends of a day, for a
fingerprint summed over its series; the hours of a day telescope (`HoursHold`), each
beginning where the counters have not fallen below the end of the hour before.

**DayMarts.** Only the types need an invariant; the rest is about operators of the
history, and stands beside the counters because it adds up over sets too.

* The marts are stated as functions of a history of plans and latencies
  (`VerdictIn`, `ImpactIn`), so that two histories that agree up to a day can be
  compared: a flip is seen in the days before it (`FlipsAgree`), and a verdict looks
  no further than its window, a cause no further than the windows of its flips. A
  step writes no day but that of today (`PastStays`), so what has passed is final.
* If no latency before the flip is greater than one after it, there is a number
  between the two, and the averages lie on either side of it (`AveragesFollow`), for
  any numbers of days; two roundings to hundredths, of the ratio and of the inverse
  of the threshold, do not bring them together (`RoundsUp`, `Improvement`).
* The numerator and the denominator of a slope are of one form (`Spread`), and a
  point adds to it the products of its distances from the others (`SpreadStep`).
  Distances in time are positive, and so are those of a size that grows, so both are
  positive and the slope is at least one byte per window (`GrowthSpreads`). Flag and
  days are then two ways to divide the same bytes by the same slope.

**MetabaseBootstrap.** What holds at all times is a contract between the calls and
the server: every call under way, of a run or of a client that has given up, is
one that Metabase can carry out now without hurting what is there (`Legal`), and
it stays so until it is carried out, because Metabase only grows (`Grows`). That
takes care of late calls and rival operators. A dashboard is whole when it has the
list of some version (`Whole`), and a run knows the list of its own
(`RunVersion`). While runs do not meet (`clean`), the only run knows more: what it
is about to make is not there (`Missing`), the dashboards behind it whose tables
it has seen are as it leaves them (`Behind`), and an empty one is the one at hand
or torn (`Empties`).

**Only model-checked.** `SilenceIsHeard`, since liveness under fairness needs
`ENABLED`, which the prover does not handle. `SnapshotDag`'s `NoMartOnHalfDay` is
refuted, not proved (section 6). Every other property of the passing runs is
proved.

## 6. Where code and documentation part

With a run that shows it:

* `dag_halfday`: no mart is built on half of the data
  (`dags/snapshot_offload.py:13`). The day that failed its gate stays in the
  archive, and the next run's watermark takes it along.

Read off the code while modelling it, without a run of their own:

* the same day may be run again "any number of times" with the same number of
  rows (`extract/offload.py:8`, `docs/RUNBOOK.md:95`). The guard against
  self-destruction looks only at an empty source; one row left in the source is
  enough to replace a full object. `WindowedRerunKeepsRows` states what does
  hold.
* "skip" is for "a day on which there really is nothing"
  (`extract/offload.py:139`). It is taken too for a partition that a dead
  attempt has deleted and that the source has expired since.
* the auxiliary branch must not starve the heartbeat
  (`dags/snapshot_offload.py:219`). While an auxiliary table has never had a
  file, dbt fails for the main branch too (`AuxReadable`).
* the watch list of `extract/deadman.py:22` names `ducklake_maintenance`, a DAG
  that writes no heartbeat: watched, it would alarm every hour for ever.
* reconciliation is to detect lost, doubled and partial loads
  (`extract/quality.py:8`). For `backup_run` it says that as many rows are
  archived as the source has; their later columns (`extract/tables.py:83`) change
  after the copy and no count tells; `EqualCountsMeanSameRows` is about the ids of
  rows.
* sums over 90 days are said not to be shaken by restarts
  (`mart_index_verdict.sql:17`). A restart between the samples of a day clamps
  that day's use to zero; `IndexVerdictIsJustified` names the two ways in which a
  used index is still proposed for removal.
* the dashboard script makes everything "from an empty Metabase", idempotently
  (`scripts/metabase_bootstrap.py:3`). A dashboard whose run died between the POST
  and the PUT is found by name by all later runs and stays empty
  (`RunLeavesItsScreens` leaves out exactly these, `torn`).
* `ensure_database` "waits until the schema is synchronised"
  (`scripts/metabase_bootstrap.py:134`). A connection that is there is reused
  without waiting and without the check for missing marts, so the run
  after one that died on that check makes its cards on tables nobody sees. The
  later dashboards wait for one table each, while their cards read several
  (lines 304-331 and 377-402), so these may be missing too.
* "the code is the truth" (`scripts/metabase_bootstrap.py:445`): running the
  script again brings the cards to what it says now, but a dashboard of the name
  is reused as it is (lines 336-339, 407-410, 479-482 and 504-507), so a card that
  a newer version adds or renames is made and never shown on it.
* a verification that comes late is said to be reflected by the extraction of the
  next day (`models/sources.yml:106`, `fct_backup_daily.sql:1`). The DAG copies
  the day of its own run only, so a later verification reaches the archive only if
  somebody runs the day again, and the fact only if it is not past that day
  (`late`). `docs/CONTRACT.md:29` says so.
* the anchor of `mart_backup_rpo` is to tell a stopped pipeline from a stopped
  backup. It does for the whole pipeline (`BackupIsNotThePipeline`); when only the
  auxiliary branch stops, the gap grows although the backups go on.
  `BreachIsNotALag` holds for copies in time and for nothing more.

## 7. Limits of the models

* `NoEmptyDayPasses` is for a gate whose day nobody rewrites. With an empty
  registry and a rival's put between the counts and `max(captured_at)` a day
  counted as empty passes; `gate_aux`, which has a rival, leaves it out.
  `PassedDayIsArchived` is for such a gate too, as a rival may put fewer rows the
  moment after the counts, and only for rows that are inside the window: the source
  is free to forget the others.
* Calls may hang, and no property says that they do not (section 4): a run that
  never ends holds up every later day, and only the deadman tells of it.
* `ImplementsBaseline` is checked with marts that have rows. On an empty target
  two writers lock nothing, both counts agree and two baselines are committed.
  The types of `Writeback` are proved and have no run of their own.
* `FreshReadersAreSafe` bounds the age of a query's snapshot, not of the query. A
  snapshot that has been the newest for longer than the retention and is replaced
  while a query is on it loses its files at the next maintenance, however young
  the query is: the cleanup has no grace period.
* A publication between the maintenance's two measurements raises the alarm for
  lost rows although nothing is lost (`Compare`; both DAGs are scheduled for
  midnight). `ImplementsServedLake` shows that it never is the maintenance's
  own doing; that the alarm is false is not a property here.
* `SnapshotDag` has no operator who reloads a day beside the DAG: `RawOffload` and
  `OffloadGate` have. The full refresh is in `SnapshotDag` only, not in `AuxFacts`
  and `CounterFacts`, and the publication by hand not in `DuckLake`, whose
  publications do not ask who starts them.
* `DayNeverOvercounts` needs the two ends of a day to report the same series: one
  that appears between them adds its whole count. `HoursFitInDay` needs a day
  without restart and gap.
* `AlarmHasCause` lets pass an alarm about a record that was replaced in the very
  hour of the check.
* `NothingIsMadeTwice` and `RunLeavesItsScreens` are for scripts that run one after
  the other and calls that end with their client (`clean`): two operators at once
  do make twins, since nothing in Metabase or the script makes look-up and POST one
  step. `BoardsAreEmptyOrWhole` holds all the same.
* `RunLeavesItsScreens` says of a dashboard's cards that they are made and current,
  not that the dashboard shows them (section 6), and of a later dashboard only if
  what it waits for was visible when the run took its connection.
* `MetabaseBootstrap` has no one who changes dashboards by hand, and a connection's
  credentials are not told apart.
* `AuxFacts` has one auxiliary fact; a day of an instance is one number, so that
  several backups of a day are not told apart.
* Not modelled, with reasons in `PROJECT.json`: count verifier and configuration
  (read-only), the ACID demonstration, the host pipeline, marts that only rank and
  sum, fixtures and measurements, deployment.

## 8. Plan

Done: the extraction loop, the gate, the DAG and its auxiliary branch, the lake
and the writeback with their abstract specifications, the deadman, the counter
facts, the marts on days and the dashboard script; proofs of all their safety
properties and of both refinements. Next: `CatalogBootstrap` for `ducklake_load` and
the several days of `run_pipeline`; `mart_uptime_slo`, `mart_query_regression` and
`mart_baseline_longterm` beside the other marts.

The suite is kept at a dozen runs so that all of it can be checked at once;
a new component joins an existing run or replaces one.
