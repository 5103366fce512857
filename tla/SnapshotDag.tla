----------------------------- MODULE SnapshotDag -----------------------------
(***************************************************************************)
(* The daily pipeline dags/snapshot_offload.py as the scheduler runs it:   *)
(*                                                                         *)
(*   offload -> quality_gate -> transform -> publish -> heartbeat          *)
(*   offload_aux -> quality_gate_aux                   \-> writeback       *)
(*                                                                         *)
(* One run at a time (max_active_runs=1) copies one closed day, judges it, *)
(* builds the incremental facts from the archive and publishes them to the *)
(* lake that the dashboards read.  The two branches of a run share nothing *)
(* but the archive, and runs share everything: a run that failed leaves    *)
(* its files and facts to the next.                                        *)
(*                                                                         *)
(* A day of query_snapshot is abstracted to the set of instances that have *)
(* rows in it; RawOffload has the offload loop itself and OffloadGate the  *)
(* gate's queries.                                                         *)
(***************************************************************************)
EXTENDS Integers

CONSTANTS
  Instances,    \* the registered instances
  AuxTables,    \* AUX_TABLES of extract/tables.py and dim_instance
  LastDay,      \* bound: the calendar stops at this day
  Window,       \* days the source keeps a day after it has closed
  Retries,      \* Retries[t]: retries of task t
  MaxRuns,      \* bound: runs started in all
  MaxRefreshes  \* bound: full refreshes in all

Days == 0..LastDay

Tasks == {"offload", "quality_gate", "transform", "publish", "heartbeat",
          "writeback", "offload_aux", "quality_gate_aux"}

\* Mutant: the heartbeat takes the result of transform.
WiresPastPublish ==
  {<<"offload", "quality_gate">>, <<"quality_gate", "transform">>,
   <<"transform", "publish">>, <<"transform", "heartbeat">>,
   <<"publish", "writeback">>, <<"offload_aux", "quality_gate_aux">>}

\* The wiring of the DAG: <<t, u>> when u takes the result of t.
Wires == {<<"offload", "quality_gate">>, <<"quality_gate", "transform">>,
          <<"transform", "publish">>, <<"publish", "heartbeat">>,
          <<"publish", "writeback">>, <<"offload_aux", "quality_gate_aux">>}

Upstream(t) == {u \in Tasks : <<u, t>> \in Wires}

ASSUME ConstantsOK ==
  /\ Instances # {}
  /\ LastDay \in Nat
  /\ Window \in Nat
  /\ Retries \in [Tasks -> Nat]
  /\ MaxRuns \in Nat /\ MaxRefreshes \in Nat

VARIABLES
  today,    \* the current UTC day
  source,   \* source[d]: instances with rows of day d in the source
  raw,      \* raw[d]: instances with an object under raw/query_snapshot/dt=d
  aux,      \* auxiliary tables with at least one object of any day
  fct,      \* fct[d]: instances of day d in fct_query_daily (DuckDB file)
  lake,     \* lake[d]: the same in the published copy (DuckLake)
  dropped,  \* history: dropped[d]: what full refreshes have taken from fct[d]
            \* since the last publication
  beats,    \* days recorded in pipeline_heartbeat so far
  day,      \* the logical date of the run
  st,       \* the state of each task of the run
  tries,    \* failed attempts of each task of the run
  runs,     \* runs started so far
  refreshes \* full refreshes so far

dataVars == <<source, raw, aux, fct, lake, dropped, beats>>
vars     == <<today, dataVars, day, st, tries, runs, refreshes>>

Settled == {"none", "success", "failed", "upstream_failed"}
States  == Settled \cup {"scheduled", "running"}

TypeOK ==
  /\ today \in Days
  /\ source \in [Days -> SUBSET Instances]
  /\ raw \in [Days -> SUBSET Instances]
  /\ aux \subseteq AuxTables
  /\ fct \in [Days -> SUBSET Instances]
  /\ lake \in [Days -> SUBSET Instances]
  /\ dropped \in [Days -> SUBSET Instances]
  /\ beats \subseteq Days
  /\ day \in Days
  /\ st \in [Tasks -> States]
  /\ tries \in [Tasks -> Nat]
  /\ runs \in Nat /\ refreshes \in Nat

Nothing == [d \in Days |-> {}]

Init ==
  /\ today = 0
  /\ source = Nothing /\ raw = Nothing /\ aux = {}
  /\ fct = Nothing /\ lake = Nothing /\ dropped = Nothing /\ beats = {}
  /\ day = 0
  /\ st = [t \in Tasks |-> "none"]
  /\ tries = [t \in Tasks |-> 0]
  /\ runs = 0 /\ refreshes = 0

-----------------------------------------------------------------------------
(* Time and the source, outside this repository. *)

Tick ==
  /\ today < LastDay
  /\ today' = today + 1
  /\ UNCHANGED <<dataVars, day, st, tries, runs, refreshes>>

\* The collector of some instance delivers a day, on the day or the day after.
Collect ==
  /\ \E d \in {today, today - 1} \cap Days, i \in Instances :
       /\ i \notin source[d]
       /\ source' = [source EXCEPT ![d] = @ \cup {i}]
  /\ UNCHANGED <<today, raw, aux, fct, lake, dropped, beats, day, st, tries, runs, refreshes>>

\* The source drops a day that has left its window.
Sweep ==
  /\ \E d \in Days :
       /\ today - d > Window
       /\ source[d] # {}
       /\ source' = [source EXCEPT ![d] = {}]
  /\ UNCHANGED <<today, raw, aux, fct, lake, dropped, beats, day, st, tries, runs, refreshes>>

-----------------------------------------------------------------------------
(* The scheduler. *)

\* A run of a closed day, by the schedule, by Clear or by a backfill, when no
\* other run is active.
StartRun ==
  /\ \A t \in Tasks : st[t] \in Settled
  /\ runs < MaxRuns
  /\ \E d \in Days : d < today /\ day' = d
  /\ st' = [t \in Tasks |-> "scheduled"]
  /\ tries' = [t \in Tasks |-> 0]
  /\ runs' = runs + 1
  /\ UNCHANGED <<today, dataVars, refreshes>>

\* Mutant: trigger_rule all_done.
ReadyWhenDone(t) ==
  \A u \in Upstream(t) : st[u] \in {"success", "failed", "upstream_failed"}

\* A task is queued when everything upstream of it has succeeded (all_success).
Ready(t) == \A u \in Upstream(t) : st[u] = "success"

Begin(t) ==
  /\ st[t] = "scheduled"
  /\ Ready(t)
  /\ st' = [st EXCEPT ![t] = "running"]
  /\ UNCHANGED <<today, dataVars, day, tries, runs, refreshes>>

Propagate(t) ==
  /\ st[t] = "scheduled"
  /\ \E u \in Upstream(t) : st[u] \in {"failed", "upstream_failed"}
  /\ st' = [st EXCEPT ![t] = "upstream_failed"]
  /\ UNCHANGED <<today, dataVars, day, tries, runs, refreshes>>

Succeeds(t) ==
  /\ st[t] = "running"
  /\ st' = [st EXCEPT ![t] = "success"]
  /\ UNCHANGED <<today, day, tries, runs, refreshes>>

\* An exception, a timeout or a dead worker: retried while retries are left.
Fails(t) ==
  /\ st[t] = "running"
  /\ tries' = [tries EXCEPT ![t] = @ + 1]
  /\ st' = [st EXCEPT ![t] = IF tries[t] < Retries[t] THEN "scheduled" ELSE "failed"]
  /\ UNCHANGED <<today, day, runs, refreshes>>

-----------------------------------------------------------------------------
(* The tasks. *)

\* Every instance with rows is overwritten; one without rows is skipped, and
\* the attempt fails if it has an object (ArchiveSelfDestructError).
Offload ==
  /\ raw[day] \subseteq source[day]
  /\ Succeeds("offload")
  /\ raw' = [raw EXCEPT ![day] = source[day]]
  /\ UNCHANGED <<source, aux, fct, lake, dropped, beats>>

\* A failed attempt has written some partitions, and may have deleted one
\* without putting it back.
OffloadFails ==
  /\ Fails("offload")
  /\ \E done \in SUBSET source[day] :
       \/ raw' = [raw EXCEPT ![day] = @ \cup done]
       \/ \E i \in source[day] : raw' = [raw EXCEPT ![day] = (@ \cup done) \ {i}]
  /\ UNCHANGED <<source, aux, fct, lake, dropped, beats>>

\* completeness and reconciliation, on the day of the run and no other.
GateCanPass == raw[day] = Instances /\ source[day] = Instances

QualityGate ==
  /\ GateCanPass
  /\ Succeeds("quality_gate")
  /\ UNCHANGED dataVars

\* Any axis FAILs (late rows, drift and freshness are not told apart here), or
\* one of its queries does.
QualityGateFails ==
  /\ Fails("quality_gate")
  /\ UNCHANGED dataVars

\* The watermark of an incremental model: a day is recomputed unless a later
\* one is in the table already (dt >= max(dt); all days when there is none).
Recomputed(d) == \A e \in Days : fct[e] # {} => d >= e

\* Mutant: the rows behind the watermark replace the table.
BuildFctOnly ==
  fct' = [d \in Days |-> IF Recomputed(d) THEN fct[d] \cup raw[d] ELSE {}]

\* dbt run of fct_query_daily: delete+insert replaces the keys that the
\* archive has and leaves the others.
BuildFct ==
  fct' = [d \in Days |-> IF Recomputed(d) THEN fct[d] \cup raw[d] ELSE fct[d]]

\* A model over read_parquet of a glob that no file matches is an error.
AuxReadable == aux = AuxTables

Transform ==
  /\ AuxReadable
  /\ Succeeds("transform")
  /\ BuildFct
  /\ UNCHANGED <<source, raw, aux, lake, dropped, beats>>

\* One model or test that fails fails the task; what dbt has built by then
\* stays in the DuckDB file.
TransformFails ==
  /\ Fails("transform")
  /\ BuildFct \/ UNCHANGED fct
  /\ UNCHANGED <<source, raw, aux, lake, dropped, beats>>

\* All marts, in one DuckLake transaction.
PublishMarts == lake' = fct /\ dropped' = Nothing

Publish ==
  /\ Succeeds("publish")
  /\ PublishMarts
  /\ UNCHANGED <<source, raw, aux, fct, beats>>

\* A dead worker may die after the COMMIT as well as before it.
PublishFails ==
  /\ Fails("publish")
  /\ PublishMarts \/ UNCHANGED <<lake, dropped>>
  /\ UNCHANGED <<source, raw, aux, fct, beats>>

Heartbeat ==
  /\ Succeeds("heartbeat")
  /\ beats' = beats \cup {day}
  /\ UNCHANGED <<source, raw, aux, fct, lake, dropped>>

HeartbeatFails ==
  /\ Fails("heartbeat")
  /\ beats' \in {beats, beats \cup {day}}
  /\ UNCHANGED <<source, raw, aux, fct, lake, dropped>>

\* The auxiliary tables that have rows on this day get an object each.
OffloadAux ==
  /\ Succeeds("offload_aux")
  /\ \E tables \in SUBSET AuxTables : aux' = aux \cup tables
  /\ UNCHANGED <<source, raw, fct, lake, dropped, beats>>

OffloadAuxFails ==
  /\ Fails("offload_aux")
  /\ \E tables \in SUBSET AuxTables : aux' = aux \cup tables
  /\ UNCHANGED <<source, raw, fct, lake, dropped, beats>>

\* The auxiliary gate and the writeback change nothing that is modelled here.
Leaf(t) ==
  /\ t \in {"quality_gate_aux", "writeback"}
  /\ Succeeds(t)
  /\ UNCHANGED <<dataVars, tries>>

LeafFails(t) ==
  /\ t \in {"quality_gate_aux", "writeback"}
  /\ Fails(t)
  /\ UNCHANGED dataVars

-----------------------------------------------------------------------------
(* What the runbook has an operator do by hand, beside the DAG. *)

\* All days from what the build finds in the archive.  While the offload is at
\* work, a partition of its day may be the old one or the new, and the one it is
\* rewriting may be missing.
BuildAnew ==
  \/ st["offload"] # "running" /\ fct' = raw
  \/ /\ st["offload"] = "running"
     /\ \E done \in SUBSET source[day], gone \in {{}} \cup {{i} : i \in source[day]} :
          fct' = [raw EXCEPT ![day] = (@ \cup done) \ gone]

\* dbt run --select fct_query_daily+ --full-refresh.
FullRefresh ==
  /\ refreshes < MaxRefreshes
  /\ refreshes' = refreshes + 1
  /\ BuildAnew
  /\ dropped' = [d \in Days |-> dropped[d] \cup (fct[d] \ fct'[d])]
  /\ UNCHANGED <<today, source, raw, aux, lake, beats, day, st, tries, runs>>

\* python -m extract.publish_marts.
PublishByHand ==
  /\ PublishMarts
  /\ UNCHANGED <<today, source, raw, aux, fct, beats, day, st, tries, runs, refreshes>>

-----------------------------------------------------------------------------

Scheduler(t) == Begin(t) \/ Propagate(t)

Main ==
  \/ Offload \/ OffloadFails \/ QualityGate \/ QualityGateFails
  \/ Transform \/ TransformFails \/ Publish \/ PublishFails
  \/ Heartbeat \/ HeartbeatFails

Branch == OffloadAux \/ OffloadAuxFails

Operator == FullRefresh \/ PublishByHand

Next ==
  \/ Tick \/ Collect \/ Sweep \/ StartRun
  \/ Main \/ Branch \/ Operator
  \/ \E t \in Tasks : Scheduler(t) \/ Leaf(t) \/ LeafFails(t)

Spec == Init /\ [][Next]_vars

-----------------------------------------------------------------------------
(* Properties. *)

\* What the dashboards show of a day shrinks only by what a full refresh since
\* the last publication has dropped: not when a dead offload has torn the
\* archive under it, not when the source has forgotten the day, not when an
\* older day is run again (delete+insert behind the watermark).
OnlyRefreshShrinksDays ==
  [][\A d \in Days : lake[d] \ lake'[d] \subseteq dropped[d]]_vars

\* A run changes the lake only when its own day is whole in the archive: the
\* gate's verdict still holds when publish comes, however many attempts the
\* tasks between them took (fail-closed order of the DAG), and whatever an
\* operator rebuilds and publishes meanwhile.
PublishedOnlyByWholeDay ==
  [][Publish \/ (PublishFails /\ lake' # lake) =>
       raw[day] = Instances /\ st["quality_gate"] = "success"]_vars

\* When a run has recorded its heartbeat, its day is complete on the dashboards,
\* unless they had moved on to a later day.
HeartbeatMeansServed ==
  st["heartbeat"] = "success" /\ (\A d \in Days : d > day => lake[d] = {}) =>
    lake[day] = Instances

\* dags/snapshot_offload.py:11-13 says that behind a FAIL no mart is built on
\* data of which half is missing.
NoMartOnHalfDay ==
  \A d \in Days : lake[d] \in {{}, Instances}
=============================================================================
