---------------------------- MODULE OffloadGate ----------------------------
(***************************************************************************)
(* RawOffload with the quality gate behind it, as the DAG chains them:     *)
(* quality_gate(offload()) and quality_gate_aux(offload_aux()).  The gate  *)
(* reads the registry, the schema, the archive and the source one query at *)
(* a time, and everything RawOffload lets happen (late rows, sweeps, an    *)
(* operator rewriting the same partitions) may happen between two queries. *)
(***************************************************************************)
EXTENDS RawOffload, QualityGate, FiniteSets

CONSTANTS
  GateJob,    \* the offload task the gate follows
  Profile,    \* Profile[t]: GateProfile of table t
  Gap,        \* Gap[r]: hours from row r to the end of its day
  Schemas,    \* column-to-type functions the source may have
  Expected    \* the extraction contract, one of them

ASSUME GateConstantsOK ==
  /\ GateJob \in Jobs
  /\ Profile \in [Tables -> Profiles]
  /\ Gap \in [Rows -> Nat]
  /\ Expected \in Schemas
  /\ IsFiniteSet(Rows)

VARIABLES
  gpc,      \* where the gate is
  gday,     \* the day it judges
  gtab,     \* index in JobTables[GateJob] of the table it judges
  greg,     \* the registry as it read it
  gdrift,   \* the schema axis
  gpq,      \* gpq[i]: archived rows it counted
  gpg,      \* gpg[i]: source rows it counted
  gtodo,    \* instances whose source rows are still to count
  verdicts, \* what was read for the tables that have passed so far in this run
  gsteady,  \* history: instances registered ever since the gate began
  gsource   \* history: the source when the gate began

gateVars == <<gpc, gday, gtab, greg, gdrift, gpq, gpg, gtodo, verdicts, gsteady, gsource>>
pastVars == <<gsteady, gsource>>
allVars  == <<vars, gateVars>>

GateTable == JobTables[GateJob][gtab]

Counted(seen) == [i \in Instances |-> Cardinality(seen[i])]

Nothing == [i \in Instances |-> {}]

NoSource == [p \in Part |-> {}]

\* Hours from the newest row of the archived day to its end.
GapOf(d) ==
  LET present == UNION {archive[<<GateTable, i, d>>] : i \in Instances}
  IN  IF present = {} THEN NoCapture
      ELSE Gap[CHOOSE r \in present : \A x \in present : x <= r]

GateTypeOK ==
  /\ TypeOK
  /\ gpc \in {"idle", "registry", "schema", "parquet", "source", "verdict",
              "passed", "blocked"}
  /\ gday \in Days
  /\ gtab \in 1..Len(JobTables[GateJob])
  /\ greg \subseteq Instances
  /\ gdrift \in Statuses
  /\ gpq \in [Instances -> SUBSET Rows]
  /\ gpg \in [Instances -> SUBSET Rows]
  /\ gtodo \subseteq Instances
  /\ gsteady \subseteq Instances
  /\ gsource \in [Part -> SUBSET Rows]

GateInit ==
  /\ Init
  /\ gpc = "idle" /\ gday = 0 /\ gtab = 1
  /\ greg = {} /\ gdrift = SKIP
  /\ gpq = Nothing /\ gpg = Nothing /\ gtodo = {}
  /\ verdicts = {}
  /\ gsteady = {} /\ gsource = NoSource

\* Mutant: "yesterday" is taken twice.
GateStartDayBefore ==
  /\ gpc \in {"idle", "passed", "blocked"}
  /\ pc[GateJob] = "done"
  /\ gpc' = "registry"
  /\ gday' = day[GateJob] - 1
  /\ gtab' = 1
  /\ verdicts' = {}
  /\ gsteady' = registry /\ gsource' = source
  /\ UNCHANGED <<vars, greg, gdrift, gpq, gpg, gtodo>>

\* The gate task starts when its offload task has succeeded, on its day.
GateStart ==
  /\ gpc \in {"idle", "passed", "blocked"}
  /\ pc[GateJob] = "done"
  /\ gpc' = "registry"
  /\ gday' = day[GateJob]
  /\ gtab' = 1
  /\ verdicts' = {}
  /\ gsteady' = registry /\ gsource' = source
  /\ UNCHANGED <<vars, greg, gdrift, gpq, gpg, gtodo>>

\* Mutant: the archive is asked for the instances instead of the source.
ReadRegistryOfArchive ==
  /\ gpc = "registry"
  /\ greg' = {i \in Instances : archive[<<GateTable, i, gday>>] # {}}
  /\ gpc' = "schema"
  /\ UNCHANGED <<vars, gday, gtab, gdrift, gpq, gpg, gtodo, verdicts, pastVars>>

ReadRegistry ==
  /\ gpc = "registry"
  /\ greg' = registry
  /\ gpc' = "schema"
  /\ UNCHANGED <<vars, gday, gtab, gdrift, gpq, gpg, gtodo, verdicts, pastVars>>

ReadSchema ==
  /\ gpc = "schema"
  /\ \E s \in Schemas : gdrift' = SchemaDrift(s, Expected)
  /\ gpc' = "parquet"
  /\ UNCHANGED <<vars, gday, gtab, greg, gpq, gpg, gtodo, verdicts, pastVars>>

\* No object under the glob is an empty result, not an error.
CountParquet ==
  /\ gpc = "parquet"
  /\ gpq' = [i \in Instances |-> archive[<<GateTable, i, gday>>]]
  /\ gpg' = Nothing
  /\ gtodo' = IF Profile[GateTable].reconciliation THEN greg ELSE {}
  /\ gpc' = "source"
  /\ UNCHANGED <<vars, gday, gtab, greg, gdrift, verdicts, pastVars>>

\* One count query per registered instance, in the order of the registry.
CountSource ==
  /\ gpc = "source"
  /\ gtodo # {}
  /\ \E i \in gtodo :
       /\ \A k \in gtodo : i <= k
       /\ gpg' = [gpg EXCEPT ![i] = source[<<GateTable, i, gday>>]]
       /\ gtodo' = gtodo \ {i}
  /\ UNCHANGED <<vars, gpc, gday, gtab, greg, gdrift, gpq, verdicts, pastVars>>

\* What evaluate has read for a table is gone when it returns.
Return ==
  /\ greg' = {} /\ gdrift' = SKIP /\ gpq' = Nothing /\ gpg' = Nothing /\ gtodo' = {}
  /\ UNCHANGED <<vars, gday>>

\* The task ends in an exception; it has no retries.
Stop ==
  /\ gpc' = "blocked"
  /\ gsteady' = {} /\ gsource' = NoSource
  /\ UNCHANGED <<gtab, verdicts>>

\* max(captured_at) is a query of its own; then the table is judged.  The
\* task raises at the first blocked table and goes on to the next otherwise.
Judge ==
  /\ gpc = "source"
  /\ gtodo = {}
  /\ LET report == Report(Profile[GateTable], greg, Counted(gpg), Counted(gpq),
                          GapOf(gday), gdrift)
     IN  \/ Blocked(report) /\ Stop
         \/ /\ ~Blocked(report)
            /\ verdicts' = verdicts \cup {[table |-> GateTable, pq |-> gpq, pg |-> gpg]}
            /\ IF gtab < Len(JobTables[GateJob])
                 THEN gpc' = "registry" /\ gtab' = gtab + 1
               ELSE gpc' = "passed" /\ gtab' = gtab
            /\ UNCHANGED pastVars
  /\ Return

\* A query fails.
GateError ==
  /\ gpc \in {"registry", "schema", "parquet", "source"}
  /\ Stop
  /\ Return

\* The DAG has one run at a time: its offload does not start again while the
\* gate of the run is at work.  When it does, the history is of no use any more.
Upstream ==
  /\ Next
  /\ gpc \notin {"idle", "passed", "blocked"} => pc'[GateJob] = pc[GateJob]
  /\ \/ /\ pc'[GateJob] = pc[GateJob]
        /\ gsteady' = gsteady \cap registry' /\ gsource' = gsource
     \/ /\ pc'[GateJob] # pc[GateJob]
        /\ gsteady' = {} /\ gsource' = NoSource
  /\ UNCHANGED <<gpc, gday, gtab, greg, gdrift, gpq, gpg, gtodo, verdicts>>

GateNext ==
  \/ Upstream
  \/ GateStart \/ ReadRegistry \/ ReadSchema \/ CountParquet \/ CountSource
  \/ Judge \/ GateError

GateSpec == GateInit /\ [][GateNext]_allVars

-----------------------------------------------------------------------------
(* Properties. *)

FullProfile(t) == \A a \in DOMAIN Profile[t] : Profile[t][a]

\* Behind a gate that has passed, and until its offload starts over, the archive
\* has a partition of every instance that has been registered since the gate
\* began, where the profile asks for completeness; and, where it asks for
\* reconciliation and the source still keeps the day, every row that the source
\* had when the gate began: registry, archive and source are read one after
\* another, while late rows arrive and instances come and go (evaluate).
\* For a gate that nobody rewrites the day under: see the README.
PassedDayIsArchived ==
  gpc = "passed" =>
    \A k \in 1..Len(JobTables[GateJob]), i \in gsteady :
      LET t == JobTables[GateJob][k]
          p == <<t, i, gday>>
      IN  /\ Profile[t].completeness => archive[p] # {}
          /\ /\ Profile[t].reconciliation
             /\ Retention[t] # 0 /\ today - gday < Retention[t]
             => gsource[p] \subseteq archive[p]

\* A day without a row never passes, not even with an empty registry, where
\* counts and instances agree on nothing (check_freshness without a parquet).
\* For a gate that nobody rewrites the day under: see the README.
NoEmptyDayPasses ==
  \A v \in verdicts : FullProfile(v.table) => \E i \in Instances : v.pq[i] # {}

\* Reconciliation compares counts.  While a table is kept by age and the day
\* is inside its window, equal counts mean the same rows, whoever rewrites the
\* partition between the two counts: a lost row and a late one do not cancel out.
\* Rows are told apart by their ids; that the columns of a backup_run change
\* later is modelled in AuxFacts and no count can tell.
EqualCountsMeanSameRows ==
  \A v \in verdicts :
    /\ Profile[v.table].reconciliation
    /\ Retention[v.table] # 0
    /\ today - gday < Retention[v.table]
    => v.pq = v.pg
=============================================================================
