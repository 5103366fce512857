---------------------------- MODULE QualityGate ----------------------------
(***************************************************************************)
(* The verdict of extract/quality.py as operators: four axes, a profile    *)
(* that may switch an axis off, and the status of a day's report.  Counts  *)
(* are functions from instances to naturals; 0 stands for "no key", since  *)
(* neither _pg_counts nor _parquet_counts ever keeps a zero.               *)
(***************************************************************************)
EXTENDS Integers

CONSTANTS
  FreshnessWarnHours,   \* QUALITY_FRESHNESS_WARN_HOURS
  FreshnessFailHours    \* QUALITY_FRESHNESS_FAIL_HOURS

ASSUME FreshnessOK ==
  /\ FreshnessWarnHours \in Nat
  /\ FreshnessFailHours \in Nat

OK   == "OK"
WARN == "WARN"
FAIL == "FAIL"
SKIP == "SKIP"
Statuses == {OK, WARN, FAIL, SKIP}

\* Stands for "no parquet to take max(captured_at) of" (None in the code).
NoCapture == -1

\* GateProfile: which axes are measured.
Profiles == [reconciliation : BOOLEAN, completeness : BOOLEAN,
             freshness : BOOLEAN, schema_drift : BOOLEAN]

\* Mutant: fewer rows in parquet than in the source are let through.
ReconciliationAtMost(pg, pq) ==
  IF \A i \in DOMAIN pg : pq[i] <= pg[i] THEN OK ELSE FAIL

\* Rows in the source and rows in parquet agree, instance by instance.
Reconciliation(pg, pq) ==
  IF \A i \in DOMAIN pg : pg[i] = pq[i] THEN OK ELSE FAIL

\* Every registered instance has rows in the day's partition.
Completeness(reg, pq) ==
  IF \A i \in reg : pq[i] > 0 THEN OK ELSE FAIL

\* Mutant: nothing archived is nothing to complain about.
FreshnessWithoutRows(gap) ==
  IF gap > FreshnessFailHours THEN FAIL
  ELSE IF gap > FreshnessWarnHours THEN WARN
  ELSE OK

\* Hours between the newest archived row and the end of its day.
Freshness(gap) ==
  IF gap = NoCapture \/ gap > FreshnessFailHours THEN FAIL
  ELSE IF gap > FreshnessWarnHours THEN WARN
  ELSE OK

\* Source columns against the extraction contract: a lost or retyped column
\* breaks the next extraction, an extra one is only dropped.
SchemaDrift(actual, expected) ==
  IF \E c \in DOMAIN expected : c \notin DOMAIN actual \/ actual[c] # expected[c]
    THEN FAIL
  ELSE IF DOMAIN actual \subseteq DOMAIN expected THEN OK
  ELSE WARN

Axis(on, status) == IF on THEN status ELSE SKIP

\* The report of one day: one status for each axis.
Report(profile, reg, pg, pq, gap, drift) ==
  [reconciliation |-> Axis(profile.reconciliation, Reconciliation(pg, pq)),
   completeness   |-> Axis(profile.completeness, Completeness(reg, pq)),
   freshness      |-> Axis(profile.freshness, Freshness(gap)),
   schema_drift   |-> Axis(profile.schema_drift, drift)]

\* DtReport.status: the worst axis decides, an axis not measured counts as OK.
Status(report) ==
  IF \E a \in DOMAIN report : report[a] = FAIL THEN FAIL
  ELSE IF \E a \in DOMAIN report : report[a] = WARN THEN WARN
  ELSE OK

Blocked(report) == Status(report) = FAIL
=============================================================================
