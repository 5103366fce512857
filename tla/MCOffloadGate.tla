--------------------------- MODULE MCOffloadGate ---------------------------
(* Small instances of OffloadGate for TLC. *)
EXTENDS OffloadGate

PrimaryTables == [j \in Jobs |-> <<"query_snapshot">>]

\* The task walks two auxiliary tables, an operator's command one of them.
AuxWalk ==
  [j \in Jobs |-> IF j = "cli" THEN <<"wait_event_snapshot">>
                  ELSE <<"plan_snapshot", "wait_event_snapshot">>]

NoRetries == [j \in Jobs |-> 0]
\* Three retries are cut to one.
OneRetry  == [j \in Jobs |-> 1]
KeptTwoDays == [t \in Tables |-> 2]
\* What the operator rewrites too is inside its window; the other table is kept by
\* count, so that rows go while they are copied and counted.
KeptForGate == [t \in Tables |-> IF t = "plan_snapshot" THEN 0 ELSE 2]

\* The profiles of extract/tables.py.
TableProfiles ==
  [t \in Tables |->
     [reconciliation |-> TRUE,
      completeness   |-> t = "query_snapshot",
      freshness      |-> t \in {"query_snapshot", "wait_event_snapshot"},
      schema_drift   |-> TRUE]]

\* Row 1 is from the morning, row 2 from the last hour of the day.
RowGaps == [r \in Rows |-> IF r = 1 THEN 14 ELSE 1]

Contract == [id |-> "bigint"]
NoDrift == {Contract}
SourceSchemas == {Contract, [id |-> "text"]}
=============================================================================
