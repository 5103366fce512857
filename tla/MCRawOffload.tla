---------------------------- MODULE MCRawOffload ----------------------------
(* Small instances of RawOffload for TLC. *)
EXTENDS RawOffload

\* The task walks two tables, an operator's command one of them.
RivalWalk == [j \in Jobs |-> IF j = "cli" THEN <<"wait_event_snapshot">>
                            ELSE <<"plan_snapshot", "wait_event_snapshot">>]

\* Three retries of the task are cut to one; the command has none.
TaskRetries == [j \in Jobs |-> IF j = "cli" THEN 0 ELSE 1]

\* By count, and by an age of weeks that is cut to a day.
KeptADay == [t \in Tables |-> IF t = "plan_snapshot" THEN 0 ELSE 1]
=============================================================================
