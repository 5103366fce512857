------------------------------ MODULE Writeback ------------------------------
(***************************************************************************)
(* extract/writeback.py: the long-term baseline goes from the published    *)
(* mart back to a table of the source's PostgreSQL, as DELETE, INSERT,     *)
(* count and COMMIT of one transaction, while the anomaly poller of        *)
(* DBTower reads that table.  A writer is the DAG's task (or its zombie    *)
(* after a retry) or an operator at the command line.                      *)
(*                                                                         *)
(* PostgreSQL is modelled at its default, READ COMMITTED: a statement sees *)
(* what is committed when it starts and what its own transaction did; a    *)
(* DELETE waits for a row that another transaction has deleted, and skips  *)
(* the row when that transaction commits.                                  *)
(***************************************************************************)
EXTENDS Integers, FiniteSets

CONSTANTS
  Writers,
  Size,       \* Size[v]: rows of version v of mart_baseline_longterm
  Initial,    \* the version in the target when the system starts
  MaxRuns     \* bound: runs started in all

Versions == DOMAIN Size

ASSUME ConstantsOK ==
  /\ Size \in [Versions -> Nat]
  /\ Initial \in Versions
  /\ Versions \subseteq Nat
  /\ MaxRuns \in Nat

VARIABLES
  mart,      \* the version published in the lake
  target,    \* the committed rows of baseline_longterm
  runs,      \* runs started so far
  run,       \* the number of each writer's run, which names its rows
  pc,        \* where each writer is
  cargo,     \* the version it has read from the lake
  mine,      \* the rows it has inserted
  seen,      \* the rows its DELETE has found
  deleted    \* the rows its transaction has deleted, and locks

vars == <<mart, target, runs, run, pc, cargo, mine, seen, deleted>>

RowsOf(n, v) == {<<n, v, k>> : k \in 1..Size[v]}

AllRows == (0..MaxRuns) \X Versions \X Nat

TypeOK ==
  /\ mart \in Versions
  /\ target \subseteq AllRows
  /\ runs \in 0..MaxRuns
  /\ run \in [Writers -> 0..MaxRuns]
  /\ pc \in [Writers -> {"idle", "read", "delete", "wait", "insert", "count",
                         "commit", "done", "failed"}]
  /\ cargo \in [Writers -> Versions]
  /\ mine \in [Writers -> SUBSET AllRows]
  /\ seen \in [Writers -> SUBSET AllRows]
  /\ deleted \in [Writers -> SUBSET AllRows]

NoRows == [w \in Writers |-> {}]

Init ==
  /\ mart = Initial
  /\ target = RowsOf(0, Initial)
  /\ runs = 0
  /\ run = [w \in Writers |-> 0]
  /\ pc = [w \in Writers |-> "idle"]
  /\ cargo = [w \in Writers |-> Initial]
  /\ mine = NoRows /\ seen = NoRows /\ deleted = NoRows

\* The publish task replaces the mart in the lake.
Publish ==
  /\ \E v \in Versions : v > mart /\ mart' = v
  /\ UNCHANGED <<target, runs, run, pc, cargo, mine, seen, deleted>>

Start(w) ==
  /\ pc[w] \in {"idle", "done", "failed"}
  /\ runs < MaxRuns
  /\ runs' = runs + 1
  /\ run' = [run EXCEPT ![w] = runs + 1]
  /\ pc' = [pc EXCEPT ![w] = "read"]
  /\ UNCHANGED <<mart, target, cargo, mine, seen, deleted>>

\* The whole mart, from one snapshot of the lake.
ReadMart(w) ==
  /\ pc[w] = "read"
  /\ cargo' = [cargo EXCEPT ![w] = mart]
  /\ pc' = [pc EXCEPT ![w] = "delete"]
  /\ UNCHANGED <<mart, target, runs, run, mine, seen, deleted>>

\* DELETE begins: it finds the committed rows.
Delete(w) ==
  /\ pc[w] = "delete"
  /\ seen' = [seen EXCEPT ![w] = target]
  /\ pc' = [pc EXCEPT ![w] = "wait"]
  /\ UNCHANGED <<mart, target, runs, run, cargo, mine, deleted>>

\* DELETE ends: no row it has found is locked by another transaction, and the
\* rows that are still there are deleted.
Deleted(w) ==
  /\ pc[w] = "wait"
  /\ \A x \in Writers \ {w} : deleted[x] \cap seen[w] = {}
  /\ deleted' = [deleted EXCEPT ![w] = seen[w] \cap target]
  /\ seen' = [seen EXCEPT ![w] = {}]
  /\ pc' = [pc EXCEPT ![w] = "insert"]
  /\ UNCHANGED <<mart, target, runs, run, cargo, mine>>

\* executemany, unless the mart has no rows.
Insert(w) ==
  /\ pc[w] = "insert"
  /\ mine' = [mine EXCEPT ![w] = RowsOf(run[w], cargo[w])]
  /\ pc' = [pc EXCEPT ![w] = "count"]
  /\ UNCHANGED <<mart, target, runs, run, cargo, seen, deleted>>

\* SELECT count(*): what is committed now and what this transaction did.
Written(w) == Cardinality((target \ deleted[w]) \cup mine[w])

\* Mutant: the count is not compared.
CountAnything(w) ==
  /\ pc[w] = "count"
  /\ pc' = [pc EXCEPT ![w] = "commit"]
  /\ UNCHANGED <<mart, target, runs, run, cargo, mine, seen, deleted>>

CountOK(w) ==
  /\ pc[w] = "count"
  /\ Written(w) = Size[cargo[w]]
  /\ pc' = [pc EXCEPT ![w] = "commit"]
  /\ UNCHANGED <<mart, target, runs, run, cargo, mine, seen, deleted>>

Commit(w) ==
  /\ pc[w] = "commit"
  /\ target' = (target \ deleted[w]) \cup mine[w]
  /\ mine' = [mine EXCEPT ![w] = {}]
  /\ deleted' = [deleted EXCEPT ![w] = {}]
  /\ pc' = [pc EXCEPT ![w] = "done"]
  /\ UNCHANGED <<mart, runs, run, cargo, seen>>

\* rollback(), or PostgreSQL's own when the connection is lost.
Rollback(w) ==
  /\ mine' = [mine EXCEPT ![w] = {}]
  /\ seen' = [seen EXCEPT ![w] = {}]
  /\ deleted' = [deleted EXCEPT ![w] = {}]
  /\ pc' = [pc EXCEPT ![w] = "failed"]
  /\ UNCHANGED <<mart, target, runs, run, cargo>>

\* The counts differ: the run is undone and raises.
CountDiffers(w) ==
  /\ pc[w] = "count"
  /\ Written(w) # Size[cargo[w]]
  /\ Rollback(w)

\* An exception, a lost connection, a dead worker, or a deadlock that PostgreSQL
\* breaks: two DELETEs that lock the rows in different orders.
Fails(w) ==
  /\ pc[w] \notin {"idle", "done", "failed"}
  /\ Rollback(w)

Step(w) ==
  ReadMart(w) \/ Delete(w) \/ Deleted(w) \/ Insert(w) \/ CountOK(w)
    \/ CountDiffers(w) \/ Commit(w)

Next ==
  \/ Publish
  \/ \E w \in Writers : Start(w) \/ Step(w) \/ Fails(w)

Spec == Init /\ [][Next]_vars

-----------------------------------------------------------------------------
(* The property. *)

Holds(n, v) == target = RowsOf(n, v)

\* The version whose rows the table has, written by one run, all of them and
\* no others; -1 when there is no such version.
Shown ==
  IF \E n \in 0..MaxRuns, v \in Versions : Holds(n, v)
    THEN CHOOSE v \in Versions : \E n \in 0..MaxRuns : Holds(n, v)
    ELSE -1

Baseline == INSTANCE BaselineTable WITH shown <- Shown

\* The poller finds one whole version that has been published: never an empty
\* table between DELETE and INSERT, never two baselines at once, however the
\* transactions of several writers interleave.
ImplementsBaseline == Baseline!Spec
=============================================================================
