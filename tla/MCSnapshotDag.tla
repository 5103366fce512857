---------------------------- MODULE MCSnapshotDag ----------------------------
(* Small instances of SnapshotDag for TLC. *)
EXTENDS SnapshotDag, TLC

\* retries=3 cut to one, on the task that leaves half of its work behind when
\* it fails; the gates have none in the code either.
OneRetry  == [t \in Tasks |-> IF t = "transform" THEN 1 ELSE 0]
NoRetries == [t \in Tasks |-> 0]

\* No action or property tells instances apart.
SameInstances == Permutations(Instances)
=============================================================================
