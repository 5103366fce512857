----------------------------- MODULE ServedLake ------------------------------
(***************************************************************************)
(* What the serving side promises its readers, whatever the pipeline and   *)
(* the maintenance are in the middle of: there is always one build, shown  *)
(* as a whole; a publication replaces it by a newer one in a single step;  *)
(* a query stays on the build it started with; and the log of the runs     *)
(* only grows, a row at a time.  DuckLake is shown to implement this.      *)
(***************************************************************************)
EXTENDS Integers

CONSTANT Readers    \* dashboard queries

VARIABLES
  shown,    \* the build that a query started now is answered from
  logged,   \* rows of pipeline_run_log
  view      \* view[r]: the build of query r, -1 when it is not running

vars == <<shown, logged, view>>

Init == shown = 0 /\ logged = 0 /\ view = [r \in Readers |-> -1]

Publish ==
  /\ shown' \in Nat /\ shown' > shown
  /\ UNCHANGED <<logged, view>>

Log ==
  /\ logged' = logged + 1
  /\ UNCHANGED <<shown, view>>

Open(r) ==
  /\ view[r] = -1
  /\ view' = [view EXCEPT ![r] = shown]
  /\ UNCHANGED <<shown, logged>>

Close(r) ==
  /\ view[r] # -1
  /\ view' = [view EXCEPT ![r] = -1]
  /\ UNCHANGED <<shown, logged>>

Next == Publish \/ Log \/ \E r \in Readers : Open(r) \/ Close(r)

Spec == Init /\ [][Next]_vars
=============================================================================
