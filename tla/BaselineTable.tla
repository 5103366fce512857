---------------------------- MODULE BaselineTable ----------------------------
(***************************************************************************)
(* What the writeback promises the anomaly poller of DBTower: the table    *)
(* holds one version of the baseline, whole, and changes to another in a   *)
(* single step; the other is never newer than what has been published, but *)
(* may be older: a writer that read the mart before a rival may commit     *)
(* after it.  Writeback is shown to implement this.                        *)
(***************************************************************************)
EXTENDS Integers

CONSTANTS
  Versions,   \* of mart_baseline_longterm, in the order of publication
  Initial     \* the version that is there when the system starts

VARIABLES
  mart,       \* the version published in the lake
  shown       \* the version in the table

vars == <<mart, shown>>

Init == mart = Initial /\ shown = Initial

Publish ==
  /\ \E v \in Versions : v > mart /\ mart' = v
  /\ UNCHANGED shown

Replace ==
  /\ \E v \in Versions : v <= mart /\ shown' = v
  /\ UNCHANGED mart

Next == Publish \/ Replace

Spec == Init /\ [][Next]_vars
=============================================================================
