----------------------------- MODULE MCWriteback -----------------------------
(* Small instances of Writeback for TLC. *)
EXTENDS Writeback

\* Versions of a mart that has rows: two of the same size, one of another.
Filled == [v \in 0..2 |-> IF v = 1 THEN 2 ELSE 1]
=============================================================================
