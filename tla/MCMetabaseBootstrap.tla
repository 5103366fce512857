------------------------- MODULE MCMetabaseBootstrap -------------------------
(* Small instances of MetabaseBootstrap for TLC. *)
EXTENDS MetabaseBootstrap

\* The dashboard of the analysis with two of its cards, of which version 2
\* renames one, and one of the later dashboards, to which version 2 adds a card.
TwoScreens == <<[awaits |-> {"mart_query_regression"}, cards |-> <<<<1, 2>>, <<1, 3>>>>],
                [awaits |-> {"pipeline_run_log"}, cards |-> <<<<1>>, <<1, 2>>>>]>>
=============================================================================
