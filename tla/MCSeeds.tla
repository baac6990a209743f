------------------------------ MODULE MCSeeds -------------------------------
(* Seeds for two executions. *)
EXTENDS Seeds

MCRuns == {1, 2}
=============================================================================
