----------------------------- MODULE MCPipeline -----------------------------
(***************************************************************************)
(* Model values for the runs of Pipeline.                                  *)
(***************************************************************************)
EXTENDS Pipeline

\* Less than a frame, more than a frame, and more than two.
MCBlockSizes == {1, 3, 5}
=============================================================================
