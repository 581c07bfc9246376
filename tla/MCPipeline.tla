----------------------------- MODULE MCPipeline -----------------------------
(* Instances of Pipeline for TLC: every program within the bounds. *)
EXTENDS Pipeline
=============================================================================
