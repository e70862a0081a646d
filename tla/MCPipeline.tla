------------------------------ MODULE MCPipeline ------------------------------
(* Instances of Pipeline. *)
EXTENDS Pipeline
=============================================================================
