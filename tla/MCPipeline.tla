----------------------------- MODULE MCPipeline -----------------------------
(* Instances of Pipeline for TLC. *)
EXTENDS Pipeline, TLC

Interchangeable == Permutations(Plain) \cup Permutations(Streams)
=============================================================================
