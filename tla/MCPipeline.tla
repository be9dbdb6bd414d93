------------------------------ MODULE MCPipeline ------------------------------
(* Pipeline.tla for TLC: pipelines are model values.                            *)
EXTENDS Pipeline, TLC

Symmetry == Permutations(Pipelines)
=============================================================================
