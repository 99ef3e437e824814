--------------------------- MODULE MCPipelineRuns ----------------------------
(* PipelineRuns with interchangeable runs: no run has a role of its own. *)
EXTENDS PipelineRuns, TLC

RunSymmetry == Permutations(Runs)
==============================================================================
