-------------------------- MODULE MCPipelineHistory --------------------------
(* The deployments and messages of MCPipeline, with the history.            *)
EXTENDS MCPipeline, PipelineHistory

=============================================================================
