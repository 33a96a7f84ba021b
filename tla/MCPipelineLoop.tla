--------------------------- MODULE MCPipelineLoop ---------------------------
EXTENDS PipelineLoop

=============================================================================
