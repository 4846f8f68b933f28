----------------------- MODULE MCPipelineCacheFile -----------------------
(* Two workers, a driver and its update, saves of one or two blocks.       *)
EXTENDS PipelineCacheFile

CONSTANTS w1, w2, old, new
=============================================================================
