---------------------------- MODULE MCPipelines ----------------------------
(* Two clients and one worker, two graphics descriptors and a compute one. *)
EXTENDS Pipelines

CONSTANTS g1, g2, c1, a, b, w, owner
=============================================================================
