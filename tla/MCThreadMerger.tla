--------------------------- MODULE MCThreadMerger ---------------------------
(* Two mergers of one pair of queues, and one of a second pair with the    *)
(* same platform queue, which any thread may call.                         *)
EXTENDS ThreadMerger

CONSTANTS a, b, c, platform, raster1, raster2

MCPlatformOf == [m \in Mergers |-> platform]
MCRasterOf == [m \in Mergers |-> IF m = c THEN raster2 ELSE raster1]
=============================================================================
