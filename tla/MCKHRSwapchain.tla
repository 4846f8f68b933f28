--------------------------- MODULE MCKHRSwapchain ---------------------------
(* A swapchain of three images with two frames in flight.                  *)
EXTENDS KHRSwapchain

CONSTANTS i1, i2, i3
=============================================================================
