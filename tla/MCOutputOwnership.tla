------------------------- MODULE MCOutputOwnership -------------------------
(* The output swapchain on a small instance for TLC.                       *)
EXTENDS OutputOwnership
=============================================================================
