-------------------------- MODULE MCClientBuffers --------------------------
(* The client's buffers on small instances for TLC.                        *)
EXTENDS ClientBuffers
=============================================================================
