-------------------------- MODULE MCSurfaceStream --------------------------
(* The presentation stream on small instances for TLC.                     *)
EXTENDS SurfaceStream
=============================================================================
