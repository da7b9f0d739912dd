--------------------------- MODULE MCFramePacing ---------------------------
(* Repaint scheduling and client feedback on small instances for TLC.      *)
EXTENDS FramePacing
=============================================================================
