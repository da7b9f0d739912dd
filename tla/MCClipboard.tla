---------------------------- MODULE MCClipboard ----------------------------
(* The clipboard on small instances for TLC.                               *)
EXTENDS Clipboard
=============================================================================
