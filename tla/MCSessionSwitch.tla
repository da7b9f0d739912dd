-------------------------- MODULE MCSessionSwitch --------------------------
(* Desktop switching on small instances for TLC.                           *)
EXTENDS SessionSwitch
=============================================================================
