------------------------- MODULE MCTrafficOpsSession -------------------------
(* Instances of TrafficOpsSession for TLC.                                 *)
EXTENDS TrafficOpsSession
=============================================================================
