--------------------------- MODULE MCStateCombiner ---------------------------
(* Instances of StateCombiner for TLC.                                     *)
EXTENDS CombinerHistory

Report(available, v4, v6) ==
    [present |-> TRUE, isAvailable |-> available,
     ipv4Available |-> v4, ipv6Available |-> v6]

DownOrV4 == {Report(FALSE, FALSE, FALSE), Report(TRUE, TRUE, FALSE)}

DownOrBoth == {Report(FALSE, FALSE, FALSE), Report(TRUE, TRUE, TRUE)}
=============================================================================
