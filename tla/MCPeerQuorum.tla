---------------------------- MODULE MCPeerQuorum ----------------------------
(* Instances of PeerQuorum for TLC.                                        *)
EXTENDS PeerQuorum

CONSTANTS p1, p2, p3

(* One of three peers is taken out of the configuration and put back.      *)
Changing == {{p1, p2}, {p1, p2, p3}}
=============================================================================
