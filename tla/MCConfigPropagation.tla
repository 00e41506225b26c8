------------------------- MODULE MCConfigPropagation -------------------------
(* Instances of ConfigPropagation for TLC: an edge and its mid.            *)
EXTENDS ConfigPropagation

CONSTANTS edge, mid

MidIsParent == [s \in Servers |-> IF s = edge THEN {mid} ELSE {}]
NoParents == [s \in Servers |-> {}]
=============================================================================
