--------------------------- MODULE PeerQuorumProofs ---------------------------
(* Proofs about PeerQuorum, for any peers, configurations and threshold.   *)
EXTENDS PeerQuorum, FiniteSetTheorems, TLAPS

(***************************************************************************)
(* Every variable keeps its type: in particular the count of peers is      *)
(* always a number.                                                        *)
(***************************************************************************)
THEOREM TypeCorrect == Spec => []TypeOK
<1>1. ASSUME Init PROVE TypeOK
  <2>1. applying \in BOOLEAN
    BY <1>1, Zenon DEF Init
  <2> QED
    BY <1>1, <2>1 DEF Init, TypeOK
<1>2. TypeOK /\ [Next]_vars => TypeOK'
  <2> SUFFICES ASSUME TypeOK, [Next]_vars PROVE TypeOK'
    OBVIOUS
  <2> USE DEF TypeOK
  <2>1. ASSUME NEW peers \in Configs, NewPeerConfig(peers) PROVE TypeOK'
    BY <2>1, QuorumAssumption DEF NewPeerConfig, peerVars, reqVars
  <2>2. CASE SetPeers
    <3>1. IsFiniteSet(known \cap configured)
      BY FS_Subset, QuorumAssumption
    <3>2. peerCount' \in Nat
      BY <2>2, <3>1, FS_CardinalityType DEF SetPeers, NewPeerCount, Countable
    <3> QED
      BY <2>2, <3>2 DEF SetPeers, Countable, pollVars, reqVars
  <2>3. ASSUME NEW p \in Peers, NEW b \in BOOLEAN, Set(p, b) PROVE TypeOK'
    BY <2>3 DEF Set, cfgVars, reqVars
  <2>4. CASE Request
    BY <2>4 DEF Request, cfgVars, pollVars, peerVars
  <2>5. CASE CheckEnabled
    BY <2>5 DEF CheckEnabled, cfgVars, pollVars, peerVars
  <2>6. CASE Respond
    BY <2>6 DEF Respond, cfgVars, pollVars, peerVars
  <2>7. CASE UNCHANGED vars
    BY <2>7 DEF vars, cfgVars, pollVars, peerVars, reqVars
  <2> QED
    BY <2>1, <2>2, <2>3, <2>4, <2>5, <2>6, <2>7 DEF Next
<1> QED
  BY <1>1, <1>2, PTL DEF Spec

(* Only a peer that has been polled is ever online.                        *)
OnlineIsKnown == peerOnline \subseteq known

(***************************************************************************)
(* The peer count that switches the quorum on equals the number of peers   *)
(* marked online, whatever order configurations and results arrive in.     *)
(***************************************************************************)
THEOREM PeerCountCorrect == Spec => []PeerCountIsOnline
<1> DEFINE Inv == OnlineIsKnown /\ PeerCountIsOnline
<1>1. Init => Inv
  BY FS_EmptySet DEF Init, OnlineIsKnown, PeerCountIsOnline
<1>2. TypeOK /\ Inv /\ [Next]_vars => Inv'
  <2> SUFFICES ASSUME TypeOK, Inv, [Next]_vars PROVE Inv'
    OBVIOUS
  <2> USE DEF OnlineIsKnown, PeerCountIsOnline
  <2>1. CASE SetPeers
    <3>1. peerOnline' = known \cap configured
      BY <2>1 DEF SetPeers, Countable
    <3> QED
      BY <2>1, <3>1 DEF SetPeers, NewPeerCount, Countable
  <2>2. ASSUME NEW p \in Peers, NEW b \in BOOLEAN, Set(p, b) PROVE Inv'
    BY <2>2 DEF Set
  <2>3. CASE UNCHANGED peerVars
    BY <2>3 DEF peerVars
  <2> QED
    BY <2>1, <2>2, <2>3
       DEF Next, NewPeerConfig, Request, CheckEnabled, Respond, vars
<1> QED
  BY <1>1, <1>2, TypeCorrect, PTL DEF Spec
=============================================================================
