------------------------------ MODULE PeerQuorum ------------------------------
(***************************************************************************)
(* Peering and the optimistic quorum of one Traffic Monitor: the config    *)
(* manager hands the peer poller a new set of peers and later calls        *)
(* SetPeers, pollers come and go, the peer manager stores their results,   *)
(* and /publish/CrStates answers 503 when too few peers are available      *)
(* (peer/crstates.go, poller/peer.go, datareq/crstate.go).                 *)
(***************************************************************************)
EXTENDS Naturals, FiniteSets

CONSTANTS
    Peers,          \* every monitor that is ever a peer of this one
    Configs,        \* the sets of peers the monitoring configuration can list
    QuorumMin       \* peer_optimistic_quorum_min

ASSUME QuorumAssumption ==
    /\ IsFiniteSet(Peers)
    /\ Configs \subseteq SUBSET Peers
    /\ QuorumMin \in Nat

VARIABLES
    configured,     \* peers in the configuration being applied
    applying,       \* TRUE from the send to the peer poller until SetPeers
    pollers,        \* peers with a running poller
    dying,          \* peers with a killed poller that is not gone yet
    known,          \* keys of crStates, peerStates and peerTimes
    peerStates,     \* the peers whose last poll succeeded
    peerOnline,     \* the peers marked online
    peerCount,
    request,        \* "none", "received", or "enabled" once the quorum applies
    response        \* the last answer of /publish/CrStates

cfgVars  == <<configured, applying>>
pollVars == <<pollers, dying>>
peerVars == <<known, peerStates, peerOnline, peerCount>>
reqVars  == <<request, response>>
vars     == <<cfgVars, pollVars, peerVars, reqVars>>

Init ==
    /\ configured = {} /\ applying = FALSE
    /\ pollers = {} /\ dying = {}
    /\ known = {} /\ peerStates = {} /\ peerOnline = {} /\ peerCount = 0
    /\ request = "none" /\ response = 200

(***************************************************************************)
(* PeerPoller.Poll on a new configuration: the pollers of removed peers    *)
(* are told to die, but until they notice they still deliver results;      *)
(* added peers get a poller.                                               *)
(***************************************************************************)
NewPeerConfig(peers) ==
    /\ ~applying
    /\ configured' = peers
    /\ applying' = TRUE
    /\ pollers' = peers
    /\ \E late \in SUBSET (pollers \ peers) : dying' = dying \cup late
    /\ UNCHANGED <<peerVars, reqVars>>

(* Seeded fault: only peers that were online once are looked at.           *)
Countable_Online == known \cap peerOnline

(* SetPeers looks at the peers that have been polled at least once.        *)
Countable == known

(* Seeded fault: every configured peer is counted, polled or not.          *)
NewPeerCount_Configured == Cardinality(configured)

(* Seeded fault: the count is adjusted instead of computed.                *)
NewPeerCount_Adjusted == peerCount - Cardinality(configured \ known)

NewPeerCount == Cardinality(Countable \cap configured)

SetPeers ==
    /\ applying
    /\ peerOnline' = (peerOnline \ Countable) \cup (Countable \cap configured)
    /\ peerCount' = NewPeerCount
    /\ applying' = FALSE
    /\ UNCHANGED <<configured, pollVars, known, peerStates, reqVars>>

(* A result, good or bad, from a running or a dying poller.                *)
Set(p, available) ==
    /\ p \in pollers \cup dying
    /\ dying' \in {dying, dying \ {p}}
    /\ known' = known \cup {p}
    /\ peerStates' = IF available THEN peerStates \cup {p} ELSE peerStates \ {p}
    /\ UNCHANGED <<cfgVars, pollers, peerOnline, peerCount, reqVars>>

-----------------------------------------------------------------------------
(* srvTRState for the combined states: two reads under separate locks.     *)

(* Seeded fault: the monitor itself is counted in the threshold of two.    *)
OptimisticQuorumEnabled_Others == QuorumMin > 0 /\ peerCount > 2

OptimisticQuorumEnabled == QuorumMin > 0 /\ peerCount > 1

numAvailablePeers == Cardinality(peerStates)

(* Seeded fault: off by one.                                               *)
HasOptimisticQuorum_Strict == numAvailablePeers > QuorumMin

HasOptimisticQuorum == numAvailablePeers >= QuorumMin

Request ==
    /\ request = "none"
    /\ request' = "received"
    /\ UNCHANGED <<cfgVars, pollVars, peerVars, response>>

CheckEnabled ==
    /\ request = "received"
    /\ IF OptimisticQuorumEnabled
         THEN request' = "enabled" /\ UNCHANGED response
         ELSE request' = "none" /\ response' = 200
    /\ UNCHANGED <<cfgVars, pollVars, peerVars>>

Respond ==
    /\ request = "enabled"
    /\ response' = IF HasOptimisticQuorum THEN 200 ELSE 503
    /\ request' = "none"
    /\ UNCHANGED <<cfgVars, pollVars, peerVars>>

Next ==
    \/ \E peers \in Configs : NewPeerConfig(peers)
    \/ SetPeers
    \/ \E p \in Peers, available \in BOOLEAN : Set(p, available)
    \/ Request
    \/ CheckEnabled
    \/ Respond

Spec == Init /\ [][Next]_vars

(* The configuration is polled for ever, every running poller delivers a   *)
(* first result, and Traffic Routers keep asking.                          *)
FairSpec ==
    /\ Spec
    /\ WF_vars(\E peers \in Configs : NewPeerConfig(peers))
    /\ WF_vars(SetPeers)
    /\ \A p \in Peers : WF_vars(p \in pollers \ known /\ \E b \in BOOLEAN : Set(p, b))
    /\ WF_vars(Request) /\ WF_vars(CheckEnabled) /\ WF_vars(Respond)

-----------------------------------------------------------------------------

TypeOK ==
    /\ configured \in SUBSET Peers /\ applying \in BOOLEAN
    /\ pollers \in SUBSET Peers /\ dying \in SUBSET Peers
    /\ known \in SUBSET Peers /\ peerStates \in SUBSET Peers
    /\ peerOnline \in SUBSET Peers /\ peerCount \in Nat
    /\ request \in {"none", "received", "enabled"} /\ response \in {200, 503}

AvailableOf(peers) == Cardinality(peers \cap peerStates)

(***************************************************************************)
(* The count that decides whether the quorum applies is the number of      *)
(* peers marked online, through every order of configurations and results. *)
(***************************************************************************)
PeerCountIsOnline == peerCount = Cardinality(peerOnline)

(***************************************************************************)
(* Polling again and again, the monitor converges: once the configuration  *)
(* stays the same, the peers of it, and only they, end up online, so the   *)
(* quorum is in force exactly if at least two peers are configured.        *)
(***************************************************************************)
PeeringConverges ==
    \A cfg \in Configs :
        <>[](configured = cfg) =>
            <>[](/\ peerOnline = cfg
                 /\ peerCount = Cardinality(cfg))

(***************************************************************************)
(* A monitor that keeps too few available peers withdraws: although        *)
(* whether the quorum applies and whether there is one are read at two     *)
(* moments, /publish/CrStates ends up answering 503 for good.  A removed   *)
(* peer whose last answer was good stays available for numAvailablePeers.  *)
(***************************************************************************)
IsolationWithdraws ==
    \A cfg \in Configs :
        /\ Cardinality(cfg) > 1
        /\ <>[](configured = cfg /\ numAvailablePeers < QuorumMin)
        => <>[](response = 503)

(***************************************************************************)
(* A monitor that has enough of its peers again resumes: /publish/CrStates *)
(* ends up answering 200 for good.                                         *)
(***************************************************************************)
RecoveryResumes ==
    \A cfg \in Configs :
        <>[](configured = cfg /\ AvailableOf(cfg) >= QuorumMin)
        => <>[](response = 200)
=============================================================================
