------------------------- MODULE StateCombinerProofs -------------------------
(***************************************************************************)
(* Proofs about StateCombiner, for any sets of caches, services, peers and *)
(* managers.                                                               *)
(***************************************************************************)
EXTENDS StateCombiner, TLAPS

(* The merge yields a present entry.                                       *)
LEMMA MergeType ==
    ASSUME NEW c, NEW l \in IsAvailable, NEW info \in [Peers -> PeerInfo]
    PROVE  /\ combineCacheState(c, l, info) \in IsAvailable
           /\ combineCacheState(c, l, info).present
           /\ Overridden(c, l, info) \in BOOLEAN
BY DEF combineCacheState, Overridden, IsAvailable, HasAvailablePeers,
       OnlineOnPeers

LEMMA ConstantTypes ==
    /\ Absent \in IsAvailable /\ Unavailable \in IsAvailable
    /\ Unavailable.present
    /\ NoCaches \in [Caches -> IsAvailable]
    /\ NoDSes \in [DeliveryServices -> DSStates]
    /\ NoPeers \in [Peers -> PeerInfo]
    /\ Reports \subseteq IsAvailable
    /\ PeerReports \subseteq IsAvailable
BY ReportsAssumption DEF Absent, Unavailable, IsAvailable, NoCaches, NoDSes,
   NoPeers, DSStates, UnknownPeer, PeerInfo

LEMMA PeerFlags ==
    ASSUME NEW i \in PeerInfo, NEW b \in BOOLEAN
    PROVE  /\ [i EXCEPT !.online = b] \in PeerInfo
           /\ [i EXCEPT !.fresh = b] \in PeerInfo
BY DEF PeerInfo

(***************************************************************************)
(* Every variable of the combiner and of the goroutines that feed it keeps *)
(* its type: in particular at most one signal ever waits for it.           *)
(***************************************************************************)
THEOREM TypeCorrect == Spec => []TypeOK
<1>1. Init => TypeOK
  <2>1. Init => combineStateChan \in 0..1
    BY DEF Init
  <2> QED
    BY <2>1, ConstantTypes, Zenon DEF Init, TypeOK
<1>2. TypeOK /\ [Next]_vars => TypeOK'
  <2> SUFFICES ASSUME TypeOK, [Next]_vars PROVE TypeOK'
    OBVIOUS
  <2> USE DEF TypeOK
  <2>1. CASE Combiner
    <3>1. CASE Receive
      BY <3>1 DEF Receive, local, combined, args, mgrs, dirty
    <3>2. CASE GetCRStatesPeersInfo
      BY <3>2 DEF GetCRStatesPeersInfo, local, combined, mgrs
    <3>3. CASE GetLocalStates
      BY <3>3 DEF GetLocalStates, local, combined, mgrs
    <3>4. ASSUME NEW c \in Caches, CombineCache(c) PROVE TypeOK'
      BY <3>4, MergeType DEF CombineCache, NewOverride, local, mgrs, dirty
    <3>5. CASE CachesCombined
      BY <3>5 DEF CachesCombined, local, combined, mgrs, dirty
    <3>6. ASSUME NEW d \in DeliveryServices, CombineDS(d) PROVE TypeOK'
      BY <3>6 DEF CombineDS, combineDSState, DSStates, local, mgrs, dirty
    <3>7. CASE Prune
      BY <3>7, ConstantTypes DEF Prune, DSStates, local, mgrs, dirty
    <3> QED
      BY <2>1, <3>1, <3>2, <3>3, <3>4, <3>5, <3>6, <3>7 DEF Combiner
  <2>2. CASE Results
    <3>1. ASSUME NEW d \in DeliveryServices, NEW s \in {"unavailable", "available"},
                 CreateStatsSetDS(d, s)
          PROVE  TypeOK'
      BY <3>1, ManagersAssumption
         DEF CreateStatsSetDS, DSStates, combined, args, dirty
    <3>2. ASSUME NEW m \in Managers, NEW c \in Caches, NEW r \in Reports,
                 CalcAvailability(m, c, r)
          PROVE  TypeOK'
      BY <3>2, ConstantTypes DEF CalcAvailability, SetCache, combined, args, dirty
    <3>3. ASSUME NEW m \in Managers, GetDeliveryServices(m) PROVE TypeOK'
      BY <3>3 DEF GetDeliveryServices, local, combined, args, dirty
    <3>4. ASSUME NEW m \in Managers, NEW d \in DeliveryServices,
                 SetDeliveryService(m, d)
          PROVE  TypeOK'
      BY <3>4 DEF SetDeliveryService, DSStates, combined, args, dirty
    <3>5. ASSUME NEW m \in Managers, ResultsDone(m) PROVE TypeOK'
      BY <3>5 DEF ResultsDone, combineState, local, combined, args, dirty
    <3> QED
      BY <2>2, <3>1, <3>2, <3>3, <3>4, <3>5 DEF Results, Manager
  <2>3. CASE PeerManager
    <3>1. ASSUME NEW p \in Peers, NEW ok \in BOOLEAN, NEW cs \in PeerStatesOf,
                 NEW ds \in [DeliveryServices -> DSStates], Set(p, ok, cs, ds)
          PROVE  TypeOK'
      <4>1. cs \in [Caches -> IsAvailable]
        BY ConstantTypes DEF PeerStatesOf
      <4>2. peers' \in [Peers -> PeerInfo]
        BY <3>1, <4>1 DEF Set, PeerInfo
      <4> QED
        BY <3>1, <4>2 DEF Set, local, combined, args, mgrs, dirty
    <3>2. CASE PeerResultDone
      BY <3>2 DEF PeerResultDone, combineState, local, combined, args, mgrs, dirty
    <3> QED
      BY <2>3, <3>1, <3>2 DEF PeerManager
  <2>4. CASE Config
    <3>1. ASSUME NEW c \in Caches,
                 NEW r \in {u \in Reports : u.isAvailable} \cup {Unavailable},
                 ConfigAddCache(c, r)
          PROVE  TypeOK'
      BY <3>1, ConstantTypes DEF ConfigAddCache, combined, args, mgrs
    <3>2. ASSUME NEW c \in Caches, ConfigDeleteCache(c) PROVE TypeOK'
      BY <3>2, ConstantTypes DEF ConfigDeleteCache, combined, args, mgrs
    <3>3. ASSUME NEW d \in DeliveryServices, ConfigSetDS(d) PROVE TypeOK'
      BY <3>3 DEF ConfigSetDS, DSStates, combined, args, mgrs
    <3>4. ASSUME NEW newPeers \in SUBSET Peers, SetPeers(newPeers) PROVE TypeOK'
      <4>1. \A p \in Peers : [peers[p] EXCEPT !.online = (p \in newPeers)] \in PeerInfo
        <5> TAKE p \in Peers
        <5>1. (p \in newPeers) \in BOOLEAN /\ peers[p] \in PeerInfo
          OBVIOUS
        <5> QED
          BY <5>1, PeerFlags
      <4>2. peers' \in [Peers -> PeerInfo]
        BY <3>4, <4>1 DEF SetPeers
      <4> QED
        BY <3>4, <4>2 DEF SetPeers, local, combined, args, mgrs
    <3>5. ASSUME NEW inTime \in SUBSET Peers, SetTimeout(inTime) PROVE TypeOK'
      <4>1. \A p \in Peers : [peers[p] EXCEPT !.fresh = (p \in inTime)] \in PeerInfo
        <5> TAKE p \in Peers
        <5>1. (p \in inTime) \in BOOLEAN /\ peers[p] \in PeerInfo
          OBVIOUS
        <5> QED
          BY <5>1, PeerFlags
      <4>2. peers' \in [Peers -> PeerInfo]
        BY <3>5, <4>1 DEF SetTimeout
      <4> QED
        BY <3>5, <4>2 DEF SetTimeout, local, combined, args, mgrs
    <3> QED
      BY <2>4, <3>1, <3>2, <3>3, <3>4, <3>5 DEF Config
  <2>5. ASSUME NEW c \in Caches, NEW r \in Reports, DistributedPeerResult(c, r)
        PROVE  TypeOK'
    BY <2>5, ConstantTypes DEF DistributedPeerResult, SetCache, combined, args, mgrs
  <2>6. ASSUME NEW p \in Peers, PeerTimesOut(p) PROVE TypeOK'
    <3>1. /\ [peers[p] EXCEPT !.fresh = FALSE] \in PeerInfo
          /\ [peersArg[p] EXCEPT !.fresh = FALSE] \in PeerInfo
      BY PeerFlags
    <3>2. peers' \in [Peers -> PeerInfo] /\ peersArg' \in [Peers -> PeerInfo]
      BY <2>6, <3>1 DEF PeerTimesOut
    <3> QED
      BY <2>6, <3>2 DEF PeerTimesOut, local, combined, mgrs
  <2>7. CASE UNCHANGED vars
    BY <2>7 DEF vars, local, combined, args, mgrs, dirty
  <2> QED
    BY <2>1, <2>2, <2>3, <2>4, <2>5, <2>6, <2>7 DEF Next
<1> QED
  BY <1>1, <1>2, PTL DEF Spec

-----------------------------------------------------------------------------
(***************************************************************************)
(* The inductive invariant behind NoLostWakeup.  A copy the combiner works *)
(* on equals the live structure unless a newer signal, a manager that owes *)
(* one, or an unsignalled write accounts for the difference; what the      *)
(* loops have gone through is the merge of the copies.                     *)
(***************************************************************************)
PeersCopyAccounted ==
    pc \in {"gotPeers", "caches", "ds"} =>
        \/ combineStateChan = 1 \/ peerMgrPc # "idle" \/ dirtyPeers
        \/ peersArg = peers

LocalCopyAccounted ==
    pc \in {"caches", "ds"} =>
        \/ combineStateChan = 1 \/ dirtyLocal
        \/ \E m \in Managers : mgrPc[m] # "idle"
        \/ cachesArg = localCaches /\ dsArg = localDS

CachesMerged ==
    pc \in {"caches", "ds"} /\ ~dirtyPeers =>
        \A c \in Caches :
            cachesArg[c].present /\ (pc = "caches" => c \notin todo) =>
                combinedCaches[c] = combineCacheState(c, cachesArg[c], peersArg)

DSesMerged ==
    pc = "ds" /\ ~dirtyPeers =>
        \A d \in DeliveryServices :
            dsArg[d] # "absent" /\ d \notin todo =>
                combinedDS[d] = combineDSState(d, dsArg[d], peersArg)

CombinerInv ==
    /\ PeersCopyAccounted
    /\ LocalCopyAccounted
    /\ CachesMerged
    /\ DSesMerged
    /\ NoLostWakeup

(* After a send a signal waits, whether the slot was free or not.          *)
LEMMA SignalWaits ==
    ASSUME combineStateChan \in 0..1, combineState
    PROVE  combineStateChan' = 1
BY DEF combineState

LEMMA CombinerInvStep ==
    ASSUME TypeOK, TypeOK', CombinerInv, [Next]_vars
    PROVE  CombinerInv'
<1> USE DEF CombinerInv, PeersCopyAccounted, LocalCopyAccounted,
            CachesMerged, DSesMerged, NoLostWakeup, Quiescent
<1>1. CASE Receive
  BY <1>1 DEF Receive, local, combined, args, mgrs, dirty
<1>2. CASE GetCRStatesPeersInfo
  BY <1>2 DEF GetCRStatesPeersInfo, local, combined, mgrs
<1>3. CASE GetLocalStates
  BY <1>3 DEF GetLocalStates, local, combined, mgrs
<1>4. ASSUME NEW c \in Caches, CombineCache(c) PROVE CombinerInv'
  BY <1>4 DEF CombineCache, TypeOK, local, mgrs, dirty
<1>5. CASE CachesCombined
  BY <1>5 DEF CachesCombined, local, combined, mgrs, dirty
<1>6. ASSUME NEW d \in DeliveryServices, CombineDS(d) PROVE CombinerInv'
  BY <1>6 DEF CombineDS, TypeOK, local, mgrs, dirty
<1>7. CASE Prune
  <2>1. Quiescent' => peersArg = peers /\ cachesArg = localCaches /\ dsArg = localDS
    BY <1>7 DEF Prune, local, mgrs, dirty
  <2>2. Quiescent' => CachesPublished'
    BY <1>7, <2>1 DEF Prune, CachesPublished, TypeOK, local, mgrs, dirty
  <2>3. Quiescent' => DSPublished'
    BY <1>7, <2>1 DEF Prune, KeepDS, DSPublished, TypeOK, local, mgrs, dirty
  <2> QED
    BY <1>7, <2>2, <2>3 DEF Prune
<1>8. CASE Results
  <2>1. ASSUME NEW d \in DeliveryServices, NEW s \in {"unavailable", "available"},
               CreateStatsSetDS(d, s)
        PROVE  CombinerInv'
    BY <2>1, ManagersAssumption DEF CreateStatsSetDS, TypeOK, combined, args, dirty
  <2>2. ASSUME NEW m \in Managers, NEW c \in Caches, NEW r \in Reports,
               CalcAvailability(m, c, r)
        PROVE  CombinerInv'
    BY <2>2 DEF CalcAvailability, TypeOK, combined, args, dirty
  <2>3. ASSUME NEW m \in Managers, GetDeliveryServices(m) PROVE CombinerInv'
    BY <2>3 DEF GetDeliveryServices, TypeOK, local, combined, args, dirty
  <2>4. ASSUME NEW m \in Managers, NEW d \in DeliveryServices,
               SetDeliveryService(m, d)
        PROVE  CombinerInv'
    BY <2>4 DEF SetDeliveryService, TypeOK, combined, args, dirty
  <2>5. ASSUME NEW m \in Managers, ResultsDone(m) PROVE CombinerInv'
    BY <2>5, SignalWaits DEF ResultsDone, TypeOK, local, combined, args, dirty
  <2> QED
    BY <1>8, <2>1, <2>2, <2>3, <2>4, <2>5 DEF Results, Manager
<1>9. CASE PeerManager
  <2>1. ASSUME NEW p \in Peers, NEW ok \in BOOLEAN, NEW cs \in PeerStatesOf,
               NEW ds \in [DeliveryServices -> DSStates], Set(p, ok, cs, ds)
        PROVE  CombinerInv'
    BY <2>1 DEF Set, local, combined, args, mgrs, dirty
  <2>2. CASE PeerResultDone
    BY <2>2, SignalWaits DEF PeerResultDone, TypeOK, local, combined, args, mgrs, dirty
  <2> QED
    BY <1>9, <2>1, <2>2 DEF PeerManager
<1>10. CASE Config
  <2>1. ASSUME NEW c \in Caches, NEW r, ConfigAddCache(c, r) PROVE CombinerInv'
    BY <2>1 DEF ConfigAddCache, combined, args, mgrs
  <2>2. ASSUME NEW c \in Caches, ConfigDeleteCache(c) PROVE CombinerInv'
    BY <2>2 DEF ConfigDeleteCache, combined, args, mgrs
  <2>3. ASSUME NEW d \in DeliveryServices, ConfigSetDS(d) PROVE CombinerInv'
    BY <2>3 DEF ConfigSetDS, combined, args, mgrs
  <2>4. ASSUME NEW newPeers, SetPeers(newPeers) PROVE CombinerInv'
    BY <2>4 DEF SetPeers, local, combined, args, mgrs
  <2>5. ASSUME NEW inTime, SetTimeout(inTime) PROVE CombinerInv'
    BY <2>5 DEF SetTimeout, local, combined, args, mgrs
  <2> QED
    BY <1>10, <2>1, <2>2, <2>3, <2>4, <2>5 DEF Config
<1>11. ASSUME NEW c \in Caches, NEW r \in Reports, DistributedPeerResult(c, r)
       PROVE  CombinerInv'
  BY <1>11 DEF DistributedPeerResult, combined, args, mgrs
<1>12. ASSUME NEW p \in Peers, PeerTimesOut(p) PROVE CombinerInv'
  BY <1>12 DEF PeerTimesOut, local, combined, mgrs
<1>13. CASE UNCHANGED vars
  BY <1>13 DEF vars, local, combined, args, mgrs, dirty, CachesPublished, DSPublished
<1> QED
  BY <1>1, <1>2, <1>3, <1>4, <1>5, <1>6, <1>7, <1>8, <1>9, <1>10, <1>11,
     <1>12, <1>13 DEF Next, Combiner

(***************************************************************************)
(* No signal to the combiner is ever lost: whenever nothing is pending,    *)
(* what Traffic Routers are served is the merge of the current local and   *)
(* peer states.                                                            *)
(***************************************************************************)
THEOREM NoLostWakeupHolds == Spec => []NoLostWakeup
<1>1. Init => CombinerInv
  BY DEF Init, CombinerInv, PeersCopyAccounted, LocalCopyAccounted,
         CachesMerged, DSesMerged, NoLostWakeup, CachesPublished, DSPublished,
         NoCaches, NoDSes, Absent
<1>2. TypeOK /\ TypeOK' /\ CombinerInv /\ [Next]_vars => CombinerInv'
  BY CombinerInvStep
<1>3. CombinerInv => NoLostWakeup
  BY DEF CombinerInv
<1> QED
  BY <1>1, <1>2, <1>3, TypeCorrect, PTL DEF Spec

(***************************************************************************)
(* At every moment the override flag explains a published entry: the peers *)
(* can only have made a cache look better, never inconsistent.             *)
(***************************************************************************)
THEOREM OverrideExplained == Spec => []OverrideExplainsEntry
<1>1. Init => OverrideExplainsEntry
  BY DEF Init, OverrideExplainsEntry, NoCaches, Absent
<1>2. TypeOK /\ OverrideExplainsEntry /\ [Next]_vars => OverrideExplainsEntry'
  <2> SUFFICES ASSUME TypeOK, OverrideExplainsEntry, [Next]_vars
               PROVE  OverrideExplainsEntry'
    OBVIOUS
  <2>1. ASSUME NEW c \in Caches, CombineCache(c) PROVE OverrideExplainsEntry'
    <3>1. LET e == combineCacheState(c, cachesArg[c], peersArg)
          IN  IF Overridden(c, cachesArg[c], peersArg)
                THEN e.isAvailable
                ELSE e.isAvailable = (e.ipv4Available \/ e.ipv6Available)
      BY DEF combineCacheState
    <3> QED
      BY <2>1, <3>1 DEF CombineCache, NewOverride, OverrideExplainsEntry, TypeOK
  <2>2. CASE Prune
    BY <2>2 DEF Prune, OverrideExplainsEntry, Absent
  <2>3. CASE UNCHANGED combined
    BY <2>3 DEF combined, OverrideExplainsEntry
  <2>4. (\E c \in Caches : CombineCache(c)) \/ Prune \/ UNCHANGED combined
           \/ \E d \in DeliveryServices : CombineDS(d)
    BY DEF Next, Combiner, Results, Manager, PeerManager, Config, vars, combined,
           Receive, GetCRStatesPeersInfo, GetLocalStates, CachesCombined,
           CreateStatsSetDS, CalcAvailability, GetDeliveryServices,
           SetDeliveryService, ResultsDone, Set, PeerResultDone,
           ConfigAddCache, ConfigDeleteCache, ConfigSetDS, SetPeers, SetTimeout,
           DistributedPeerResult, PeerTimesOut
  <2>5. ASSUME NEW d \in DeliveryServices, CombineDS(d)
        PROVE  OverrideExplainsEntry'
    BY <2>5 DEF CombineDS, OverrideExplainsEntry
  <2> QED
    BY <2>1, <2>2, <2>3, <2>4, <2>5
<1> QED
  BY <1>1, <1>2, TypeCorrect, PTL DEF Spec
=============================================================================
