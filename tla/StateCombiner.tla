---------------------------- MODULE StateCombiner ----------------------------
(***************************************************************************)
(* The state combiner of one Traffic Monitor and the goroutines that feed  *)
(* it (traffic_monitor/manager/statecombiner.go, peer/crstates.go).        *)
(*                                                                         *)
(* localStates holds what this monitor measured or was configured with,    *)
(* peerStates the last answer of every peer monitor, combinedStates the    *)
(* merged view that Traffic Routers fetch.  The health, stat and peer      *)
(* managers write the first two and then signal the combiner through a     *)
(* one-slot channel; the config manager and the distributed peer manager   *)
(* write localStates without signalling.                                   *)
(*                                                                         *)
(* A Go map from names to entries is a total function here, a missing key  *)
(* being the entry Absent: like Go's zero value, all its flags are FALSE.  *)
(***************************************************************************)
EXTENDS Naturals, FiniteSets

CONSTANTS
    Caches,             \* cache server names
    DeliveryServices,   \* delivery service XML IDs
    Peers,              \* the other Traffic Monitors
    Managers,           \* goroutines that run CalcAvailability: health, stat
    StatManager,        \* the one of them that also runs CreateStats
    Reports,            \* availabilities a poll or a configured status gives
    PeerReports         \* what a peer's answer says of a cache, or Absent

(***************************************************************************)
(* tc.IsAvailable without its wording and time stamps.                     *)
(***************************************************************************)
IsAvailable ==
    [present : BOOLEAN, isAvailable : BOOLEAN,
     ipv4Available : BOOLEAN, ipv6Available : BOOLEAN]

Absent == [present |-> FALSE, isAvailable |-> FALSE,
           ipv4Available |-> FALSE, ipv6Available |-> FALSE]

Unavailable == [Absent EXCEPT !.present = TRUE]

ASSUME ReportsAssumption ==
    /\ Reports \subseteq {r \in IsAvailable : r.present}
    /\ PeerReports \subseteq IsAvailable

ASSUME ManagersAssumption == StatManager \in Managers

DSStates == {"absent", "unavailable", "available"}

NoCaches == [c \in Caches |-> Absent]
NoDSes   == [d \in DeliveryServices |-> "absent"]

(***************************************************************************)
(* What CRStatesPeersThreadsafe keeps about one peer.  "known" says it has *)
(* a key in crStates, "polledOK" is peerStates[p], "online" peerOnline[p], *)
(* "fresh" that peerTimes[p] is within the timeout.                        *)
(***************************************************************************)
PeerInfo ==
    [known : BOOLEAN, polledOK : BOOLEAN, online : BOOLEAN, fresh : BOOLEAN,
     caches : [Caches -> IsAvailable], ds : [DeliveryServices -> DSStates]]

UnknownPeer ==
    [known |-> FALSE, polledOK |-> FALSE, online |-> FALSE, fresh |-> FALSE,
     caches |-> NoCaches, ds |-> NoDSes]

NoPeers == [p \in Peers |-> UnknownPeer]

VARIABLES
    localCaches, localDS,        \* localStates
    peers,                       \* peerStates
    combinedCaches, combinedDS,  \* combinedStates
    overrideMap,                 \* private to the combiner
    combineStateChan,            \* signals waiting in the channel
    pc,                          \* where the combiner goroutine is
    peersArg, cachesArg, dsArg,  \* the copies it passed to combineCrStates
    todo,                        \* caches and services its loops still have
    mgrPc, mgrDS,                \* the result managers; the DS copy each holds
    peerMgrPc,                   \* the peer manager
    dirtyPeers, dirtyLocal       \* history: changed, without a signal, since
                                 \* the combiner last copied it

local    == <<localCaches, localDS>>
combined == <<combinedCaches, combinedDS, overrideMap>>
args     == <<peersArg, cachesArg, dsArg, todo>>
mgrs     == <<mgrPc, mgrDS>>
dirty    == <<dirtyPeers, dirtyLocal>>

vars == <<local, peers, combined, combineStateChan, pc, args, mgrs,
          peerMgrPc, dirty>>

Init ==
    /\ localCaches = NoCaches /\ localDS = NoDSes
    /\ peers = NoPeers
    /\ combinedCaches = NoCaches /\ combinedDS = NoDSes
    /\ overrideMap = [c \in Caches |-> FALSE]
    /\ combineStateChan = 0
    /\ pc = "idle"
    /\ peersArg = NoPeers /\ cachesArg = NoCaches /\ dsArg = NoDSes
    /\ todo = {}
    /\ mgrPc = [m \in Managers |-> "idle"]
    /\ mgrDS = [m \in Managers |-> NoDSes]
    /\ peerMgrPc = "idle"
    /\ dirtyPeers = FALSE /\ dirtyLocal = FALSE

-----------------------------------------------------------------------------
(* The health and the stat result manager.                                 *)

(* A cache that was removed meanwhile is not added again.                  *)
SetCache(c, r) ==
    localCaches' = IF localCaches[c].present
                     THEN [localCaches EXCEPT ![c] = r]
                     ELSE localCaches

(* Seeded fault: the managers process their results and tell nobody.       *)
combineState_Silent == UNCHANGED combineStateChan

(* Seeded fault: an unbuffered channel, a signal during a run is dropped.  *)
combineState_Unbuffered ==
    combineStateChan' = IF pc = "idle" THEN 1 ELSE combineStateChan

(* Seeded fault: a second slot, so the same work is promised twice.        *)
combineState_TwoSlots ==
    combineStateChan' = IF combineStateChan < 2 THEN combineStateChan + 1
                                                ELSE combineStateChan

(* The non-blocking send into one slot: a full slot promises a run.        *)
combineState ==
    combineStateChan' = IF combineStateChan < 1 THEN combineStateChan + 1
                                                ELSE combineStateChan

(* CreateStats, run by the stat manager before CalcAvailability, writes    *)
(* the availability of every service of its copy of the Traffic Ops data,  *)
(* whether or not localStates still has it.                                *)
CreateStatsSetDS(d, s) ==
    /\ mgrPc[StatManager] \in {"idle", "stats"}
    /\ localDS' = [localDS EXCEPT ![d] = s]
    /\ mgrPc' = [mgrPc EXCEPT ![StatManager] = "stats"]
    /\ UNCHANGED <<localCaches, peers, combined, combineStateChan, pc, args,
                   mgrDS, peerMgrPc, dirty>>

(* CalcAvailability, one cache of the batch.                               *)
CalcAvailability(m, c, r) ==
    /\ mgrPc[m] \in {"idle", "stats", "calc"}
    /\ SetCache(c, r)
    /\ mgrPc' = [mgrPc EXCEPT ![m] = "calc"]
    /\ UNCHANGED <<localDS, peers, combined, combineStateChan, pc, args,
                   mgrDS, peerMgrPc, dirty>>

(* calculateDeliveryServiceState copies the services (a batch of results   *)
(* may concern only caches removed meanwhile, and change none) ...         *)
GetDeliveryServices(m) ==
    /\ mgrPc[m] \in {"stats", "calc"}
    /\ mgrDS' = [mgrDS EXCEPT ![m] = localDS]
    /\ mgrPc' = [mgrPc EXCEPT ![m] = "ds"]
    /\ UNCHANGED <<local, peers, combined, combineStateChan, pc, args,
                   peerMgrPc, dirty>>

(* ... and writes each of them back.                                       *)
SetDeliveryService(m, d) ==
    /\ mgrPc[m] = "ds"
    /\ mgrDS[m][d] # "absent"
    /\ localDS' = [localDS EXCEPT ![d] = mgrDS[m][d]]
    /\ mgrDS' = [mgrDS EXCEPT ![m][d] = "absent"]
    /\ UNCHANGED <<localCaches, peers, combined, combineStateChan, pc, args,
                   mgrPc, peerMgrPc, dirty>>

ResultsDone(m) ==
    /\ mgrPc[m] = "ds"
    /\ mgrDS[m] = NoDSes
    /\ combineState
    /\ mgrPc' = [mgrPc EXCEPT ![m] = "idle"]
    /\ UNCHANGED <<local, peers, combined, pc, args, mgrDS, peerMgrPc, dirty>>

-----------------------------------------------------------------------------
(* The peer manager: Set, then combineState.                               *)

(* A failed poll stores what was decoded before the failure, or nothing.   *)
Set(p, ok, cs, ds) ==
    /\ peerMgrPc = "idle"
    /\ peers' = [peers EXCEPT ![p] =
         [known |-> TRUE, polledOK |-> ok, online |-> peers[p].online,
          fresh |-> TRUE, caches |-> cs, ds |-> ds]]
    /\ peerMgrPc' = "set"
    /\ UNCHANGED <<local, combined, combineStateChan, pc, args, mgrs, dirty>>

PeerResultDone ==
    /\ peerMgrPc = "set"
    /\ combineState
    /\ peerMgrPc' = "idle"
    /\ UNCHANGED <<local, peers, combined, pc, args, mgrs, dirty>>

-----------------------------------------------------------------------------
(* Writers that do not signal.                                             *)

(* The config manager adds an ONLINE cache as available, and any other     *)
(* new one as unavailable; an existing non-ONLINE one it leaves alone.     *)
ConfigAddCache(c, r) ==
    /\ r = Unavailable => ~localCaches[c].present
    /\ localCaches' = [localCaches EXCEPT ![c] = r]
    /\ dirtyLocal' = TRUE
    /\ UNCHANGED <<localDS, peers, combined, combineStateChan, pc, args, mgrs,
                   peerMgrPc, dirtyPeers>>

ConfigDeleteCache(c) ==
    /\ localCaches[c].present
    /\ localCaches' = [localCaches EXCEPT ![c] = Absent]
    /\ dirtyLocal' = TRUE
    /\ UNCHANGED <<localDS, peers, combined, combineStateChan, pc, args, mgrs,
                   peerMgrPc, dirtyPeers>>

(* A new service starts unavailable; one no longer configured is deleted.  *)
ConfigSetDS(d) ==
    /\ localDS' = [localDS EXCEPT ![d] =
                     IF localDS[d] = "absent" THEN "unavailable" ELSE "absent"]
    /\ dirtyLocal' = TRUE
    /\ UNCHANGED <<localCaches, peers, combined, combineStateChan, pc, args,
                   mgrs, peerMgrPc, dirtyPeers>>

(* A peer is marked online or not only if it has been polled before.       *)
SetPeers(newPeers) ==
    /\ peers' = [p \in Peers |->
                   IF peers[p].known
                     THEN [peers[p] EXCEPT !.online = (p \in newPeers)]
                     ELSE peers[p]]
    /\ dirtyPeers' = TRUE
    /\ UNCHANGED <<local, combined, combineStateChan, pc, args, mgrs,
                   peerMgrPc, dirtyLocal>>

(* A longer timeout may make old answers usable again, a shorter one the   *)
(* contrary.                                                               *)
SetTimeout(inTime) ==
    /\ LET now == {p \in Peers : peers[p].fresh}
       IN  inTime \subseteq now \/ now \subseteq inTime
    /\ inTime \subseteq {p \in Peers : peers[p].known}
    /\ peers' = [p \in Peers |-> [peers[p] EXCEPT !.fresh = (p \in inTime)]]
    /\ dirtyPeers' = TRUE
    /\ UNCHANGED <<local, combined, combineStateChan, pc, args, mgrs,
                   peerMgrPc, dirtyLocal>>

(* A remote group's answer for a cache this monitor does not poll.         *)
DistributedPeerResult(c, r) ==
    /\ SetCache(c, r)
    /\ dirtyLocal' = TRUE
    /\ UNCHANGED <<localDS, peers, combined, combineStateChan, pc, args, mgrs,
                   peerMgrPc, dirtyPeers>>

(* Time passes: an answer becomes too old, in the live structure and in    *)
(* the combiner's copy, whose time stamp is the same or older.             *)
PeerTimesOut(p) ==
    /\ peers[p].fresh \/ peersArg[p].fresh
    /\ \/ peers' = [peers EXCEPT ![p].fresh = FALSE]
       \/ peers' = peers
    /\ peersArg' = [peersArg EXCEPT ![p].fresh = FALSE]
    /\ dirtyPeers' = TRUE
    /\ UNCHANGED <<local, combined, combineStateChan, pc, cachesArg, dsArg,
                   todo, mgrs, peerMgrPc, dirtyLocal>>

-----------------------------------------------------------------------------
(* The combiner goroutine.                                                 *)

HasAvailablePeers(info) == \E p \in Peers : info[p].polledOK

(* Seeded fault: an answer counts however old it is.                       *)
GetPeerAvailability_Stale(info, p) == info[p].polledOK /\ info[p].online

GetPeerAvailability(info, p) ==
    info[p].polledOK /\ info[p].online /\ info[p].fresh

OnlineOnPeers(info, c) ==
    {p \in Peers : GetPeerAvailability(info, p) /\ info[p].caches[c].isAvailable}

(* Does the merge take the peers' word for cache c, locally l?             *)
Overridden(c, l, info) ==
    /\ ~(l.ipv4Available /\ l.ipv6Available)
    /\ HasAvailablePeers(info)
    /\ OnlineOnPeers(info, c) # {}

(* combineCacheState: the entry stored for cache c.                        *)
combineCacheState(c, l, info) ==
    LET onPeer(flag(_)) == \E p \in Peers : /\ GetPeerAvailability(info, p)
                                           /\ flag(info[p].caches[c])
        v4(e) == e.ipv4Available
        v6(e) == e.ipv6Available
    IN  IF Overridden(c, l, info)
          THEN [present |-> TRUE, isAvailable |-> TRUE,
                ipv4Available |-> l.ipv4Available \/ onPeer(v4),
                ipv6Available |-> l.ipv6Available \/ onPeer(v6)]
          ELSE [present |-> TRUE,
                isAvailable |-> l.ipv4Available \/ l.ipv6Available,
                ipv4Available |-> l.ipv4Available,
                ipv6Available |-> l.ipv6Available]

(* combineDSState: every peer's last answer counts, usable or not.         *)
combineDSState(d, l, info) ==
    IF l = "available" \/ \E p \in Peers : info[p].ds[d] = "available"
      THEN "available"
      ELSE "unavailable"

Receive ==
    /\ pc = "idle"
    /\ combineStateChan > 0
    /\ combineStateChan' = combineStateChan - 1
    /\ pc' = "received"
    /\ UNCHANGED <<local, peers, combined, args, mgrs, peerMgrPc, dirty>>

GetCRStatesPeersInfo ==
    /\ pc = "received"
    /\ peersArg' = peers
    /\ dirtyPeers' = FALSE
    /\ pc' = "gotPeers"
    /\ UNCHANGED <<local, peers, combined, combineStateChan, cachesArg, dsArg,
                   todo, mgrs, peerMgrPc, dirtyLocal>>

GetLocalStates ==
    /\ pc = "gotPeers"
    /\ cachesArg' = localCaches
    /\ dsArg' = localDS
    /\ todo' = {c \in Caches : localCaches[c].present}
    /\ dirtyLocal' = FALSE
    /\ pc' = "caches"
    /\ UNCHANGED <<local, peers, combined, combineStateChan, peersArg, mgrs,
                   peerMgrPc, dirtyPeers>>

(* Seeded fault: an override is never cleared.                             *)
NewOverride_Sticky(c) ==
    overrideMap[c] \/ Overridden(c, cachesArg[c], peersArg)

(* Set and cleared with the event that reports the override.               *)
NewOverride(c) == Overridden(c, cachesArg[c], peersArg)

CombineCache(c) ==
    /\ pc = "caches"
    /\ c \in todo
    /\ combinedCaches' = [combinedCaches EXCEPT ![c] =
                            combineCacheState(c, cachesArg[c], peersArg)]
    /\ overrideMap' = [overrideMap EXCEPT ![c] = NewOverride(c)]
    /\ todo' = todo \ {c}
    /\ UNCHANGED <<local, peers, combinedDS, combineStateChan, pc, peersArg,
                   cachesArg, dsArg, mgrs, peerMgrPc, dirty>>

CachesCombined ==
    /\ pc = "caches"
    /\ todo = {}
    /\ todo' = {d \in DeliveryServices : dsArg[d] # "absent"}
    /\ pc' = "ds"
    /\ UNCHANGED <<local, peers, combined, combineStateChan, peersArg,
                   cachesArg, dsArg, mgrs, peerMgrPc, dirty>>

CombineDS(d) ==
    /\ pc = "ds"
    /\ d \in todo
    /\ combinedDS' = [combinedDS EXCEPT ![d] =
                        combineDSState(d, dsArg[d], peersArg)]
    /\ todo' = todo \ {d}
    /\ UNCHANGED <<local, peers, combinedCaches, overrideMap, combineStateChan,
                   pc, peersArg, cachesArg, dsArg, mgrs, peerMgrPc, dirty>>

(* Seeded fault: a service is pruned only once no peer is known.           *)
KeepDS_AnyPeer(d) == dsArg[d] # "absent" \/ \E p \in Peers : peersArg[p].known

(* pruneCombinedDSState keeps what the local or any peer's states list.    *)
KeepDS(d) ==
    dsArg[d] # "absent" \/ \E p \in Peers : peersArg[p].ds[d] # "absent"

(* Both prunings; the copies are garbage once combineCrStates returns.     *)
Prune ==
    /\ pc = "ds"
    /\ todo = {}
    /\ combinedDS' = [d \in DeliveryServices |->
         IF KeepDS(d) THEN combinedDS[d] ELSE "absent"]
    /\ combinedCaches' = [c \in Caches |->
         IF cachesArg[c].present THEN combinedCaches[c] ELSE Absent]
    /\ peersArg' = NoPeers /\ cachesArg' = NoCaches /\ dsArg' = NoDSes
    /\ pc' = "idle"
    /\ UNCHANGED <<local, peers, overrideMap, combineStateChan, todo, mgrs,
                   peerMgrPc, dirty>>

Combiner ==
    \/ Receive
    \/ GetCRStatesPeersInfo
    \/ GetLocalStates
    \/ \E c \in Caches : CombineCache(c)
    \/ CachesCombined
    \/ \E d \in DeliveryServices : CombineDS(d)
    \/ Prune

(* The steps a result manager takes once it has results.                   *)
Manager(m) ==
    \/ GetDeliveryServices(m)
    \/ \E d \in DeliveryServices : SetDeliveryService(m, d)
    \/ ResultsDone(m)

Results ==
    \/ \E d \in DeliveryServices, s \in {"unavailable", "available"} :
          CreateStatsSetDS(d, s)
    \/ \E m \in Managers, c \in Caches, r \in Reports : CalcAvailability(m, c, r)
    \/ \E m \in Managers : Manager(m)

PeerStatesOf == [Caches -> PeerReports]

PeerManager ==
    \/ \E p \in Peers, ok \in BOOLEAN, cs \in PeerStatesOf,
          ds \in [DeliveryServices -> DSStates] : Set(p, ok, cs, ds)
    \/ PeerResultDone

Config ==
    \/ \E c \in Caches, r \in {u \in Reports : u.isAvailable} \cup {Unavailable} :
          ConfigAddCache(c, r)
    \/ \E c \in Caches : ConfigDeleteCache(c)
    \/ \E d \in DeliveryServices : ConfigSetDS(d)
    \/ \E newPeers \in SUBSET Peers : SetPeers(newPeers)
    \/ \E inTime \in SUBSET Peers : SetTimeout(inTime)

Next ==
    \/ Combiner
    \/ Results
    \/ PeerManager
    \/ Config
    \/ \E c \in Caches, r \in Reports : DistributedPeerResult(c, r)
    \/ \E p \in Peers : PeerTimesOut(p)

Spec == Init /\ [][Next]_vars

(***************************************************************************)
(* Every goroutine that has work goes on, and polling never stops: as long *)
(* as a cache or a peer is configured, its poller ticks and hands the      *)
(* manager another result.                                                 *)
(***************************************************************************)
Poll == \/ \E m \in Managers, c \in Caches, r \in Reports :
              mgrPc[m] = "idle" /\ CalcAvailability(m, c, r)
        \/ \E p \in Peers, ok \in BOOLEAN, cs \in PeerStatesOf,
              ds \in [DeliveryServices -> DSStates] : Set(p, ok, cs, ds)

Fairness ==
    /\ WF_vars(Combiner)
    /\ \A m \in Managers : WF_vars(Manager(m))
    /\ WF_vars(PeerResultDone)
    /\ WF_vars(Poll)

FairSpec == Spec /\ Fairness

-----------------------------------------------------------------------------

TypeOK ==
    /\ localCaches \in [Caches -> IsAvailable]
    /\ localDS \in [DeliveryServices -> DSStates]
    /\ peers \in [Peers -> PeerInfo]
    /\ combinedCaches \in [Caches -> IsAvailable]
    /\ combinedDS \in [DeliveryServices -> DSStates]
    /\ overrideMap \in [Caches -> BOOLEAN]
    /\ combineStateChan \in 0..1
    /\ pc \in {"idle", "received", "gotPeers", "caches", "ds"}
    /\ peersArg \in [Peers -> PeerInfo]
    /\ cachesArg \in [Caches -> IsAvailable]
    /\ dsArg \in [DeliveryServices -> DSStates]
    /\ todo \subseteq Caches \cup DeliveryServices
    /\ mgrPc \in [Managers -> {"idle", "stats", "calc", "ds"}]
    /\ mgrDS \in [Managers -> [DeliveryServices -> DSStates]]
    /\ peerMgrPc \in {"idle", "set"}
    /\ dirtyPeers \in BOOLEAN /\ dirtyLocal \in BOOLEAN

(* No work is pending: the combiner waits on an empty channel, no manager  *)
(* still owes it a signal, and nobody wrote without one.                   *)
Quiescent ==
    /\ pc = "idle" /\ combineStateChan = 0
    /\ \A m \in Managers : mgrPc[m] = "idle"
    /\ peerMgrPc = "idle"
    /\ ~dirtyPeers /\ ~dirtyLocal

(***************************************************************************)
(* No wake-up is lost: although the combiner copies the peers and the      *)
(* local states at different moments, and a signal sent while it runs or   *)
(* while the slot is full is dropped, whenever nothing is pending every    *)
(* published cache and service is the merge of the CURRENT local and peer  *)
(* states, and a cache unknown locally is not published.                   *)
(***************************************************************************)
CachesPublished ==
    \A c \in Caches :
        combinedCaches[c] = IF localCaches[c].present
                              THEN combineCacheState(c, localCaches[c], peers)
                              ELSE Absent

DSPublished ==
    \A d \in DeliveryServices :
        /\ localDS[d] # "absent" =>
              combinedDS[d] = combineDSState(d, localDS[d], peers)
        /\ localDS[d] = "absent" /\ (\A p \in Peers : peers[p].ds[d] = "absent")
              => combinedDS[d] = "absent"

NoLostWakeup == Quiescent => CachesPublished /\ DSPublished

(***************************************************************************)
(* At every moment, half-way through a merge included, a published entry   *)
(* and the override flag tell one story: an overridden cache is published  *)
(* available, and one that is not overridden is published available        *)
(* exactly when one of its published protocols is.                         *)
(***************************************************************************)
OverrideExplainsEntry ==
    \A c \in Caches : combinedCaches[c].present =>
        IF overrideMap[c]
          THEN combinedCaches[c].isAvailable
          ELSE combinedCaches[c].isAvailable =
                 (combinedCaches[c].ipv4Available \/ combinedCaches[c].ipv6Available)

(***************************************************************************)
(* Optimism wins in the end: a cache that stays healthy locally on both    *)
(* protocols ends up published available for good, whatever the peers say, *)
(* and a cache removed for good ends up unpublished, although the config   *)
(* manager that removes it never signals the combiner.                     *)
(***************************************************************************)
LocalVerdictPublished ==
    \A c \in Caches :
        /\ <>[](localCaches[c].ipv4Available /\ localCaches[c].ipv6Available)
              => <>[](combinedCaches[c].isAvailable)
        /\ <>[](~localCaches[c].present) => <>[](~combinedCaches[c].present)
=============================================================================
