------------------------ MODULE CombinerHistoryProofs ------------------------
(***************************************************************************)
(* StateCombiner implements OptimisticHealth, for any sets of caches,      *)
(* services, peers and managers.                                           *)
(***************************************************************************)
EXTENDS CombinerHistory, StateCombinerProofs

(* The history variable only remembers.                                    *)
LEMMA TracedIsCombiner == TracedSpec => Spec
<1>1. TracedInit => Init
  BY DEF TracedInit
<1>2. [TracedNext]_tracedVars => [Next]_vars
  BY DEF TracedNext, tracedVars
<1> QED
  BY <1>1, <1>2, PTL DEF TracedSpec, Spec

(***************************************************************************)
(* The inductive invariant.  Nothing is remembered between rounds, and     *)
(* whatever one of the combiner's copies says in favour of a cache is      *)
(* among what the round has seen.                                          *)
(***************************************************************************)
ForgottenWhenIdle == pc = "idle" => since = {}

PeersCopySeen ==
    pc \in {"gotPeers", "caches", "ds"} =>
        \A c \in Caches, p \in Peers : Vouches(peersArg, p, c) => c \in since

LocalCopySeen ==
    pc \in {"caches", "ds"} =>
        \A c \in Caches :
            cachesArg[c].ipv4Available \/ cachesArg[c].ipv6Available => c \in since

CopiesSeen == ForgottenWhenIdle /\ PeersCopySeen /\ LocalCopySeen

(* What a step may do to the combiner's place in the round.                *)
LEMMA RoundOrder ==
    ASSUME [Next]_vars
    PROVE  \/ Receive
           \/ GetCRStatesPeersInfo
           \/ GetLocalStates
           \/ \E c \in Caches : CombineCache(c)
           \/ CachesCombined
           \/ \E d \in DeliveryServices : CombineDS(d)
           \/ Prune
           \/ \E p \in Peers : PeerTimesOut(p)
           \/ UNCHANGED <<pc, args, combinedCaches>>
BY DEF Next, Combiner, Results, Manager, PeerManager, Config, vars, combined, args,
       CreateStatsSetDS, CalcAvailability, GetDeliveryServices,
       SetDeliveryService, ResultsDone, Set, PeerResultDone,
       ConfigAddCache, ConfigDeleteCache, ConfigSetDS, SetPeers, SetTimeout,
       DistributedPeerResult

LEMMA CopiesSeenStep ==
    ASSUME TypeOK, CopiesSeen, [TracedNext]_tracedVars
    PROVE  CopiesSeen'
<1> USE DEF CopiesSeen, ForgottenWhenIdle, PeersCopySeen, LocalCopySeen
<1>0. CASE UNCHANGED tracedVars
  BY <1>0 DEF tracedVars, vars, args, Vouches
<1> SUFFICES ASSUME TracedNext PROVE CopiesSeen'
  BY <1>0
<1> USE DEF TracedNext, Remember
<1>1. CASE Receive
  BY <1>1 DEF Receive, args
<1>2. CASE GetCRStatesPeersInfo
  <2>1. \A c \in Caches, p \in Peers : Vouches(peersArg', p, c) => c \in Held'
    BY <1>2 DEF GetCRStatesPeersInfo, Held, Vouches
  <2> QED
    BY <1>2, <2>1 DEF GetCRStatesPeersInfo, Vouches
<1>3. CASE GetLocalStates
  <2>1. \A c \in Caches :
           cachesArg'[c].ipv4Available \/ cachesArg'[c].ipv6Available => c \in Held'
    BY <1>3 DEF GetLocalStates, Held, local
  <2> QED
    BY <1>3, <2>1 DEF GetLocalStates, Vouches
<1>4. ASSUME NEW c \in Caches, CombineCache(c) PROVE CopiesSeen'
  BY <1>4 DEF CombineCache, Vouches
<1>5. CASE CachesCombined
  BY <1>5 DEF CachesCombined, Vouches
<1>6. ASSUME NEW d \in DeliveryServices, CombineDS(d) PROVE CopiesSeen'
  BY <1>6 DEF CombineDS, Vouches
<1>7. CASE Prune
  BY <1>7 DEF Prune
<1>8. ASSUME NEW p \in Peers, PeerTimesOut(p) PROVE CopiesSeen'
  <2>1. \A q \in Peers, c \in Caches :
           Vouches(peersArg', q, c) => Vouches(peersArg, q, c)
    BY <1>8 DEF PeerTimesOut, Vouches, TypeOK, PeerInfo
  <2> QED
    BY <1>8, <2>1 DEF PeerTimesOut, Vouches
<1>9. CASE UNCHANGED <<pc, args, combinedCaches>>
  BY <1>9 DEF args, Vouches
<1> QED
  BY RoundOrder, <1>1, <1>2, <1>3, <1>4, <1>5, <1>6, <1>7, <1>8, <1>9

-----------------------------------------------------------------------------
(* The merge makes a cache available only on somebody's word.              *)
LEMMA MergeNeedsVoucher ==
    ASSUME NEW c \in Caches, NEW l \in IsAvailable, NEW info \in [Peers -> PeerInfo],
           combineCacheState(c, l, info).isAvailable
    PROVE  \/ l.ipv4Available \/ l.ipv6Available
           \/ \E p \in Peers : Vouches(info, p, c)
BY DEF combineCacheState, Overridden, OnlineOnPeers, GetPeerAvailability, Vouches

(* Every step is a step of OptimisticHealth or changes nothing of it.      *)
LEMMA StepHealth ==
    ASSUME TypeOK, CopiesSeen, [TracedNext]_tracedVars
    PROVE  [Health!Next]_(Health!vars)
<1> USE DEF Health!Next
<1>0. CASE UNCHANGED tracedVars
  BY <1>0 DEF tracedVars, vars, local, combined, Held, Vouches, Published, Health!vars
<1> SUFFICES ASSUME TracedNext PROVE Health!Next
  BY <1>0
<1>a. Held' \in SUBSET Caches
  BY DEF Held
<1>1. CASE Receive
  BY <1>1, <1>a DEF Receive, TracedNext, Remember, combined, Published, Health!Look
<1>2. CASE GetCRStatesPeersInfo
  BY <1>2, <1>a DEF GetCRStatesPeersInfo, TracedNext, Remember, combined, Published,
                    Health!Look
<1>3. CASE GetLocalStates
  BY <1>3, <1>a DEF GetLocalStates, TracedNext, Remember, combined, Published,
                    Health!Look
<1>4. ASSUME NEW c \in Caches, CombineCache(c) PROVE Health!Next
  <2> DEFINE e == combineCacheState(c, cachesArg[c], peersArg)
  <2>1. since' = since /\ Held' = Held
    BY <1>4 DEF CombineCache, TracedNext, Remember, local, Held, Vouches, TypeOK
  <2>2. \A x \in Caches : combinedCaches'[x] = IF x = c THEN e ELSE combinedCaches[x]
    BY <1>4 DEF CombineCache, TypeOK
  <2>3. CASE e.isAvailable
    <3>1. c \in since
      BY <1>4, <2>3, MergeNeedsVoucher
         DEF CombineCache, CopiesSeen, PeersCopySeen, LocalCopySeen, TypeOK
    <3>2. Published' = Published \cup {c}
      BY <2>2, <2>3 DEF Published
    <3> QED
      BY <2>1, <3>1, <3>2 DEF Health!Raise
  <2>4. CASE ~e.isAvailable
    <3>1. Published' = Published \ {c}
      BY <2>2, <2>4 DEF Published
    <3> QED
      BY <2>1, <3>1 DEF Health!Lower
  <2> QED
    BY <2>3, <2>4
<1>5. CASE CachesCombined
  BY <1>5, <1>a DEF CachesCombined, TracedNext, Remember, combined, Published,
                    Health!Ignore
<1>6. ASSUME NEW d \in DeliveryServices, CombineDS(d) PROVE Health!Next
  BY <1>6, <1>a DEF CombineDS, TracedNext, Remember, Published, Health!Ignore
<1>7. CASE Prune
  <2>1. since' = {} /\ Held' = Held
    BY <1>7 DEF Prune, TracedNext, Remember, local, Held, Vouches
  <2>2. Published' \in SUBSET Published
    BY <1>7 DEF Prune, Published, Absent
  <2> QED
    BY <2>1, <2>2 DEF Health!Finish
<1>8. CASE UNCHANGED <<pc, combinedCaches>>
  <2>1. Published' = Published
    BY <1>8 DEF Published
  <2>2. CASE pc \in {"idle", "caches", "ds"}
    <3>1. since' = since
      BY <1>8, <2>2 DEF TracedNext, Remember, CopiesSeen, ForgottenWhenIdle
    <3> QED
      BY <1>a, <2>1, <3>1 DEF Health!Ignore
  <2>3. CASE pc \in {"received", "gotPeers"}
    <3>1. since' = since \cup Held'
      BY <1>8, <2>3 DEF TracedNext, Remember
    <3> QED
      BY <1>a, <2>1, <3>1 DEF Health!Look
  <2> QED
    BY <2>2, <2>3 DEF TypeOK
<1>9. ASSUME NEW p \in Peers, PeerTimesOut(p) PROVE UNCHANGED <<pc, combinedCaches>>
  BY <1>9 DEF PeerTimesOut, combined
<1>10. [Next]_vars
  BY DEF TracedNext
<1> QED
  BY <1>10, RoundOrder, <1>1, <1>2, <1>3, <1>4, <1>5, <1>6, <1>7, <1>8, <1>9

(***************************************************************************)
(* The combiner implements OptimisticHealth: although combineCrStates      *)
(* merges two copies taken at different moments while every input changes, *)
(* it makes a cache available to Traffic Routers only if this monitor or a *)
(* usable peer held it available since the round's signal.                 *)
(***************************************************************************)
THEOREM CombinerImplementsHealth == TracedSpec => HealthSpec
<1>1. TracedInit => Health!Init
  BY DEF TracedInit, Init, Held, Published, NoCaches, Absent, Health!Init
<1>2. TracedInit => CopiesSeen
  BY DEF TracedInit, Init, CopiesSeen, ForgottenWhenIdle, PeersCopySeen, LocalCopySeen
<1>3. TypeOK /\ CopiesSeen /\ [TracedNext]_tracedVars => CopiesSeen'
  BY CopiesSeenStep
<1>4. TypeOK /\ CopiesSeen /\ [TracedNext]_tracedVars => [Health!Next]_(Health!vars)
  BY StepHealth
<1>5. TracedSpec => []TypeOK
  BY TracedIsCombiner, TypeCorrect, PTL
<1> QED
  BY <1>1, <1>2, <1>3, <1>4, <1>5, PTL DEF TracedSpec, HealthSpec, Health!Spec
=============================================================================
