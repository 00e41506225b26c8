------------------------- MODULE MonitorStartupProofs -------------------------
(* Proofs about MonitorStartup, for any caches and configurations.         *)
EXTENDS MonitorStartup, FiniteSetTheorems, TLAPS

(* Conditions are Boolean whatever they are about.                         *)
LEMMA GateTypes ==
    ASSUME TypeOK
    PROVE  /\ (~Any) \in BOOLEAN /\ (~AnyDirectlyPolled) \in BOOLEAN
           /\ \A x, y : (x \/ y) \in BOOLEAN
BY Zenon DEF Any, AnyDirectlyPolled

(* What a request in service is.                                           *)
InService == [pc : GateSteps, kind : Kinds, polled : BOOLEAN]

LEMMA GateStepType ==
    ASSUME TypeOK, NEW r \in Requests, NEW pc \in GateSteps, NEW b \in BOOLEAN,
           GateStep(r, pc, b)
    PROVE  req' \in [Requests -> InService]
<1>1. req[r].kind \in Kinds
  BY DEF TypeOK
<1>2. req'[r] = [pc |-> pc, kind |-> req[r].kind, polled |-> b]
  BY DEF GateStep, TypeOK
<1> QED
  BY <1>1, <1>2 DEF GateStep, TypeOK, InService

LEMMA IdleType == Idle \in InService
BY DEF Idle, InService, GateSteps, Kinds

LEMMA NoResultsType == NoResults \in Batches
<1>1. {c \in Caches : NoResults[c] # "none"} = {}
  BY DEF NoResults
<1>2. NoResults \in [Caches -> {"none", "one", "two", "bad"}]
  BY DEF NoResults
<1>3. Cardinality({}) = 0
  BY FS_EmptySet
<1>4. 0 <= MaxBatch
  BY ConfigsAssumption
<1> QED
  BY <1>1, <1>2, <1>3, <1>4 DEF Batches

LEMMA StepTypes == TypeOK /\ [Next]_vars => TypeOK'
<1> SUFFICES ASSUME TypeOK, [Next]_vars PROVE TypeOK'
  OBVIOUS
<1> USE DEF TypeOK
<1>1. ASSUME NEW k \in Configs, PollConfig(k) PROVE TypeOK'
  BY <1>1 DEF PollConfig, writeConfig, cfgVars, pollVars, mgrVars, listVars, gateVars
<1>2. CASE ReceiveConfig
  <2>1. PICK k \in Configs : configChan = <<k>>
    BY <1>2 DEF ReceiveConfig
  <2>2. started' \in BOOLEAN
    BY <1>2, Zenon DEF ReceiveConfig
  <2>3. awaited' \in SUBSET Caches
    BY <1>2 DEF ReceiveConfig
  <2>4. cfg' \in Configs \cup {NoConfig} /\ cfgPc' \in {"idle", "seed", "send", "delete", "notify"}
    BY <1>2, <2>1 DEF ReceiveConfig
  <2>5. monitorConfig' \in Configs \cup {NoConfig} /\ configChan' = <<>>
    BY <1>2, <2>1 DEF ReceiveConfig
  <2> QED
    BY <1>2, <2>2, <2>3, <2>4, <2>5 DEF ReceiveConfig, pollVars, mgrVars, listVars, gateVars
<1>3. CASE SeedCaches
  <2>1. localStates' \in [Caches -> {"absent", "direct", "indirect"}]
    BY <1>3 DEF SeedCaches, Seed
  <2> QED
    BY <1>3, <2>1 DEF SeedCaches, pollVars, mgrVars, listVars, gateVars
<1>4. CASE SendPollers
  BY <1>4 DEF SendPollers, PolledBy, mgrVars, listVars, gateVars
<1>5. CASE DeleteCaches
  <2>1. localStates' \in [Caches -> {"absent", "direct", "indirect"}]
    BY <1>5 DEF DeleteCaches
  <2> QED
    BY <1>5, <2>1 DEF DeleteCaches, pollVars, mgrVars, listVars, gateVars
<1>6. ASSUME NEW b \in Batches, Process(b) PROVE TypeOK'
  BY <1>6 DEF Process, listVars, gateVars
<1>7. CASE GetMonitorConfig
  BY <1>7 DEF GetMonitorConfig, cfgVars, pollVars, listVars, gateVars
<1>8. CASE SetNewCaches
  <2>1. unpolled' \in [Caches -> {"no", "direct", "indirect"}]
    BY <1>8 DEF SetNewCaches, getNewCaches
  <2>2. seen' \in [Caches -> {"no", "new", "old"}]
    BY <1>8 DEF SetNewCaches
  <2>3. initialized' \in BOOLEAN
    BY <1>8, Zenon DEF SetNewCaches
  <2> QED
    BY <1>8, <2>1, <2>2, <2>3 DEF SetNewCaches, getNewCaches, cfgVars, pollVars, gateVars
<1>9. CASE ProcessResults
  <2>1. localStates' \in [Caches -> {"absent", "direct", "indirect"}]
    BY <1>9 DEF ProcessResults
  <2>2. /\ unpolled' \in [Caches -> {"no", "direct", "indirect"}]
        /\ seen' \in [Caches -> {"no", "new", "old"}]
        /\ lastStat' \in [Caches -> {"none", "zero", "moving"}]
    <3>1. ASSUME NEW stat \in NewStats, NEW age \in [Caches -> {"new", "old"}],
                 SetPolled(stat, age)
          PROVE  <2>2!1 /\ <2>2!2 /\ <2>2!3
      BY <3>1 DEF SetPolled, NewStats
    <3>2. ASSUME SetHealthPolled
          PROVE  <2>2!1 /\ <2>2!2 /\ <2>2!3
      BY <3>2 DEF SetHealthPolled, Batches
    <3> QED
      BY <1>9, <3>1, <3>2 DEF ProcessResults
  <2>3. awaited' \in SUBSET Caches
    BY <1>9 DEF ProcessResults
  <2>4. batch' \in Batches
    BY <1>9, NoResultsType DEF ProcessResults
  <2> QED
    BY <1>9, <2>1, <2>2, <2>3, <2>4 DEF ProcessResults, cfgVars, pollVars, gateVars
<1>10. ASSUME NEW c \in Caches, SeenTimesOut(c) PROVE TypeOK'
  BY <1>10 DEF SeenTimesOut, cfgVars, pollVars, mgrVars, gateVars
<1>11. ASSUME NEW cs \in SUBSET RemoteCaches, NEW ok \in BOOLEAN,
              DistributedPeerResult(cs, ok)
       PROVE  TypeOK'
  BY <1>11 DEF DistributedPeerResult, RemoteCaches, cfgVars, pollVars, mgrVars, gateVars
<1>12. ASSUME NEW r \in Requests, NEW kind \in RequestKinds, Request(r, kind) PROVE TypeOK'
  <2>1. req' \in [Requests -> InService]
    BY <1>12, ConfigsAssumption DEF Request, InService, GateSteps
  <2> QED
    BY <1>12, <2>1 DEF Request, InService, cfgVars, pollVars, mgrVars, listVars
<1>13. ASSUME NEW r \in Requests, Gate(r) PROVE TypeOK'
  <2>1. req' \in [Requests -> InService]
    BY <1>13, GateStepType, GateTypes, IdleType
       DEF Gate, CheckFlag, CheckAny, StoreAll, CheckDirect, StoreLocal, Serve, Refuse,
           GateSteps, InService
  <2>2. polledAll' \in BOOLEAN /\ polledLocal' \in BOOLEAN
    BY <1>13 DEF Gate, CheckFlag, CheckAny, StoreAll, CheckDirect, StoreLocal, Serve, Refuse
  <2>3. UNCHANGED <<toConfig, configChan, cfgVars, localStates, pollVars, mgrVars,
                    listVars, awaited>>
    BY <1>13 DEF Gate, CheckFlag, CheckAny, StoreAll, CheckDirect, StoreLocal, Serve, Refuse,
                 GateStep
  <2> QED
    BY <2>1, <2>2, <2>3 DEF InService, cfgVars, pollVars, mgrVars, listVars
<1>14. CASE UNCHANGED vars
  BY <1>14 DEF vars, cfgVars, pollVars, mgrVars, listVars, gateVars
<1> HIDE DEF TypeOK
<1> QED
  BY <1>1, <1>2, <1>3, <1>4, <1>5, <1>6, <1>7, <1>8, <1>9, <1>10, <1>11, <1>12,
     <1>13, <1>14 DEF Next, ConfigManager, Manager

(***************************************************************************)
(* Every variable keeps its type: the configuration channel never holds    *)
(* more than one configuration, and only configurations Traffic Ops can    *)
(* hold are ever applied.                                                  *)
(***************************************************************************)
THEOREM TypeCorrect == Spec => []TypeOK
<1>1. ASSUME Init PROVE TypeOK
  <2>1. /\ initialized \in BOOLEAN /\ polledAll \in BOOLEAN /\ polledLocal \in BOOLEAN
        /\ started \in BOOLEAN
    BY <1>1, Zenon DEF Init
  <2>2. req \in [Requests -> [pc : GateSteps, kind : Kinds, polled : BOOLEAN]]
    BY <1>1, IdleType DEF Init, InService
  <2> QED
    BY <1>1, <2>1, <2>2, NoResultsType DEF Init, TypeOK
<1> QED
  BY <1>1, StepTypes, PTL DEF Spec

-----------------------------------------------------------------------------
(***************************************************************************)
(* The inductive invariant behind ServedOnlyPolled.  A configuration       *)
(* reaches the list of unpolled caches in two hops, the configuration      *)
(* manager's and the result manager's, and newer configurations overtake   *)
(* it on the way; the awaited caches are in all of them.                   *)
(***************************************************************************)
Wanted(k) == {c \in Caches : k.caches[c] \notin {"absent", "online"}}

(* Has a configuration been seeded in localStates?                         *)
Seeded == \/ cfgPc \in {"send", "delete", "notify"}
          \/ mgrPc \in {"changed", "newCaches"}
          \/ initialized

(* Every configuration somebody holds still wants the awaited caches.      *)
AwaitedIsWanted ==
    /\ cfgPc # "idle" \/ Seeded => started
    /\ cfgPc # "idle" => awaited \subseteq Wanted(cfg)
    /\ started => awaited \subseteq Wanted(monitorConfig)
    /\ mgrPc = "newCaches" => awaited \subseteq Wanted(mgrCfg)

AwaitedIsSeeded == Seeded => \A c \in awaited : localStates[c] # "absent"

(* An awaited cache is on the list, and on the list of directly polled     *)
(* ones if it is.                                                          *)
AwaitedIsListed ==
    /\ ~initialized => allCaches = {}
    /\ \A c \in awaited : lastStat[c] = "none"
    /\ initialized => \A c \in awaited :
          unpolled[c] # "no" /\ (localStates[c] = "direct" => unpolled[c] = "direct")

(* No awaited cache is polled by this monitor: final once it is so.        *)
LocalsReported == initialized /\ \A c \in awaited : localStates[c] # "direct"

(* What the flags say, and what a request is about to store in them, was   *)
(* found on the list and stays true.                                       *)
GateIsRight ==
    /\ polledAll => awaited = {}
    /\ polledLocal => LocalsReported
    /\ \A r \in Requests :
         /\ req[r].pc = "flag" => awaited = {}
         /\ req[r].pc = "setAll" /\ req[r].polled => awaited = {}
         /\ req[r].pc = "setLocal" /\ req[r].polled => LocalsReported

StartupInv == AwaitedIsWanted /\ AwaitedIsSeeded /\ AwaitedIsListed /\ GateIsRight

(* The gate stays right while awaited caches are only reported or dropped. *)
LEMMA GateStaysRight ==
    ASSUME GateIsRight, UNCHANGED gateVars, awaited' \subseteq awaited,
           LocalsReported => LocalsReported'
    PROVE  GateIsRight'
BY DEF GateIsRight, gateVars

LEMMA StartupInvStep == TypeOK /\ StartupInv /\ [Next]_vars => StartupInv'
<1> SUFFICES ASSUME TypeOK, StartupInv, [Next]_vars PROVE StartupInv'
  OBVIOUS
<1> USE DEF StartupInv, AwaitedIsWanted, AwaitedIsSeeded, AwaitedIsListed, Seeded
<1>0. awaited \in SUBSET Caches
  BY DEF TypeOK
<1>1. ASSUME NEW k \in Configs, PollConfig(k) PROVE StartupInv'
  BY <1>1, GateStaysRight
     DEF PollConfig, LocalsReported, cfgVars, pollVars, mgrVars, listVars
<1>2. CASE ReceiveConfig
  <2>1. awaited' \subseteq awaited /\ (started' => awaited' \subseteq Wanted(monitorConfig'))
    BY <1>0, <1>2 DEF ReceiveConfig, Wanted
  <2>2. AwaitedIsWanted'
    BY <1>2, <2>1 DEF ReceiveConfig, mgrVars, listVars
  <2> QED
    BY <1>2, <2>1, <2>2, GateStaysRight DEF ReceiveConfig, LocalsReported, mgrVars, listVars
<1>3. CASE SeedCaches
  <2>1. \A c \in awaited : cfg.caches[c] \notin {"absent", "online"}
    BY <1>0, <1>3 DEF SeedCaches, Wanted
  <2>2. \A c \in awaited : localStates'[c] = Seed(cfg.caches[c], localStates[c])
    BY <1>0, <1>3 DEF SeedCaches
  <2>3. \A c \in awaited : /\ localStates'[c] # "absent"
                           /\ localStates[c] # "absent" => localStates'[c] = localStates[c]
    BY <2>1, <2>2 DEF Seed
  <2> QED
    BY <1>3, <2>3, GateStaysRight DEF SeedCaches, LocalsReported, pollVars, mgrVars, listVars
<1>4. CASE SendPollers
  BY <1>4, GateStaysRight DEF SendPollers, LocalsReported, mgrVars, listVars
<1>5. CASE DeleteCaches
  <2>1. \A c \in awaited : localStates'[c] = localStates[c]
    BY <1>0, <1>5 DEF DeleteCaches, Wanted
  <2> QED
    BY <1>5, <2>1, GateStaysRight DEF DeleteCaches, LocalsReported, pollVars, mgrVars, listVars
<1>6. ASSUME NEW b \in Batches, Process(b) PROVE StartupInv'
  BY <1>6, GateStaysRight DEF Process, haveCachesChanged, LocalsReported, listVars
<1>7. CASE GetMonitorConfig
  BY <1>7, GateStaysRight DEF GetMonitorConfig, LocalsReported, cfgVars, pollVars, listVars
<1>8. CASE SetNewCaches
  <2>1. \A c \in awaited : c \in getNewCaches
    BY <1>0, <1>8 DEF SetNewCaches, getNewCaches, Wanted
  <2>2. \A c \in awaited : unpolled'[c] = IF c \in allCaches THEN unpolled[c]
                                                             ELSE localStates[c]
    BY <1>0, <1>8, <2>1 DEF SetNewCaches
  <2>3. \A c \in awaited : localStates[c] \in {"direct", "indirect"}
    BY <1>0, <1>8 DEF SetNewCaches, TypeOK
  <2> QED
    BY <1>8, <2>2, <2>3, GateStaysRight DEF SetNewCaches, LocalsReported, cfgVars, pollVars
<1>9. CASE ProcessResults
  <2>1. awaited' \subseteq awaited /\ \A c \in awaited' : batch[c] = "none"
    BY <1>9 DEF ProcessResults
  <2>2. \A c \in awaited' : localStates'[c] = localStates[c]
    BY <1>0, <1>9, <2>1 DEF ProcessResults
  <2>3. \A c \in awaited' : unpolled'[c] = unpolled[c] /\ lastStat'[c] = "none"
    <3>1. ASSUME NEW stat \in NewStats, NEW age \in [Caches -> {"new", "old"}],
                 SetPolled(stat, age), NEW c \in awaited'
          PROVE  unpolled'[c] = unpolled[c] /\ lastStat'[c] = "none"
      <4>1. c \in Caches /\ batch[c] = "none" /\ stat[c] = "none"
        BY <1>0, <2>1, <3>1 DEF NewStats
      <4> QED
        BY <3>1, <4>1 DEF SetPolled, StatSettles
    <3>2. ASSUME SetHealthPolled, NEW c \in awaited'
          PROVE  unpolled'[c] = unpolled[c] /\ lastStat'[c] = "none"
      BY <1>0, <2>1, <3>2 DEF SetHealthPolled
    <3> QED
      BY <1>9, <3>1, <3>2 DEF ProcessResults
  <2>4. LocalsReported => LocalsReported'
    BY <1>9, <2>1, <2>2 DEF ProcessResults, LocalsReported
  <2> QED
    BY <1>9, <2>1, <2>2, <2>3, <2>4, GateStaysRight DEF ProcessResults, cfgVars, pollVars
<1>10. ASSUME NEW c \in Caches, SeenTimesOut(c) PROVE StartupInv'
  BY <1>10, GateStaysRight DEF SeenTimesOut, LocalsReported, cfgVars, pollVars, mgrVars
<1>11. ASSUME NEW cs \in SUBSET RemoteCaches, NEW ok \in BOOLEAN,
              DistributedPeerResult(cs, ok)
       PROVE  StartupInv'
  <2>1. awaited' \subseteq awaited
    BY <1>11 DEF DistributedPeerResult
  <2>2. \A c \in awaited' :
          /\ localStates'[c] = "absent" => localStates[c] = "absent"
          /\ localStates'[c] = "direct" => localStates[c] = "direct"
          /\ unpolled'[c] = unpolled[c]
    BY <1>0, <1>11 DEF DistributedPeerResult, RemoteSettles
  <2>3. LocalsReported => LocalsReported'
    BY <1>11, <2>1, <2>2 DEF DistributedPeerResult, LocalsReported
  <2> QED
    BY <1>11, <2>1, <2>2, <2>3, GateStaysRight
       DEF DistributedPeerResult, cfgVars, pollVars, mgrVars
<1>12. ASSUME NEW r \in Requests, NEW kind \in RequestKinds, Request(r, kind) PROVE StartupInv'
  <2>1. \A s \in Requests : req'[s] = IF s = r THEN [pc |-> IF polledAll THEN "flag" ELSE "any",
                                                    kind |-> kind, polled |-> FALSE]
                                              ELSE req[s]
    BY <1>12 DEF Request, TypeOK
  <2>2. GateIsRight'
    BY <1>12, <2>1 DEF Request, GateIsRight, LocalsReported, listVars
  <2> QED
    BY <1>12, <2>2 DEF Request, cfgVars, pollVars, mgrVars, listVars
<1>13. ASSUME NEW r \in Requests, Gate(r) PROVE StartupInv'
  <2>1. UNCHANGED <<toConfig, configChan, cfgVars, localStates, pollVars, mgrVars,
                    listVars, awaited>>
    BY <1>13 DEF Gate, CheckFlag, CheckAny, StoreAll, CheckDirect, StoreLocal, Serve, Refuse,
                 GateStep
  <2>2. LocalsReported' = LocalsReported
    BY <2>1 DEF LocalsReported, listVars
  <2>3. ASSUME NEW pc, NEW b, GateStep(r, pc, b)
        PROVE  /\ req'[r].pc = pc /\ req'[r].polled = b
               /\ \A s \in Requests \ {r} : req'[s] = req[s]
    <3>1. req'[r] = [pc |-> pc, kind |-> req[r].kind, polled |-> b]
      BY <2>3 DEF GateStep, TypeOK
    <3> QED
      BY <2>3, <3>1 DEF GateStep, TypeOK
  <2>4. ASSUME CheckFlag(r) PROVE GateIsRight'
    BY <2>1, <2>2, <2>3, <2>4 DEF CheckFlag, GateIsRight, TypeOK
  <2>5. ASSUME CheckAny(r) PROVE GateIsRight'
    <3>1. ~Any => awaited = {}
      BY <1>0 DEF Any
    <3> QED
      BY <2>1, <2>2, <2>3, <2>5, <3>1 DEF CheckAny, GateIsRight, TypeOK
  <2>6. ASSUME StoreAll(r) PROVE GateIsRight'
    <3>1. polledAll' => req[r].polled
      BY <2>6, Zenon DEF StoreAll
    <3>2. GateStep(r, "direct", FALSE) /\ polledLocal' = polledLocal /\ req[r].pc = "setAll"
      BY <2>6 DEF StoreAll
    <3> QED
      BY <2>1, <2>2, <2>3, <3>1, <3>2 DEF GateIsRight
  <2>7. ASSUME CheckDirect(r) PROVE GateIsRight'
    <3>1. ~AnyDirectlyPolled => LocalsReported
      BY <1>0 DEF AnyDirectlyPolled, LocalsReported
    <3> QED
      BY <2>1, <2>2, <2>3, <2>7, <3>1 DEF CheckDirect, GateIsRight, TypeOK
  <2>8. ASSUME StoreLocal(r) PROVE GateIsRight'
    <3>1. polledLocal' => req[r].polled
      BY <2>8, Zenon DEF StoreLocal
    <3>2. GateStep(r, "decide", FALSE) /\ polledAll' = polledAll /\ req[r].pc = "setLocal"
      BY <2>8 DEF StoreLocal
    <3>3. polledLocal' => LocalsReported
      BY <3>1, <3>2 DEF GateIsRight
    <3>4. /\ req'[r].pc = "decide"
          /\ \A s \in Requests \ {r} : req'[s] = req[s]
      BY <2>3, <3>2
    <3>5. awaited' = awaited
      BY <2>1
    <3> QED
      BY <2>2, <3>2, <3>3, <3>4, <3>5 DEF GateIsRight
  <2>9. ASSUME Serve(r) \/ Refuse(r) PROVE GateIsRight'
    <3>1. \A s \in Requests : req'[s] = IF s = r THEN Idle ELSE req[s]
      BY <2>9 DEF Serve, Refuse, TypeOK
    <3> QED
      BY <2>1, <2>2, <2>9, <3>1 DEF Serve, Refuse, Idle, GateIsRight
  <2>10. GateIsRight'
    BY <1>13, <2>4, <2>5, <2>6, <2>7, <2>8, <2>9 DEF Gate
  <2> QED
    BY <2>1, <2>10 DEF cfgVars, pollVars, mgrVars, listVars
<1>14. CASE UNCHANGED vars
  BY <1>14, GateStaysRight DEF vars, LocalsReported, cfgVars, pollVars, mgrVars, listVars
<1> HIDE DEF StartupInv
<1> QED
  BY <1>1, <1>2, <1>3, <1>4, <1>5, <1>6, <1>7, <1>8, <1>9, <1>10, <1>11, <1>12,
     <1>13, <1>14 DEF Next, ConfigManager, Manager

(***************************************************************************)
(* The full states are never served before every cache of the first        *)
(* configuration that is still wanted was polled, nor the raw ones before  *)
(* those this monitor polls were: for any caches, any configurations       *)
(* overtaking each other, both kinds of polling and any number of          *)
(* concurrent requests.                                                    *)
(***************************************************************************)
THEOREM ServedOnlyPolledHolds == Spec => []ServedOnlyPolled
<1>1. Init => StartupInv
  BY DEF Init, Idle, StartupInv, AwaitedIsWanted, AwaitedIsSeeded, AwaitedIsListed,
         GateIsRight, Seeded
<1>2. StartupInv => ServedOnlyPolled
  BY DEF StartupInv, GateIsRight, LocalsReported, ServedOnlyPolled, CanServe, Polled
<1> QED
  BY <1>1, <1>2, StartupInvStep, TypeCorrect, PTL DEF Spec

-----------------------------------------------------------------------------
(* Nothing is ever heard of a cache that is neither polled nor reported.   *)
NeverHeardOf(c) ==
    /\ c \in awaited
    /\ c \notin pollers \cup dying
    /\ batch[c] = "none"

(***************************************************************************)
(* A cache that every configuration lists without a polling URL keeps the  *)
(* monitor starting for ever: it is on the list of caches to wait for, no  *)
(* poller and no other monitor ever reports it, and the full states are    *)
(* never served (monitorConfigListen, manager/monitorconfig.go:277).       *)
(***************************************************************************)
THEOREM UnpollableNeverServed ==
    ASSUME NEW c \in Caches, \A k \in Configs : k.caches[c] = "nourl"
    PROVE  Spec => []\A r \in Requests : CanServe(r) => req[r].kind # "full"
<1>1. Init => StartupInv /\ NeverHeardOf(c)
  BY DEF Init, Idle, StartupInv, AwaitedIsWanted, AwaitedIsSeeded, AwaitedIsListed,
         GateIsRight, Seeded, NeverHeardOf, NoResults
<1>2. TypeOK /\ NeverHeardOf(c) /\ [Next]_vars => NeverHeardOf(c)'
  <2> SUFFICES ASSUME TypeOK, NeverHeardOf(c), [Next]_vars PROVE NeverHeardOf(c)'
    OBVIOUS
  <2> USE DEF NeverHeardOf
  <2>1. c \notin PolledBy(cfg) /\ c \notin RemoteCaches
    BY DEF PolledBy, RemoteCaches, TypeOK, NoConfig
  <2>2. CASE ReceiveConfig
    <3>1. PICK k \in Configs : configChan = <<k>>
      BY <2>2 DEF ReceiveConfig, TypeOK
    <3>2. c \in awaited'
      BY <2>2, <3>1 DEF ReceiveConfig
    <3> QED
      BY <2>2, <3>2 DEF ReceiveConfig, pollVars, mgrVars
  <2>3. CASE SendPollers
    BY <2>1, <2>3 DEF SendPollers, mgrVars
  <2>4. ASSUME NEW b \in Batches, Process(b) PROVE NeverHeardOf(c)'
    <3>1. b[c] \in {"none", "one", "two", "bad"}
      BY DEF Batches
    <3>2. b[c] = "none"
      BY <2>4, <3>1 DEF Process
    <3> QED
      BY <2>4, <3>2 DEF Process
  <2>5. CASE ProcessResults
    BY <2>5 DEF ProcessResults, NoResults, pollVars
  <2>6. ASSUME NEW cs \in SUBSET RemoteCaches, NEW ok \in BOOLEAN, DistributedPeerResult(cs, ok)
        PROVE  NeverHeardOf(c)'
    BY <2>1, <2>6 DEF DistributedPeerResult, pollVars, mgrVars
  <2>7. CASE UNCHANGED <<awaited, pollVars, batch>>
    BY <2>7 DEF pollVars
  <2> HIDE DEF NeverHeardOf
  <2> QED
    BY <2>2, <2>3, <2>4, <2>5, <2>6, <2>7
       DEF Next, PollConfig, ConfigManager, SeedCaches, DeleteCaches, Manager, GetMonitorConfig,
           SetNewCaches, SeenTimesOut, Request, Gate, CheckFlag, CheckAny, StoreAll,
           CheckDirect, StoreLocal, Serve, Refuse, GateStep, vars, mgrVars
<1>3. StartupInv /\ NeverHeardOf(c) =>
        \A r \in Requests : CanServe(r) => req[r].kind # "full"
  BY DEF StartupInv, GateIsRight, NeverHeardOf, CanServe, Polled
<1> QED
  BY <1>1, <1>2, <1>3, StartupInvStep, TypeCorrect, PTL DEF Spec
=============================================================================
