---------------------------- MODULE MonitorStartup ----------------------------
(***************************************************************************)
(* From a configuration in Traffic Ops to the first answer to a Traffic    *)
(* Router: the monitoring configuration is polled and applied              *)
(* (poller/monitorconfig.go, manager/monitorconfig.go), cache pollers come *)
(* and go (poller/cache.go), a result manager learns of the change over an *)
(* unbuffered channel and crosses polled caches off a list (manager/       *)
(* health.go, manager/stat.go, threadsafe/polledcaches.go), and until the  *)
(* list is empty every request is answered 503 (datareq/datareq.go).       *)
(*                                                                         *)
(* The result manager is the one the configuration manager notifies: the   *)
(* stat manager with stat polling, otherwise the health manager.           *)
(***************************************************************************)
EXTENDS Naturals, FiniteSets, Sequences

CONSTANTS
    Caches,
    Configs,        \* the configurations Traffic Ops can hold
    Restarts,       \* do polling parameters change, restarting every poller?
    StatPolling,    \* stat_polling: does the stat manager keep the list?
    Requests,       \* requests in service at the same time
    RequestKinds,   \* what they ask for
    MaxBatch        \* bound: caches with a result in one batch

(***************************************************************************)
(* What a configuration says of a cache: missing; ONLINE; REPORTED or      *)
(* ADMIN_DOWN and polled by this monitor; the same without a polling URL;  *)
(* the same in a cache group that another group of monitors polls.  "ok"   *)
(* is FALSE when intervals or this monitor's own entry are missing.        *)
(***************************************************************************)
Statuses == {"absent", "online", "polled", "nourl", "remote"}

Kinds == {"full", "raw"}     \* the combined states, or with ?raw or ?local

ASSUME ConfigsAssumption ==
    /\ Configs \subseteq [ok : BOOLEAN, caches : [Caches -> Statuses]]
    /\ StatPolling \in BOOLEAN /\ Restarts \in BOOLEAN
    /\ RequestKinds \subseteq Kinds
    /\ MaxBatch \in Nat

NoConfig == [ok |-> FALSE, caches |-> [c \in Caches |-> "absent"]]

PolledBy(k) == {c \in Caches : k.caches[c] = "polled"}

VARIABLES
    toConfig,       \* what Traffic Ops holds, as the poller last saw it
    configChan,     \* ConfigChannel, which has one slot: <<>> or <<k>>
    monitorConfig,  \* monitorConfigTS
    cfgPc, cfg,     \* the configuration manager and what it is applying
    localStates,    \* "absent", or is the cache's entry "direct"ly polled?
    pollers, dying, \* caches with a running poller, with a killed one
    mgrPc, mgrCfg,  \* the result manager and its copy of monitorConfig
    batch,          \* the results it processes: per cache none, one or two
                    \* good ones, or a bad one
    initialized, allCaches, unpolled, seen,     \* UnpolledCaches
    lastStat,       \* bytes per second of the last stats: none, zero, moving
    polledAll, polledLocal,                     \* wrapUnpolledCheck
    req,            \* the requests in service
    started,        \* history: was a configuration applied?
    awaited         \* history: caches of the first one applied that later
                    \* ones still want polled, and that nobody reported yet

cfgVars  == <<monitorConfig, cfgPc, cfg, started>>
pollVars == <<pollers, dying>>
mgrVars  == <<mgrPc, mgrCfg, batch, lastStat>>
listVars == <<initialized, allCaches, unpolled, seen>>
gateVars == <<polledAll, polledLocal, req>>
vars == <<toConfig, configChan, cfgVars, localStates, pollVars, mgrVars,
          listVars, gateVars, awaited>>

NoResults == [c \in Caches |-> "none"]
Idle == [pc |-> "idle", kind |-> "raw", polled |-> FALSE]

Init ==
    /\ toConfig \in Configs /\ configChan = <<>>
    /\ monitorConfig = NoConfig /\ cfgPc = "idle" /\ cfg = NoConfig
    /\ localStates = [c \in Caches |-> "absent"]
    /\ pollers = {} /\ dying = {}
    /\ mgrPc = "idle" /\ mgrCfg = NoConfig /\ batch = NoResults
    /\ initialized = FALSE /\ allCaches = {}
    /\ unpolled = [c \in Caches |-> "no"] /\ seen = [c \in Caches |-> "no"]
    /\ lastStat = [c \in Caches |-> "none"]
    /\ polledAll = FALSE /\ polledLocal = FALSE
    /\ req = [r \in Requests |-> Idle]
    /\ started = FALSE /\ awaited = Caches

-----------------------------------------------------------------------------
(* The configuration poller.                                               *)

(* Seeded fault: a longer channel, unread configurations queue up.         *)
writeConfig_Queue(k) == configChan' = Append(configChan, k)

(* An unread configuration is replaced: only the latest matters.           *)
writeConfig(k) == configChan' = <<k>>

(* MonitorConfigPoller.Poll: a fetch that fails changes nothing.           *)
PollConfig(k) ==
    /\ toConfig' = k
    /\ writeConfig(k)
    /\ UNCHANGED <<cfgVars, localStates, pollVars, mgrVars,
                   listVars, gateVars, awaited>>

-----------------------------------------------------------------------------
(* The configuration manager, monitorConfigListen.                         *)

(* A configuration it cannot use is stored all the same, and then skipped. *)
ReceiveConfig ==
    /\ cfgPc = "idle"
    /\ configChan # <<>>
    /\ monitorConfig' = configChan[1]
    /\ configChan' = <<>>
    /\ IF configChan[1].ok
         THEN cfgPc' = "seed" /\ cfg' = configChan[1]
         ELSE UNCHANGED <<cfgPc, cfg>>
    /\ started' = (started \/ configChan[1].ok)
    /\ awaited' = IF started \/ configChan[1].ok
                    THEN awaited \cap {c \in Caches : configChan[1].caches[c]
                                         \notin {"absent", "online"}}
                    ELSE awaited
    /\ UNCHANGED <<toConfig, localStates, pollVars, mgrVars, listVars, gateVars>>

(* ONLINE caches are written anew, others only if they are new.            *)
Seed(status, entry) ==
    IF status = "online" THEN "indirect"
    ELSE IF status = "absent" \/ entry # "absent" THEN entry
    ELSE IF status = "remote" THEN "indirect" ELSE "direct"

SeedCaches ==
    /\ cfgPc = "seed"
    /\ localStates' = [c \in Caches |-> Seed(cfg.caches[c], localStates[c])]
    /\ cfgPc' = "send"
    /\ UNCHANGED <<toConfig, configChan, monitorConfig, cfg, started, pollVars, mgrVars,
                   listVars, gateVars, awaited>>

(* CachePoller.Poll: pollers of removed caches, and of those whose polling *)
(* parameters changed, are told to die and may still deliver a result.     *)
SendPollers ==
    /\ cfgPc = "send"
    /\ pollers' = PolledBy(cfg)
    /\ \E late \in SUBSET (IF Restarts THEN pollers ELSE pollers \ PolledBy(cfg)) :
          dying' = dying \cup late
    /\ cfgPc' = "delete"
    /\ UNCHANGED <<toConfig, configChan, monitorConfig, cfg, started, localStates,
                   mgrVars, listVars, gateVars, awaited>>

DeleteCaches ==
    /\ cfgPc = "delete"
    /\ localStates' = [c \in Caches |-> IF cfg.caches[c] = "absent"
                                          THEN "absent" ELSE localStates[c]]
    /\ cfgPc' = "notify"
    /\ UNCHANGED <<toConfig, configChan, monitorConfig, cfg, started, pollVars, mgrVars,
                   listVars, gateVars, awaited>>

-----------------------------------------------------------------------------
(* The result manager.                                                     *)

(* Seeded fault: a change of the caches is never looked for.               *)
haveCachesChanged_Never == FALSE

(* The configuration manager waits at its send on an unbuffered channel.   *)
haveCachesChanged == cfgPc = "notify"

(* A batch has come together: at most one result per poller.               *)
Process(b) ==
    /\ mgrPc = "idle"
    /\ b # NoResults
    /\ \A c \in Caches : /\ b[c] \in {"one", "bad"} => c \in pollers \cup dying
                         /\ b[c] = "two" => c \in pollers \cap dying
    /\ \E gone \in SUBSET dying : dying' = dying \ gone
    /\ batch' = b
    /\ IF haveCachesChanged
         THEN mgrPc' = "changed" /\ cfgPc' = "idle" /\ cfg' = NoConfig
         ELSE mgrPc' = "process" /\ UNCHANGED <<cfgPc, cfg>>
    /\ UNCHANGED <<toConfig, configChan, monitorConfig, started, localStates,
                   pollers, mgrCfg, lastStat, listVars, gateVars, awaited>>

(* getNewCaches copies the configuration, then the caches.                 *)
GetMonitorConfig ==
    /\ mgrPc = "changed"
    /\ mgrCfg' = monitorConfig
    /\ mgrPc' = "newCaches"
    /\ UNCHANGED <<toConfig, configChan, cfgVars, localStates, pollVars, batch,
                   lastStat, listVars, gateVars, awaited>>

getNewCaches ==
    {c \in Caches : /\ localStates[c] # "absent"
                    /\ mgrCfg.caches[c] \notin {"absent", "online"}}

(* Seeded fault: an empty list counts even if it was never filled.         *)
Any_Uninitialized == \E c \in Caches : unpolled[c] # "no"

Any == ~initialized \/ \E c \in Caches : unpolled[c] # "no"

SetNewCaches ==
    /\ mgrPc = "newCaches"
    /\ unpolled' = [c \in Caches |->
         IF c \notin getNewCaches THEN "no"
         ELSE IF c \in allCaches THEN unpolled[c] ELSE localStates[c]]
    /\ seen' = [c \in Caches |-> IF unpolled[c] # "no" /\ c \notin getNewCaches
                                   THEN "no" ELSE seen[c]]
    /\ allCaches' = getNewCaches
    /\ initialized' = TRUE
    /\ mgrPc' = "process" /\ mgrCfg' = NoConfig
    /\ UNCHANGED <<toConfig, configChan, cfgVars, localStates, pollVars, batch,
                   lastStat, gateVars, awaited>>

(***************************************************************************)
(* SetHealthPolled: a bad result settles a cache, a good one does if the   *)
(* cache was seen before.  Two in one batch count one after the other: the *)
(* second is noted as seen even if the first settled the cache.            *)
(***************************************************************************)
SetHealthPolled ==
    LET seenAlready(c) == seen[c] # "no"
        settles(c) == \/ batch[c] = "bad"
                      \/ batch[c] = "one" /\ seenAlready(c)
                      \/ batch[c] = "two"
    IN  /\ unpolled' = [c \in Caches |-> IF settles(c) THEN "no" ELSE unpolled[c]]
        /\ seen' = [c \in Caches |->
             CASE unpolled[c] = "no" \/ batch[c] = "none" -> seen[c]
               [] batch[c] = "bad" -> "no"
               [] batch[c] = "one" -> IF seenAlready(c) THEN "no" ELSE "new"
               [] batch[c] = "two" -> IF seenAlready(c) THEN "new" ELSE "no"]
        /\ UNCHANGED lastStat

(* Seeded fault: a cache that has no stats yet counts as polled.           *)
StatSettles_NoStats(c, stat, seenAt) ==
    batch[c] = "bad" \/ stat[c] # "zero" \/ seenAt = "old"

(***************************************************************************)
(* SetPolled: a bad result settles a cache, and so does, for every cache   *)
(* with stats, a byte count that moves or that was first seen long ago.    *)
(* A cache settled by a bad result may be noted as seen all the same.      *)
(***************************************************************************)
StatSettles(c, stat, seenAt) ==
    batch[c] = "bad" \/ stat[c] = "moving" \/ (stat[c] = "zero" /\ seenAt = "old")

SetPolled(stat, age) ==
    LET seen1(c) == IF batch[c] = "bad" THEN "no" ELSE seen[c]
        seen2(c) == IF stat[c] = "zero" /\ seen1(c) = "no" THEN age[c] ELSE seen1(c)
    IN  /\ lastStat' = stat
        /\ unpolled' = [c \in Caches |->
             IF StatSettles(c, stat, seen2(c)) THEN "no" ELSE unpolled[c]]
        /\ seen' = [c \in Caches |->
             CASE unpolled[c] = "no" -> seen[c]
               [] stat[c] = "moving" \/ (stat[c] = "zero" /\ seen2(c) = "old") -> "no"
               [] OTHER -> seen2(c)]

(* The stats that CreateStats derives from the good results of the batch.  *)
NewStats ==
    {s \in [Caches -> {"none", "zero", "moving"}] :
        \A c \in Caches : IF batch[c] \in {"one", "two"}
                            THEN s[c] # "none" ELSE s[c] = lastStat[c]}

(* processHealthResult and processStatResults, as far as the list goes.    *)
ProcessResults ==
    /\ mgrPc = "process"
    /\ localStates' = [c \in Caches |->
         IF batch[c] # "none" /\ localStates[c] # "absent" THEN "direct"
                                                           ELSE localStates[c]]
    /\ IF StatPolling
         THEN \E stat \in NewStats, age \in [Caches -> {"new", "old"}] : SetPolled(stat, age)
         ELSE SetHealthPolled
    /\ awaited' = {c \in awaited : batch[c] = "none"}
    /\ mgrPc' = "idle" /\ batch' = NoResults
    /\ UNCHANGED <<toConfig, configChan, cfgVars, pollVars, mgrCfg, initialized,
                   allCaches, gateVars>>

(* Ten seconds pass.                                                       *)
SeenTimesOut(c) ==
    /\ seen[c] = "new"
    /\ StatPolling
    /\ seen' = [seen EXCEPT ![c] = "old"]
    /\ UNCHANGED <<toConfig, configChan, cfgVars, localStates, pollVars, mgrVars,
                   initialized, allCaches, unpolled, gateVars, awaited>>

(* StartDistributedPeerManager: another group's answer, whole or partial.  *)
RemoteCaches == {c \in Caches : \E k \in Configs : k.caches[c] = "remote"}

(* SetRemotePolled.                                                        *)
RemoteSettles(c, cs) == c \in cs /\ unpolled[c] # "no"

DistributedPeerResult(cs, noErrors) ==
    /\ ~StatPolling
    /\ localStates' = [c \in Caches |->
         IF c \in cs /\ localStates[c] # "absent" THEN "indirect" ELSE localStates[c]]
    /\ unpolled' = [c \in Caches |-> IF noErrors /\ RemoteSettles(c, cs)
                                       THEN "no" ELSE unpolled[c]]
    /\ seen' = [c \in Caches |-> IF noErrors /\ RemoteSettles(c, cs)
                                   THEN "no" ELSE seen[c]]
    /\ awaited' = IF noErrors THEN awaited \ cs ELSE awaited
    /\ UNCHANGED <<toConfig, configChan, cfgVars, pollVars, mgrVars, initialized,
                   allCaches, gateVars>>

-----------------------------------------------------------------------------
(* wrapUnpolledCheck.  All requests share polledAll and polledLocal        *)
(* without a lock: what one has found out about the list it stores later,  *)
(* over whatever another has stored meanwhile.                             *)

AnyDirectlyPolled == ~initialized \/ \E c \in Caches : unpolled[c] = "direct"

(* A step of one request: its own next step, what it holds to store, and   *)
(* nothing outside the gate.                                               *)
GateStep(r, pc, polled) ==
    /\ req' = [req EXCEPT ![r] = [@ EXCEPT !.pc = pc, !.polled = polled]]
    /\ UNCHANGED <<toConfig, configChan, cfgVars, localStates, pollVars, mgrVars,
                   listVars, awaited>>

(* A request arrives, and looks at the first of the two flags ...          *)
Request(r, kind) ==
    /\ req[r] = Idle
    /\ req' = [req EXCEPT ![r] = [pc |-> IF polledAll THEN "flag" ELSE "any",
                                  kind |-> kind, polled |-> FALSE]]
    /\ UNCHANGED <<toConfig, configChan, cfgVars, localStates, pollVars, mgrVars,
                   listVars, polledAll, polledLocal, awaited>>

(* ... and then at the second.                                             *)
CheckFlag(r) ==
    /\ req[r].pc = "flag"
    /\ ~polledLocal
    /\ GateStep(r, "any", FALSE)
    /\ UNCHANGED <<polledAll, polledLocal>>

CheckAny(r) ==
    /\ req[r].pc = "any"
    /\ GateStep(r, "setAll", ~Any)
    /\ UNCHANGED <<polledAll, polledLocal>>

(* Seeded fault: meant to keep a flag that is set, it keeps one that is    *)
(* not.                                                                    *)
StoreAll_Keep(r) ==
    /\ req[r].pc = "setAll"
    /\ polledAll' = (polledAll /\ req[r].polled)
    /\ GateStep(r, "direct", FALSE)
    /\ UNCHANGED polledLocal

StoreAll(r) ==
    /\ req[r].pc = "setAll"
    /\ polledAll' = req[r].polled
    /\ GateStep(r, "direct", FALSE)
    /\ UNCHANGED polledLocal

CheckDirect(r) ==
    /\ req[r].pc = "direct"
    /\ GateStep(r, "setLocal", ~AnyDirectlyPolled)
    /\ UNCHANGED <<polledAll, polledLocal>>

StoreLocal(r) ==
    /\ req[r].pc = "setLocal"
    /\ polledLocal' = req[r].polled
    /\ GateStep(r, "decide", FALSE)
    /\ UNCHANGED polledAll

(* The flag that decides, read again: it may be another request's by now.  *)
Polled(kind) == IF kind = "full" THEN polledAll ELSE polledLocal

(* A 200: both flags were found set, or the one that matters was in the    *)
(* end.                                                                    *)
CanServe(r) ==
    \/ req[r].pc = "flag" /\ polledLocal
    \/ req[r].pc = "decide" /\ Polled(req[r].kind)

Serve(r) ==
    /\ CanServe(r)
    /\ req' = [req EXCEPT ![r] = Idle]
    /\ UNCHANGED <<toConfig, configChan, cfgVars, localStates, pollVars, mgrVars,
                   listVars, polledAll, polledLocal, awaited>>

(* A 503, "service still starting".                                        *)
Refuse(r) ==
    /\ req[r].pc = "decide"
    /\ ~Polled(req[r].kind)
    /\ req' = [req EXCEPT ![r] = Idle]
    /\ UNCHANGED <<toConfig, configChan, cfgVars, localStates, pollVars, mgrVars,
                   listVars, polledAll, polledLocal, awaited>>

-----------------------------------------------------------------------------

Batches ==
    {b \in [Caches -> {"none", "one", "two", "bad"}] :
        Cardinality({c \in Caches : b[c] # "none"}) <= MaxBatch}

ConfigManager == ReceiveConfig \/ SeedCaches \/ SendPollers \/ DeleteCaches

Manager == GetMonitorConfig \/ SetNewCaches \/ ProcessResults

Gate(r) ==
    \/ CheckFlag(r)
    \/ CheckAny(r) \/ StoreAll(r)
    \/ CheckDirect(r) \/ StoreLocal(r)
    \/ Serve(r) \/ Refuse(r)

Next ==
    \/ \E k \in Configs : PollConfig(k)
    \/ ConfigManager
    \/ \E b \in Batches : Process(b)
    \/ Manager
    \/ \E c \in Caches : SeenTimesOut(c)
    \/ \E cs \in SUBSET RemoteCaches \ {{}}, ok \in BOOLEAN : DistributedPeerResult(cs, ok)
    \/ \E r \in Requests : (\E kind \in RequestKinds : Request(r, kind)) \/ Gate(r)

Spec == Init /\ [][Next]_vars

(* Every goroutine runs, every running poller ticks, remote groups answer  *)
(* whole again and again, time passes, and requests keep coming.           *)
FairSpec ==
    /\ Spec
    /\ WF_vars(PollConfig(toConfig)) /\ WF_vars(ConfigManager) /\ WF_vars(Manager)
    /\ \A c \in Caches :
         SF_vars(mgrPc = "idle" /\ c \in pollers /\ \E b \in Batches : b[c] # "none" /\ Process(b))
    /\ StatPolling => \A c \in Caches : WF_vars(SeenTimesOut(c))
    /\ \A c \in RemoteCaches : WF_vars(DistributedPeerResult({c}, TRUE))
    /\ WF_vars(\E r \in Requests : Request(r, "full"))
    /\ \A r \in Requests : WF_vars(Gate(r))

-----------------------------------------------------------------------------

GateSteps == {"idle", "flag", "any", "setAll", "direct", "setLocal", "decide"}

TypeOK ==
    /\ toConfig \in Configs
    /\ configChan = <<>> \/ \E k \in Configs : configChan = <<k>>
    /\ monitorConfig \in Configs \cup {NoConfig} /\ cfg \in Configs \cup {NoConfig}
    /\ cfgPc \in {"idle", "seed", "send", "delete", "notify"}
    /\ localStates \in [Caches -> {"absent", "direct", "indirect"}]
    /\ pollers \in SUBSET Caches /\ dying \in SUBSET Caches
    /\ mgrPc \in {"idle", "changed", "newCaches", "process"}
    /\ mgrCfg \in Configs \cup {NoConfig} /\ batch \in Batches
    /\ initialized \in BOOLEAN /\ allCaches \in SUBSET Caches
    /\ unpolled \in [Caches -> {"no", "direct", "indirect"}]
    /\ seen \in [Caches -> {"no", "new", "old"}]
    /\ lastStat \in [Caches -> {"none", "zero", "moving"}]
    /\ polledAll \in BOOLEAN /\ polledLocal \in BOOLEAN
    /\ req \in [Requests -> [pc : GateSteps, kind : Kinds, polled : BOOLEAN]]
    /\ started \in BOOLEAN /\ awaited \in SUBSET Caches

(***************************************************************************)
(* A Traffic Router is not told that a cache is down merely because it was *)
(* not polled yet: the full states are served only once every cache of the *)
(* first applied configuration that later ones still want polled has been  *)
(* polled by this monitor or reported by its group, and the raw states,    *)
(* which peers ask for, only once that holds for the caches this monitor   *)
(* polls; whatever requests store the two flags at the same time.          *)
(***************************************************************************)
ServedOnlyPolled ==
    \A r \in Requests : CanServe(r) =>
        IF req[r].kind = "full"
          THEN awaited = {}
          ELSE \A c \in awaited : localStates[c] # "direct"

(***************************************************************************)
(* A configuration that stays in Traffic Ops ends up applied, although the *)
(* poller drops configurations that were not read yet and the manager that *)
(* applies them waits for a result each time: exactly the caches it wants  *)
(* polled are polled, and exactly its caches have an entry.                *)
(***************************************************************************)
AppliedAsConfigured ==
    \A k \in Configs : k.ok =>
        (<>[](toConfig = k) =>
           <>[](/\ pollers = PolledBy(k)
                /\ \A c \in Caches : localStates[c] = "absent" <=> k.caches[c] = "absent"))

(***************************************************************************)
(* Start-up ends: with a lasting configuration in which every cache to be  *)
(* polled has a polling URL, both flags end up set for good, so every      *)
(* request is served, although a request that was late may store that      *)
(* caches are missing after another one has found that none is.            *)
(***************************************************************************)
StartupEnds ==
    \A k \in Configs :
        k.ok /\ (\A c \in Caches : k.caches[c] # "nourl") /\ PolledBy(k) # {} =>
            (<>[](toConfig = k) => <>[](polledAll /\ polledLocal))
=============================================================================
