-------------------------- MODULE CacheAvailability --------------------------
(***************************************************************************)
(* From a poll to a cache's entry in the local states: health/cache.go     *)
(* (CalcAvailability), the two managers that call it (manager/health.go,   *)
(* manager/stat.go), the pollers that alternate between IPv4 and IPv6      *)
(* (poller/cache.go), and the configuration manager, which writes the same *)
(* entries (manager/monitorconfig.go).                                     *)
(*                                                                         *)
(* A result speaks of one protocol.  The other one's flag is carried over  *)
(* from localCacheStatus, which a manager copies before it evaluates a     *)
(* batch and replaces afterwards; no lock is held in between.              *)
(*                                                                         *)
(* After each configuration its manager blocks until a result manager, on  *)
(* beginning with a batch, takes its notification.  The results of caches  *)
(* that the model does not name are batches too: OthersPolled.             *)
(***************************************************************************)
EXTENDS Naturals, Sequences

CONSTANTS
    Caches,
    Managers,           \* the goroutines that evaluate results
    StatManagers,       \* those of them whose results carry the stats
    OthersPolled,       \* are there other caches, which are polled for good?
    PollingProtocol,    \* cache_polling_protocol
    Configs,            \* the configurations Traffic Ops can hold
    Realities,          \* what polls can find, per cache and protocol
    MaxQueue            \* bound: results waiting for a manager

Protocols == {"IPv4", "IPv6"}
Statuses  == {"absent", "ONLINE", "REPORTED", "ADMIN_DOWN"}

(***************************************************************************)
(* What a poll finds: all is well; no answer, hence no vitals either; an   *)
(* answer with system.notAvailable or a computed stat over its threshold;  *)
(* a monitored interface missing or over its bandwidth; a plain stat over  *)
(* its threshold, which only the stat poll's answer contains.              *)
(***************************************************************************)
Findings == {"good", "error", "refused", "interface", "overStat"}

Server == [status : Statuses, addresses : SUBSET Protocols]

ASSUME AvailabilityAssumption ==
    /\ StatManagers \subseteq Managers
    /\ OthersPolled \in BOOLEAN
    /\ PollingProtocol \in {"ipv4only", "ipv6only", "both"}
    /\ Configs \subseteq [Caches -> Server]
    /\ \A k \in Configs, c \in Caches :
          (k[c].status = "absent") <=> (k[c].addresses = {})
    /\ Realities \subseteq [Caches -> [Protocols -> Findings]]
    /\ MaxQueue \in Nat

VARIABLES
    reality,
    monitorConfig, cfgPc,   \* monitorConfigTS and its writer
    localStates,            \* the entry of each cache, if any
    statuses,               \* localCacheStatus
    pollAddrs, next,        \* per manager, the running pollers' addresses
                            \* ({}: no poller) and usingIPv4
    dying,                  \* the addresses of killed pollers
    queue,                  \* results on their way to a manager
    pc, mc, copy, batch,    \* per manager, where it is, its copies of the
                            \* configuration and of the statuses, the
                            \* results it still has to evaluate
    found                   \* history: the protocols over which the last
                            \* result evaluated for a cache was good

cfgVars  == <<monitorConfig, cfgPc>>
pollVars == <<pollAddrs, next, dying>>
mgrVars  == <<pc, mc, copy, batch>>
vars == <<reality, cfgVars, localStates, statuses, pollVars, queue, mgrVars, found>>

Entry  == [is : {"absent", "up", "down"}, flags : SUBSET Protocols,
           directlyPolled : {"yes", "no"}]
Status == [known : {"yes", "no"}, flags : SUBSET Protocols,
           unavailableStat : {"none", "stat"}]
Result == [cache : Caches, protocol : Protocols, finding : Findings,
           poller : {"live", "killed"}]

NoEntry  == [is |-> "absent", flags |-> {}, directlyPolled |-> "no"]
NoStatus == [known |-> "no", flags |-> {}, unavailableStat |-> "none"]
NoConfig == [c \in Caches |-> [status |-> "absent", addresses |-> {}]]

Init ==
    /\ reality \in Realities
    /\ monitorConfig = NoConfig /\ cfgPc = "idle"
    /\ localStates = [c \in Caches |-> NoEntry]
    /\ statuses = [c \in Caches |-> NoStatus]
    /\ pollAddrs = [m \in Managers |-> [c \in Caches |-> {}]]
    /\ next = [m \in Managers |-> [c \in Caches |-> "IPv4"]]
    /\ dying = [m \in Managers |-> [c \in Caches |-> {}]]
    /\ queue = [m \in Managers |-> <<>>]
    /\ pc = [m \in Managers |-> "idle"]
    /\ mc = [m \in Managers |-> NoConfig]
    /\ copy = [m \in Managers |-> [c \in Caches |-> NoStatus]]
    /\ batch = [m \in Managers |-> <<>>]
    /\ found = [c \in Caches |-> {}]

(* Caches and their networks change.                                       *)
Change(r) ==
    /\ reality' = r /\ r # reality
    /\ UNCHANGED <<cfgVars, localStates, statuses, pollVars, queue, mgrVars, found>>

-----------------------------------------------------------------------------
(* The configuration manager, monitorConfigListen.                         *)

ReceiveConfig(k) ==
    /\ cfgPc = "idle"
    /\ monitorConfig' = k
    /\ cfgPc' = "seed"
    /\ UNCHANGED <<reality, localStates, statuses, pollVars, queue, mgrVars, found>>

(* Seeded fault: an ONLINE cache that has an entry keeps it.               *)
Seed_Once(server, entry) ==
    IF server.status = "absent" \/ entry # NoEntry THEN entry
    ELSE IF server.status = "ONLINE"
      THEN [is |-> "up", flags |-> server.addresses, directlyPolled |-> "no"]
      ELSE [is |-> "down", flags |-> {}, directlyPolled |-> "yes"]

(* AddCache: an ONLINE cache is written anew each time, others once.       *)
Seed(server, entry) ==
    IF server.status = "ONLINE"
      THEN [is |-> "up", flags |-> server.addresses, directlyPolled |-> "no"]
    ELSE IF server.status = "absent" \/ entry.is # "absent" THEN entry
    ELSE [is |-> "down", flags |-> {}, directlyPolled |-> "yes"]

SeedCaches ==
    /\ cfgPc = "seed"
    /\ localStates' = [c \in Caches |-> Seed(monitorConfig[c], localStates[c])]
    /\ cfgPc' = "send"
    /\ UNCHANGED <<reality, monitorConfig, statuses, pollVars, queue, mgrVars, found>>

(* The URLs a cache is polled at.                                          *)
PollURLs(server) ==
    IF server.status \in {"REPORTED", "ADMIN_DOWN"} THEN server.addresses ELSE {}

(* diffConfigs: the pollers whose URLs change, and those that must go.     *)
Deleted(m) == {c \in Caches : pollAddrs[m][c] \notin {{}, PollURLs(monitorConfig[c])}}

(* A result of a poller that is killed while it waits for PollFinished.    *)
Outlives(r, deleted) == IF r.cache \in deleted THEN [r EXCEPT !.poller = "killed"] ELSE r

(* CachePoller.Poll, for each manager's pollers.                           *)
SendPollers ==
    /\ cfgPc = "send"
    /\ pollAddrs' = [m \in Managers |-> [c \in Caches |-> PollURLs(monitorConfig[c])]]
    /\ next' = [m \in Managers |-> [c \in Caches |->
         IF pollAddrs[m][c] = PollURLs(monitorConfig[c]) THEN next[m][c]
         ELSE IF PollingProtocol = "ipv6only" THEN "IPv6" ELSE "IPv4"]]
    /\ dying' = [m \in Managers |-> [c \in Caches |->
         IF c \in Deleted(m) THEN dying[m][c] \cup pollAddrs[m][c] ELSE dying[m][c]]]
    /\ queue' = [m \in Managers |->
         [i \in DOMAIN queue[m] |-> Outlives(queue[m][i], Deleted(m))]]
    /\ batch' = [m \in Managers |->
         [i \in DOMAIN batch[m] |-> Outlives(batch[m][i], Deleted(m))]]
    /\ cfgPc' = "delete"
    /\ UNCHANGED <<reality, monitorConfig, localStates, statuses, pc, mc, copy, found>>

(* Caches that are not configured any more lose their entries; then the    *)
(* manager stands at its unbuffered send on cachesChanged.                 *)
DeleteCaches ==
    /\ cfgPc = "delete"
    /\ localStates' = [c \in Caches |-> IF monitorConfig[c].status = "absent"
                                          THEN NoEntry ELSE localStates[c]]
    /\ cfgPc' = "notify"
    /\ UNCHANGED <<reality, monitorConfig, statuses, pollVars, queue, mgrVars, found>>

-----------------------------------------------------------------------------
(* The pollers.                                                            *)

Other(p) == IF p = "IPv4" THEN "IPv6" ELSE "IPv4"

(* oscillateProtocols.                                                     *)
Alternate(p) == IF PollingProtocol = "both" THEN Other(p) ELSE p

(* A tick over a protocol without a URL only turns to the other one.       *)
Using(m, c) == IF next[m][c] \in pollAddrs[m][c] THEN next[m][c] ELSE Other(next[m][c])

(* A poller waits for PollFinished: it has one result on its way.          *)
OnItsWay(m, c, life) ==
    \E s \in {queue[m], batch[m]} : \E i \in DOMAIN s : s[i].cache = c /\ s[i].poller = life

Poll(m, c) ==
    /\ pollAddrs[m][c] # {}
    /\ ~OnItsWay(m, c, "live") /\ Len(queue[m]) < MaxQueue
    /\ LET p == Using(m, c) IN
         /\ queue' = [queue EXCEPT ![m] = Append(@,
              [cache |-> c, protocol |-> p, finding |-> reality[c][p], poller |-> "live"])]
         /\ next' = [next EXCEPT ![m][c] = Alternate(p)]
    /\ UNCHANGED <<reality, cfgVars, localStates, statuses, pollAddrs, dying, mgrVars, found>>

(* A tick may still win against the kill, once.                            *)
PollOnceMore(m, c, p) ==
    /\ p \in dying[m][c]
    /\ ~OnItsWay(m, c, "killed") /\ Len(queue[m]) < MaxQueue
    /\ queue' = [queue EXCEPT ![m] = Append(@,
         [cache |-> c, protocol |-> p, finding |-> reality[c][p], poller |-> "killed"])]
    /\ dying' = [dying EXCEPT ![m][c] = {}]
    /\ UNCHANGED <<reality, cfgVars, localStates, statuses, pollAddrs, next, mgrVars, found>>

Die(m, c) ==
    /\ dying[m][c] # {}
    /\ dying' = [dying EXCEPT ![m][c] = {}]
    /\ UNCHANGED <<reality, cfgVars, localStates, statuses, pollAddrs, next, queue, mgrVars, found>>

-----------------------------------------------------------------------------
(* The managers.                                                           *)

(* Who is told of a configuration: the stat managers, if stats are polled. *)
Notified == IF StatManagers = {} THEN Managers ELSE StatManagers

(* A batch is what has arrived when the manager stops reading; n = 0 is a  *)
(* batch with results of other caches only.  process begins with           *)
(* haveCachesChanged, which releases the configuration manager.            *)
ReceiveResults(m, n) ==
    /\ pc[m] = "idle"
    /\ n > 0 \/ OthersPolled
    /\ batch' = [batch EXCEPT ![m] = SubSeq(queue[m], 1, n)]
    /\ queue' = [queue EXCEPT ![m] = SubSeq(@, n + 1, Len(@))]
    /\ cfgPc' = IF cfgPc = "notify" /\ m \in Notified THEN "idle" ELSE cfgPc
    /\ pc' = [pc EXCEPT ![m] = "config"]
    /\ UNCHANGED <<reality, monitorConfig, localStates, statuses, pollVars, mc, copy, found>>

(* The batch is evaluated with one copy of the configuration.              *)
CopyConfig(m) ==
    /\ pc[m] = "config"
    /\ mc' = [mc EXCEPT ![m] = monitorConfig]
    /\ pc' = [pc EXCEPT ![m] = "copy"]
    /\ UNCHANGED <<reality, cfgVars, localStates, statuses, pollVars, queue, copy, batch, found>>

(* CalcAvailability begins.                                                *)
CopyStatuses(m) ==
    /\ pc[m] = "copy"
    /\ copy' = [copy EXCEPT ![m] = statuses]
    /\ pc' = [pc EXCEPT ![m] = "evaluate"]
    /\ UNCHANGED <<reality, cfgVars, localStates, statuses, pollVars, queue, mc, batch, found>>

(* Monitored interfaces must be in the polled data and below their maximum *)
(* bandwidth; a cache that is not configured has none.                     *)
EvalInterface(server, r) ==
    server.status = "absent" \/ r.finding \notin {"error", "interface"}

(* Is a threshold exceeded by a stat that only the stat poll knows?        *)
ThresholdStat(m, server, r) ==
    m \in StatManagers /\ server.status = "REPORTED" /\ r.finding = "overStat"

(* The status, the answer and the thresholds together.                     *)
EvalAggregate(m, server, r) ==
    \/ server.status = "ONLINE"
    \/ /\ server.status = "REPORTED"
       /\ r.finding \notin {"error", "refused"}
       /\ ~ThresholdStat(m, server, r)

(* processAvailableTuple.                                                  *)
ProcessAvailableTuple(flags, server) ==
    IF PollingProtocol = "ipv4only" THEN "IPv4" \in flags
    ELSE IF PollingProtocol = "ipv6only" THEN "IPv6" \in flags
    ELSE IF "IPv4" \notin server.addresses THEN "IPv6" \in flags
    ELSE IF "IPv6" \notin server.addresses THEN "IPv4" \in flags
    ELSE flags # {}

Good(m, server, r) == EvalInterface(server, r) /\ EvalAggregate(m, server, r)

(* Seeded fault: a result can add its protocol's flag, not take it away.   *)
Available_Sticky(m, server, last, r) ==
    (last.flags \cap server.addresses)
      \cup (IF last.known = "yes" /\ Good(m, server, r) THEN {r.protocol} ELSE {})

(* Available: the other protocol's flag is carried over, if there is an    *)
(* address; the first result of a cache leaves both flags down.            *)
Available(m, server, last, r) ==
    ((last.flags \cap server.addresses) \ {r.protocol})
      \cup (IF last.known = "yes" /\ Good(m, server, r) THEN {r.protocol} ELSE {})

(* Seeded fault: an entry is written whether or not there is one.          *)
SetCache_Unchecked(entry, server, flags) ==
    [is |-> IF ProcessAvailableTuple(flags, server) THEN "up" ELSE "down",
     flags |-> flags, directlyPolled |-> "yes"]

(* SetCache leaves a cache that has no entry without one.                  *)
SetCache(entry, server, flags) ==
    IF entry.is = "absent" THEN entry
    ELSE [is |-> IF ProcessAvailableTuple(flags, server) THEN "up" ELSE "down",
          flags |-> flags, directlyPolled |-> "yes"]

(* One result: the entry is written at once, the status in the copy.       *)
Evaluate(m) ==
    /\ pc[m] = "evaluate"
    /\ batch[m] # <<>>
    /\ LET r      == Head(batch[m])
           c      == r.cache
           server == mc[m][c]
           flags  == Available(m, server, copy[m][c], r)
       IN /\ localStates' = [localStates EXCEPT ![c] = SetCache(@, server, flags)]
          /\ copy' = [copy EXCEPT ![m][c] =
               [known |-> "yes", flags |-> flags, unavailableStat |->
                  IF ThresholdStat(m, server, r) THEN "stat" ELSE "none"]]
          /\ found' = [found EXCEPT ![c] = IF Good(m, server, r) THEN @ \cup {r.protocol}
                                                                 ELSE @ \ {r.protocol}]
    /\ batch' = [batch EXCEPT ![m] = Tail(@)]
    /\ UNCHANGED <<reality, cfgVars, statuses, pollVars, queue, pc, mc>>

(* localCacheStatus is replaced by the copy.                               *)
SetStatuses(m) ==
    /\ pc[m] = "evaluate"
    /\ batch[m] = <<>>
    /\ statuses' = copy[m]
    /\ copy' = [copy EXCEPT ![m] = [c \in Caches |-> NoStatus]]
    /\ mc' = [mc EXCEPT ![m] = NoConfig]
    /\ pc' = [pc EXCEPT ![m] = "idle"]
    /\ UNCHANGED <<reality, cfgVars, localStates, pollVars, queue, batch, found>>

-----------------------------------------------------------------------------
Receive(m) == \E n \in 0..Len(queue[m]) : ReceiveResults(m, n)
Manager(m) ==
    Receive(m) \/ CopyConfig(m) \/ CopyStatuses(m) \/ Evaluate(m) \/ SetStatuses(m)
ConfigStep == (\E k \in Configs : ReceiveConfig(k)) \/ SeedCaches \/ SendPollers \/ DeleteCaches
PollerStep == \E m \in Managers, c \in Caches :
    Poll(m, c) \/ Die(m, c) \/ \E p \in Protocols : PollOnceMore(m, c, p)

Next ==
    \/ \E r \in Realities : Change(r)
    \/ ConfigStep
    \/ PollerStep
    \/ \E m \in Managers : Manager(m)

Spec == Init /\ [][Next]_vars

(***************************************************************************)
(* Configurations are polled again and again, and the next one is applied  *)
(* once the notification of the last one was taken: nothing is assumed of  *)
(* a manager that is blocked.  Managers process what arrives, the other    *)
(* caches' results if there are any.  A Go channel serves its senders in   *)
(* order, so no result waits for ever while others are read, and a killed  *)
(* poller's select takes the kill sooner or later.                         *)
(***************************************************************************)
FairSpec ==
    /\ Spec
    /\ WF_vars(ConfigStep)
    /\ \A m \in Managers :
         /\ WF_vars(Manager(m))
         /\ SF_vars(\E n \in 1..Len(queue[m]) : ReceiveResults(m, n))
         /\ \A c \in Caches : WF_vars(Poll(m, c)) /\ WF_vars(Die(m, c))

-----------------------------------------------------------------------------
(* The variables of the configuration, the pollers and the managers stay   *)
(* within their types.                                                     *)
TypeOK ==
    /\ reality \in Realities
    /\ monitorConfig \in [Caches -> Server]
    /\ cfgPc \in {"idle", "seed", "send", "delete", "notify"}
    /\ localStates \in [Caches -> Entry]
    /\ statuses \in [Caches -> Status]
    /\ pollAddrs \in [Managers -> [Caches -> SUBSET Protocols]]
    /\ next \in [Managers -> [Caches -> Protocols]]
    /\ dying \in [Managers -> [Caches -> SUBSET Protocols]]
    /\ queue \in [Managers -> Seq(Result)]
    /\ pc \in [Managers -> {"idle", "config", "copy", "evaluate"}]
    /\ mc \in [Managers -> [Caches -> Server]]
    /\ copy \in [Managers -> [Caches -> Status]]
    /\ batch \in [Managers -> Seq(Result)]
    /\ found \in [Caches -> SUBSET Protocols]

(* A cache that left the configuration has no entry from the moment the    *)
(* configuration manager is through with it until the next configuration:  *)
(* results still under way, evaluated with a configuration that has the    *)
(* cache, do not bring it back (SetCache, peer/crstates.go:82-89, against  *)
(* DeleteCache, manager/monitorconfig.go:354-359).                         *)
RemovedStaysRemoved ==
    cfgPc \in {"notify", "idle"} =>
      \A c \in Caches : monitorConfig[c].status = "absent" => localStates[c].is = "absent"

(* A cache that was polled is published as available over a protocol only  *)
(* if the last result evaluated over that protocol was good, although each *)
(* result writes both flags and takes the other one from a copy            *)
(* (CalcAvailability, health/cache.go:294-412).                            *)
AvailableOnlyAsFound ==
    \A c \in Caches : localStates[c].directlyPolled = "yes"
                        => localStates[c].flags \subseteq found[c]

(* What the entry of a cache should come to when nothing changes any more. *)
AsConfigured(c, server, findings) ==
    IF server.status = "absent" THEN localStates[c] = NoEntry
    ELSE IF server.status = "ONLINE"
      THEN localStates[c].is = "up" /\ localStates[c].flags = server.addresses
    ELSE IF server.status = "ADMIN_DOWN" THEN localStates[c].is = "down"
    ELSE localStates[c].flags = {p \in server.addresses :
                                   findings[p] \in {"good", "overStat"}}

(* When configuration and caches stay as they are, each entry comes to say *)
(* what they call for and keeps saying it: late results of killed pollers, *)
(* flags carried over and entries of removed caches do not survive         *)
(* (CalcAvailability and monitorConfigListen against each other).  It      *)
(* needs another cache that is polled: else the configuration manager may  *)
(* stand at its notification (manager/monitorconfig.go:365) for ever and   *)
(* write no ONLINE cache anew.                                             *)
Converges ==
    \A k \in Configs, r \in Realities :
      <>[](monitorConfig = k /\ reality = r)
        => \A c \in Caches : <>[]AsConfigured(c, k[c], r[c])

-----------------------------------------------------------------------------
(* docs/source/overview/traffic_monitor.rst: "If the cache server is set   *)
(* to ADMIN_DOWN it is marked as unavailable but still polled".  With two  *)
(* managers, against the comment on Set (threadsafe/                       *)
(* cacheavailablestatus.go), "This MUST NOT be called by multiple          *)
(* goroutines", each can put back a flag that the other has taken away.    *)
AdminDownTakesEffect ==
    \A c \in Caches : <>[](monitorConfig[c].status = "ADMIN_DOWN")
                        => <>[](localStates[c].is = "down")
=============================================================================
