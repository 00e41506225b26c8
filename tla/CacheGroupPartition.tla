------------------------- MODULE CacheGroupPartition -------------------------
(***************************************************************************)
(* Distributed polling: the monitors of one cache group are a Traffic      *)
(* Monitor group, and the groups divide the cache groups of the CDN among  *)
(* themselves.  Nobody coordinates them: each monitor computes the whole   *)
(* division from its snapshot and takes its own part, and which monitors   *)
(* are its peers and which speak for the rest (getCacheGroupsToPoll and    *)
(* monitorConfigListen, manager/monitorconfig.go).                         *)
(*                                                                         *)
(* A cache group is a number, in the order in which sort.Strings puts the  *)
(* names; a distance is a number too, as only the order of distances       *)
(* matters.  The maps of a snapshot are functions on the names it lists.   *)
(***************************************************************************)
EXTENDS Naturals, FiniteSets

CONSTANTS
    Groups,             \* cache groups
    DistributedPolling, \* distributed_polling
    Snapshots           \* monitoring snapshots

(* The statuses of the caches that a snapshot lists.                       *)
CacheStatuses == {"ONLINE", "REPORTED", "ADMIN_DOWN"}

(* Monitors and caches each have a status and a cache group; a cache's     *)
(* profile may lack a polling URL.                                         *)
IsSnapshot(snap) ==
    /\ \A h \in DOMAIN snap.monitors : snap.monitors[h].group \in Groups
    /\ \A c \in DOMAIN snap.caches :
         /\ snap.caches[c].group \in Groups /\ snap.caches[c].status \in CacheStatuses
         /\ snap.caches[c].pollURL \in {"some", "none"}
    /\ snap.distance \in [Groups -> [Groups -> Nat]]

ASSUME PartitionAssumption ==
    /\ Groups \subseteq Nat /\ IsFiniteSet(Groups)
    /\ DistributedPolling \in BOOLEAN
    /\ \A snap \in Snapshots : IsSnapshot(snap)

SameStatus(snap, status) ==
    {h \in DOMAIN snap.monitors : snap.monitors[h].status = status}

(* Seeded fault: monitors of another status, OFFLINE ones, get a share too. *)
tmGroupSet_Any(snap, status) == {snap.monitors[h].group : h \in DOMAIN snap.monitors}

tmGroupSet(snap, status) == {snap.monitors[h].group : h \in SameStatus(snap, status)}

cacheGroupSet(snap) ==
    {snap.caches[c].group : c \in {x \in DOMAIN snap.caches :
        snap.caches[x].status \in CacheStatuses}}

(* The first by name, and the one whose turn comes after g's.              *)
First(S) == CHOOSE g \in S : \A h \in S : g <= h

After(S, g) ==
    LET later == {h \in S : h > g} IN First(IF later = {} THEN S ELSE later)

(* findAndRemoveClosestCachegroup: among equally close ones, the first.    *)
Nearest(snap, target, left) ==
    {c \in left : \A e \in left : snap.distance[target][c] <= snap.distance[target][e]}

Closest(snap, target, left) == First(Nearest(snap, target, left))

Start(snap, status) ==
    [turn   |-> First(tmGroupSet(snap, status)),
     left   |-> cacheGroupSet(snap),
     toPoll |-> [g \in tmGroupSet(snap, status) |-> {}]]

(* One turn: a group of monitors takes the cache group closest to it.      *)
Round(snap, status, s) ==
    LET closest == Closest(snap, s.turn, s.left)
    IN  [turn   |-> After(tmGroupSet(snap, status), s.turn),
         left   |-> s.left \ {closest},
         toPoll |-> [s.toPoll EXCEPT ![s.turn] = @ \cup {closest}]]

(* The loop, turn by turn.                                                 *)
Turns(snap, status, last) ==
    LET after[n \in 0..last] ==
            IF n = 0 THEN Start(snap, status) ELSE Round(snap, status, after[n - 1])
    IN  after

(* It ends when nothing is left, after as many turns as there are cache    *)
(* groups.                                                                 *)
Division(snap, status) ==
    LET last == Cardinality(cacheGroupSet(snap))
    IN  Turns(snap, status, last)[last].toPoll

(* A monitor that the snapshot does not list gets an error instead.        *)
getCacheGroupsToPoll(snap, host) ==
    LET this == snap.monitors[host]
    IN  IF DistributedPolling THEN Division(snap, this.status)[this.group]
                              ELSE cacheGroupSet(snap)

(* The monitors polled for raw states, itself left out ...                 *)
peerSet(snap, host) ==
    LET this == snap.monitors[host]
    IN  {h \in SameStatus(snap, this.status) \ {host} :
            DistributedPolling => snap.monitors[h].group = this.group}

(* ... and the groups of which one monitor at a time is asked for the rest.*)
distributedPeerSet(snap, host) ==
    LET this == snap.monitors[host]
    IN  tmGroupSet(snap, this.status) \ {this.group}

-----------------------------------------------------------------------------
(* Who may answer for group g when host asks it.                           *)
Speakers(snap, host, g) ==
    {h \in SameStatus(snap, snap.monitors[host].status) : snap.monitors[h].group = g}

(* The snapshot divides the CDN, as host sees it: its peers poll what it   *)
(* polls, whoever answers for another group polls nothing that it or a     *)
(* third group polls, and together they poll every cache group.            *)
Divided(snap, host) ==
    LET toPoll(h) == getCacheGroupsToPoll(snap, h)
        others    == distributedPeerSet(snap, host)
    IN  /\ \A p \in peerSet(snap, host) : toPoll(p) = toPoll(host)
        /\ \A g \in others : \A h \in Speakers(snap, host, g) :
             /\ toPoll(h) \cap toPoll(host) = {}
             /\ \A f \in others \ {g} : \A i \in Speakers(snap, host, f) :
                  toPoll(h) \cap toPoll(i) = {}
        /\ \A c \in cacheGroupSet(snap) :
             \/ c \in toPoll(host)
             \/ \E g \in others : /\ Speakers(snap, host, g) # {}
                                   /\ \A h \in Speakers(snap, host, g) : c \in toPoll(h)
=============================================================================
