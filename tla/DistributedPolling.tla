-------------------------- MODULE DistributedPolling --------------------------
(***************************************************************************)
(* MonitorStartup with its configurations derived from snapshots: which    *)
(* caches this monitor polls, and which it leaves to others and waits for, *)
(* follows from the division that CacheGroupPartition computes.            *)
(***************************************************************************)
EXTENDS MonitorStartup, CacheGroupPartition

CONSTANT ThisHost   \* staticAppData.Hostname

(* The part of monitorConfigListen that reads a snapshot.  Without this    *)
(* monitor in it the configuration is stored and not applied.              *)
ConfigOf(snap) ==
    LET found == ThisHost \in DOMAIN snap.monitors
        status(c) ==
            IF c \notin DOMAIN snap.caches THEN "absent"
            ELSE IF snap.caches[c].status = "ONLINE" THEN "online"
            ELSE IF found /\ snap.caches[c].group \notin getCacheGroupsToPoll(snap, ThisHost)
                   THEN "remote"
            ELSE IF snap.caches[c].pollURL = "none" THEN "nourl" ELSE "polled"
    IN  [ok |-> found, caches |-> [c \in Caches |-> status(c)]]

ASSUME DerivedAssumption == Configs = {ConfigOf(snap) : snap \in Snapshots}

-----------------------------------------------------------------------------
(* Configurations of a snapshot that does not divide the CDN.              *)
Undivided ==
    {ConfigOf(snap) : snap \in {s \in Snapshots :
        ThisHost \in DOMAIN s.monitors /\ DistributedPolling /\ ~Divided(s, ThisHost)}}

(***************************************************************************)
(* "Traffic Monitor groups will each poll their own disjoint subsets of    *)
(* the CDN" (docs/source/admin/traffic_monitor.rst): although every        *)
(* monitor computes the division by itself and distances may be equal,     *)
(* whatever configuration this monitor holds, the caches it leaves to      *)
(* others are polled by exactly one group that it asks, and those it polls *)
(* by its peers and nobody else.  Otherwise it would wait for a cache that *)
(* nobody reports (getCacheGroupsToPoll, manager/monitorconfig.go).        *)
(***************************************************************************)
DisjointSubsets == monitorConfig \notin Undivided
=============================================================================
