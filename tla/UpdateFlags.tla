----------------------------- MODULE UpdateFlags -----------------------------
(***************************************************************************)
(* Traffic Ops' half of configuration propagation: for each server and     *)
(* each kind of update (configuration, revalidation) the time an update    *)
(* was last queued and the time the cache last reported one applied.  An   *)
(* update is pending while the first is later than the second              *)
(* (traffic_ops_golang/server, cdn, cachegroup, topology, dbhelpers).      *)
(***************************************************************************)
EXTENDS Naturals

CONSTANTS
    Servers,
    Parents,        \* Parents[s]: the caches whose updates s may wait for
    StatusCache,    \* server_update_status_cache_refresh_interval_sec > 0
    Overlap         \* a transaction may commit with an older now()

Kinds == {"config", "reval"}

Flags == Servers \X Kinds

ASSUME FlagsAssumption ==
    /\ Parents \in [Servers -> SUBSET Servers]
    /\ StatusCache \in BOOLEAN
    /\ Overlap \in BOOLEAN

VARIABLES
    clock,          \* the latest now() of a committed transaction
    update,         \* config_update_time, revalidate_update_time
    apply,          \* config_apply_time, revalidate_apply_time
    snapshot        \* serverUpdateStatusCache.serverMap

flagVars == <<clock, update, apply, snapshot>>

Current == [update |-> update, apply |-> apply]

FlagsTypeOK ==
    /\ clock \in Nat
    /\ update \in [Flags -> Nat]
    /\ apply \in [Flags -> Nat]
    /\ snapshot \in [update : [Flags -> Nat], apply : [Flags -> Nat]]

FlagsInit ==
    /\ clock = 1
    /\ update = [p \in Flags |-> 1]
    /\ apply = [p \in Flags |-> 1]
    /\ snapshot = [update |-> update, apply |-> apply]

(***************************************************************************)
(* Reading the status of a server.                                         *)
(***************************************************************************)
Pending(status, s, k) == status.update[<<s, k>>] > status.apply[<<s, k>>]

(* Seeded fault: the cache's own group is among the groups it waits for.   *)
getParentPending_Self(status, s, k) ==
    \E p \in Parents[s] \cup {s} : Pending(status, p, k)

getParentPending(status, s, k) == \E p \in Parents[s] : Pending(status, p, k)

getServerUpdateStatus == IF StatusCache THEN snapshot ELSE Current

(* The database is read and the map stored in one step here.  In the code  *)
(* the store comes a little later; a cache that is that much older is also *)
(* what a refresh that came earlier leaves behind.                         *)
refreshServerUpdateStatusCache ==
    /\ StatusCache
    /\ snapshot' = Current
    /\ UNCHANGED <<clock, update, apply>>

(***************************************************************************)
(* Writing the times.  now() is when the transaction began, so the one     *)
(* that commits last need not carry the latest time.                       *)
(***************************************************************************)
(* Seeded fault: the database's clock can be set back.                     *)
Stamps_SetBack == {clock - 1, clock + 1}

Stamps == IF Overlap THEN {clock, clock + 1} ELSE {clock + 1}

Row(S, k) == {p \in Flags : p[1] \in S /\ p[2] = k}

QueueUpdateForServers(S, k, now) ==
    /\ now \in Stamps
    /\ clock' = now
    /\ update' = [p \in Flags |-> IF p \in Row(S, k) THEN now ELSE update[p]]
    /\ UNCHANGED <<apply, snapshot>>

DequeueUpdateForServers(S) ==
    /\ update' = [p \in Flags |-> IF p \in Row(S, "config") THEN apply[p] ELSE update[p]]
    /\ UNCHANGED <<clock, apply, snapshot>>

(* The caller passes updated=false (or reval_updated=false).               *)
SetApplyUpdateForServer(s, k, now) ==
    /\ now \in Stamps
    /\ clock' = now
    /\ apply' = [apply EXCEPT ![<<s, k>>] = now]
    /\ UNCHANGED <<update, snapshot>>

(* The caller passes config_apply_time (or revalidate_apply_time).         *)
SetApplyUpdateForServerWithTime(s, k, time) ==
    /\ apply' = [apply EXCEPT ![<<s, k>>] = time]
    /\ UNCHANGED <<clock, update, snapshot>>
=============================================================================
