--------------------------- MODULE MCMonitorStartup ---------------------------
(* Instances of MonitorStartup and DistributedPolling for TLC.             *)
EXTENDS DistributedPolling

CONSTANT c1    \* one of the two caches

(* A cache to be polled.                                                   *)
Server(g) == [status |-> "REPORTED", group |-> g, pollURL |-> "some"]

(* Distances between three cache groups; some may be in one place.         *)
Far(d12, d13, d23) ==
    [g \in 1..3 |-> [h \in 1..3 |->
        IF g = h THEN 0 ELSE IF {g, h} = {1, 2} THEN d12
        ELSE IF {g, h} = {1, 3} THEN d13 ELSE d23]]

(* Two monitors in groups 1 and 2, or only the second; c1 in group 1 and   *)
(* the other cache, if there, in group 2.                                  *)
Cdn(hosts, cs) ==
    [monitors |-> [h \in hosts |-> [status |-> "ONLINE", group |-> IF h = "tm1" THEN 1 ELSE 2]],
     caches   |-> [c \in cs |-> Server(IF c = c1 THEN 1 ELSE 2)],
     distance |-> Far(1, 1, 1)]

(* A configuration of these caches: DerivedAssumption checks that the      *)
(* snapshots give exactly the configurations of a run.                     *)
Config(ok, s1, s2) == [ok |-> ok, caches |-> [c \in Caches |-> IF c = c1 THEN s1 ELSE s2]]

(* A snapshot that lacks this monitor, and the second cache, is unusable.  *)
PlainCdns == {Cdn({"tm1", "tm2"}, Caches), Cdn({"tm2"}, {c1})}
Plain == {Config(TRUE, "polled", "polled"), Config(FALSE, "polled", "absent")}

(* The second cache, which another group of monitors polls, comes and goes. *)
Lasting == {Config(TRUE, "polled", "remote"), Config(TRUE, "polled", "absent")}

(* All that gives these configurations among three monitors, some OFFLINE, *)
(* and two caches, in three groups.                                        *)
LastingCdns ==
    {cdn \in
       [monitors : [{"tm1", "tm2", "tm3"} -> [status : {"ONLINE", "OFFLINE"}, group : 1..3]],
        caches : UNION {[cs -> {Server(g) : g \in 1..3}] : cs \in {Caches, {c1}}},
        distance : {Far(d12, d13, d23) : d12 \in 0..2, d13 \in 0..2, d23 \in 0..2}]
     : ConfigOf(cdn) \in Lasting}

(* Once no cache is awaited ServedOnlyPolled cannot break: none ever is    *)
(* again.                                                                  *)
UntilOpened == ~polledAll \/ awaited # {}
=============================================================================
