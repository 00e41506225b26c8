---------------------------- MODULE CombinerHistory ----------------------------
(***************************************************************************)
(* StateCombiner with a history variable: the caches that this monitor or  *)
(* a peer held available at some moment between the signal for the round   *)
(* that the combiner is in and the second of its two copies.  The variable *)
(* restricts nothing: it only remembers.                                   *)
(***************************************************************************)
EXTENDS StateCombiner

VARIABLE since

(* A peer's answer that is good, in time and of an online peer.            *)
Vouches(info, p, c) ==
    /\ info[p].polledOK /\ info[p].online /\ info[p].fresh
    /\ info[p].caches[c].isAvailable

(* The caches that somebody holds available right now.                     *)
Held ==
    {c \in Caches : \/ localCaches[c].ipv4Available \/ localCaches[c].ipv6Available
                    \/ \E p \in Peers : Vouches(peers, p, c)}

Published == {c \in Caches : combinedCaches[c].isAvailable}

Remember ==
    since' = IF pc' = "idle" THEN {}
             ELSE IF pc \in {"caches", "ds"} THEN since ELSE since \cup Held'

TracedInit == Init /\ since = {}

TracedNext == Next /\ Remember

tracedVars == <<vars, since>>

TracedSpec == TracedInit /\ [][TracedNext]_tracedVars

TracedFairSpec == TracedSpec /\ Fairness

Health == INSTANCE OptimisticHealth
            WITH held <- Held, since <- since, published <- Published

(***************************************************************************)
(* A cache is published available only if this monitor, or a peer that is  *)
(* online, answered well and in time, held it so at some moment between    *)
(* the combiner's signal and its second copy, although the merge mixes     *)
(* copies taken at two moments, cache by cache, while all inputs change    *)
(* and answers become too old (combineCrStates, statecombiner.go).         *)
(***************************************************************************)
HealthSpec == Health!Spec
=============================================================================
