--------------------------- MODULE OptimisticHealth ---------------------------
(***************************************************************************)
(* What a Traffic Router may rely on when it fetches the combined states:  *)
(* they are written in rounds, and a round makes a cache available only if *)
(* somebody this monitor may trust held it available while the round took  *)
(* in what it is about.  Optimism is allowed, invention is not.            *)
(***************************************************************************)
CONSTANT Caches

VARIABLES
    held,       \* the caches held available by the monitor itself, or by
                \* a peer it may trust, right now
    since,      \* those seen to be held available since the round began;
                \* between rounds, none
    published   \* the caches Traffic Routers are told are available

vars == <<held, since, published>>

Init ==
    /\ held \in SUBSET Caches
    /\ since = {}
    /\ published = {}

(* Caches, peers and configurations change, and are seen to.               *)
Look ==
    /\ held' \in SUBSET Caches
    /\ since' = since \cup held'
    /\ published' = published

(* They change unseen: between two rounds, or once the round has taken its *)
(* copies of them.                                                         *)
Ignore ==
    /\ held' \in SUBSET Caches
    /\ UNCHANGED <<since, published>>

(* A cache seen to be held available may be published so, although it no   *)
(* longer is and others contradict it.                                     *)
Raise(c) ==
    /\ c \in since
    /\ published' = published \cup {c}
    /\ UNCHANGED <<held, since>>

Lower(c) ==
    /\ published' = published \ {c}
    /\ UNCHANGED <<held, since>>

(* The end of a round may only withdraw caches.                            *)
Finish ==
    /\ published' \in SUBSET published
    /\ since' = {}
    /\ UNCHANGED held

Next ==
    \/ Look
    \/ Ignore
    \/ \E c \in Caches : Raise(c) \/ Lower(c)
    \/ Finish

Spec == Init /\ [][Next]_vars
=============================================================================
