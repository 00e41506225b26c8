---------------------------- MODULE ConfigDelivery ----------------------------
(***************************************************************************)
(* What the delivery of configuration promises, whatever the order of      *)
(* runs, failures and crashes: a cache only ever holds a revision of a     *)
(* file that Traffic Ops has had, and never goes back to an older one.     *)
(***************************************************************************)
EXTENDS Naturals

CONSTANTS Servers, Files

VARIABLES
    published,      \* the revision of each file that Traffic Ops would generate
    held            \* the revision of each file that each cache has on disk

Init ==
    /\ published \in [Files -> Nat]
    /\ held = [s \in Servers |-> published]

Publish(f) ==
    /\ published' = [published EXCEPT ![f] = @ + 1]
    /\ UNCHANGED held

Deliver(s) ==
    /\ held' = [held EXCEPT ![s] = held'[s]]
    /\ held'[s] \in [Files -> Nat]
    /\ \A f \in Files : held[s][f] <= held'[s][f] /\ held'[s][f] <= published[f]
    /\ UNCHANGED published

Next == (\E f \in Files : Publish(f)) \/ (\E s \in Servers : Deliver(s))

Spec == Init /\ [][Next]_<<published, held>>
=============================================================================
