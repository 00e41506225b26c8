----------------------- MODULE CacheAvailabilityProofs -----------------------
(* Proofs about CacheAvailability, for any caches, configurations and      *)
(* findings.                                                               *)
EXTENDS CacheAvailability, SequenceTheorems, TLAPS

(* A result keeps its type when its poller is killed, and so does a        *)
(* sequence of results.                                                    *)
LEMMA OutlivesType ==
    ASSUME NEW D, NEW s \in Seq(Result)
    PROVE  [i \in DOMAIN s |-> Outlives(s[i], D)] \in Seq(Result)
<1>1. ASSUME NEW r \in Result PROVE Outlives(r, D) \in Result
  BY DEF Outlives, Result
<1>2. DOMAIN s = 1..Len(s) /\ Len(s) \in Nat
  OBVIOUS
<1> QED
  BY <1>1, <1>2, IsASeq

(* What a result makes of an entry and of the flags.                       *)
LEMMA EvaluateTypes ==
    ASSUME NEW m, NEW server \in Server, NEW last \in Status, NEW r \in Result,
           NEW entry \in Entry
    PROVE  /\ Available(m, server, last, r) \in SUBSET Protocols
           /\ SetCache(entry, server, Available(m, server, last, r)) \in Entry
<1>1. Available(m, server, last, r) \in SUBSET Protocols
  BY DEF Available, Status, Server, Result
<1> DEFINE flags == Available(m, server, last, r)
<1> HIDE DEF flags
<1>2. SetCache(entry, server, flags) \in Entry
  BY <1>1 DEF SetCache, Entry, flags
<1> QED
  BY <1>1, <1>2 DEF flags

LEMMA StepTypes == TypeOK /\ [Next]_vars => TypeOK'
<1> SUFFICES ASSUME TypeOK, [Next]_vars PROVE TypeOK'
  OBVIOUS
<1> USE DEF TypeOK
<1>1. ASSUME NEW r \in Realities, Change(r) PROVE TypeOK'
  BY <1>1 DEF Change, cfgVars, pollVars, mgrVars
<1>2. ASSUME NEW k \in Configs, ReceiveConfig(k) PROVE TypeOK'
  BY <1>2, AvailabilityAssumption DEF ReceiveConfig, pollVars, mgrVars
<1>3. CASE SeedCaches
  <2>1. localStates' \in [Caches -> Entry]
    BY <1>3 DEF SeedCaches, Seed, Entry, Server
  <2> QED
    BY <1>3, <2>1 DEF SeedCaches, pollVars, mgrVars
<1>4. CASE SendPollers
  <2>1. pollAddrs' \in [Managers -> [Caches -> SUBSET Protocols]]
    BY <1>4 DEF SendPollers, PollURLs, Server
  <2>2. next' \in [Managers -> [Caches -> Protocols]]
    BY <1>4 DEF SendPollers, Protocols
  <2>3. dying' \in [Managers -> [Caches -> SUBSET Protocols]]
    BY <1>4 DEF SendPollers
  <2>4. queue' \in [Managers -> Seq(Result)] /\ batch' \in [Managers -> Seq(Result)]
    BY <1>4, OutlivesType DEF SendPollers
  <2> QED
    BY <1>4, <2>1, <2>2, <2>3, <2>4 DEF SendPollers
<1>5. CASE DeleteCaches
  <2>1. localStates' \in [Caches -> Entry]
    BY <1>5 DEF DeleteCaches, NoEntry, Entry
  <2> QED
    BY <1>5, <2>1 DEF DeleteCaches, pollVars, mgrVars
<1>6. ASSUME NEW m \in Managers, NEW c \in Caches, Poll(m, c) PROVE TypeOK'
  <2>1. Using(m, c) \in Protocols /\ Alternate(Using(m, c)) \in Protocols
    BY DEF Using, Alternate, Other, Protocols
  <2>2. reality[c][Using(m, c)] \in Findings
    BY <2>1, AvailabilityAssumption
  <2>3. next' \in [Managers -> [Caches -> Protocols]]
    BY <1>6, <2>1 DEF Poll
  <2> DEFINE r == [cache |-> c, protocol |-> Using(m, c),
                   finding |-> reality[c][Using(m, c)], poller |-> "live"]
  <2>4. r \in Result
    BY <2>1, <2>2 DEF Result
  <2>5. queue' = [queue EXCEPT ![m] = Append(@, r)]
    BY <1>6 DEF Poll
  <2> HIDE DEF r
  <2>6. queue' \in [Managers -> Seq(Result)]
    BY <2>4, <2>5
  <2> QED
    BY <1>6, <2>3, <2>6 DEF Poll, cfgVars, mgrVars
<1>7. ASSUME NEW m \in Managers, NEW c \in Caches, NEW p \in Protocols,
             PollOnceMore(m, c, p)
      PROVE  TypeOK'
  <2>1. reality[c][p] \in Findings
    BY AvailabilityAssumption
  <2> DEFINE r == [cache |-> c, protocol |-> p, finding |-> reality[c][p],
                   poller |-> "killed"]
  <2>2. r \in Result
    BY <2>1 DEF Result
  <2>3. queue' = [queue EXCEPT ![m] = Append(@, r)]
    BY <1>7 DEF PollOnceMore
  <2> HIDE DEF r
  <2>4. queue' \in [Managers -> Seq(Result)]
    BY <2>2, <2>3
  <2> QED
    BY <1>7, <2>4 DEF PollOnceMore, cfgVars, mgrVars
<1>8. ASSUME NEW m \in Managers, NEW c \in Caches, Die(m, c) PROVE TypeOK'
  BY <1>8 DEF Die, cfgVars, mgrVars
<1>9. ASSUME NEW m \in Managers, Receive(m) PROVE TypeOK'
  <2>1. PICK n \in 0..Len(queue[m]) : ReceiveResults(m, n)
    BY <1>9 DEF Receive
  <2>2. SubSeq(queue[m], 1, n) \in Seq(Result) /\ SubSeq(queue[m], n + 1, Len(queue[m])) \in Seq(Result)
    BY SubSeqProperties
  <2>3. queue' \in [Managers -> Seq(Result)] /\ batch' \in [Managers -> Seq(Result)]
    BY <2>1, <2>2 DEF ReceiveResults
  <2> QED
    BY <2>1, <2>3 DEF ReceiveResults, pollVars
<1>10. ASSUME NEW m \in Managers, CopyConfig(m) PROVE TypeOK'
  BY <1>10 DEF CopyConfig, cfgVars, pollVars
<1>11. ASSUME NEW m \in Managers, CopyStatuses(m) PROVE TypeOK'
  BY <1>11 DEF CopyStatuses, cfgVars, pollVars
<1>12. ASSUME NEW m \in Managers, Evaluate(m) PROVE TypeOK'
  <2> DEFINE r == Head(batch[m])
             server == mc[m][r.cache]
             flags == Available(m, server, copy[m][r.cache], r)
  <2>1. r \in Result /\ Tail(batch[m]) \in Seq(Result)
    BY <1>12 DEF Evaluate
  <2>2. r.cache \in Caches /\ r.protocol \in Protocols
    BY <2>1 DEF Result
  <2>3. flags \in SUBSET Protocols /\ SetCache(localStates[r.cache], server, flags) \in Entry
    BY <2>1, <2>2, EvaluateTypes
  <2>4. localStates' \in [Caches -> Entry]
    BY <1>12, <2>2, <2>3 DEF Evaluate
  <2>5. copy' \in [Managers -> [Caches -> Status]]
    BY <1>12, <2>2, <2>3 DEF Evaluate, Status
  <2>6. found' \in [Caches -> SUBSET Protocols]
    BY <1>12, <2>2 DEF Evaluate
  <2>7. batch' \in [Managers -> Seq(Result)]
    BY <1>12, <2>1 DEF Evaluate
  <2> QED
    BY <1>12, <2>4, <2>5, <2>6, <2>7 DEF Evaluate, cfgVars, pollVars
<1>13. ASSUME NEW m \in Managers, SetStatuses(m) PROVE TypeOK'
  <2>1. [c \in Caches |-> NoStatus] \in [Caches -> Status] /\ NoConfig \in [Caches -> Server]
    BY DEF NoStatus, Status, NoConfig, Server, Statuses
  <2> QED
    BY <1>13, <2>1 DEF SetStatuses, cfgVars, pollVars
<1>14. CASE UNCHANGED vars
  BY <1>14 DEF vars, cfgVars, pollVars, mgrVars
<1> HIDE DEF TypeOK
<1> QED
  BY <1>1, <1>2, <1>3, <1>4, <1>5, <1>6, <1>7, <1>8, <1>9, <1>10, <1>11, <1>12, <1>13, <1>14
  DEF Next, ConfigStep, PollerStep, Manager

(***************************************************************************)
(* Type correctness, for any number of managers and either protocol.       *)
(***************************************************************************)
THEOREM TypeCorrect == Spec => []TypeOK
<1>1. Init => TypeOK
  <2> SUFFICES ASSUME Init PROVE TypeOK
    OBVIOUS
  <2>1. NoConfig \in [Caches -> Server] /\ NoStatus \in Status /\ NoEntry \in Entry
    BY DEF NoConfig, NoStatus, NoEntry, Server, Statuses, Status, Entry
  <2>2. <<>> \in Seq(Result)
    OBVIOUS
  <2> QED
    BY <2>1, <2>2 DEF Init, TypeOK, Protocols
<1> QED
  BY <1>1, StepTypes, PTL DEF Spec

(***************************************************************************)
(* A cache that left the configuration stays without an entry until the    *)
(* next configuration, for any number of managers and whatever results are *)
(* still under way.  The property is its own inductive invariant: only     *)
(* SeedCaches makes an entry, and only of a configured cache.              *)
(***************************************************************************)
THEOREM RemovedStaysRemovedHolds == Spec => []RemovedStaysRemoved
<1>1. Init => RemovedStaysRemoved
  BY DEF Init, RemovedStaysRemoved, NoEntry
<1>2. TypeOK /\ RemovedStaysRemoved /\ [Next]_vars => RemovedStaysRemoved'
  <2> SUFFICES ASSUME TypeOK, RemovedStaysRemoved, [Next]_vars PROVE RemovedStaysRemoved'
    OBVIOUS
  <2>1. ASSUME UNCHANGED <<monitorConfig, cfgPc, localStates>> PROVE RemovedStaysRemoved'
    BY <2>1 DEF RemovedStaysRemoved
  <2>2. ASSUME cfgPc' \in {"seed", "send", "delete"} PROVE RemovedStaysRemoved'
    BY <2>2 DEF RemovedStaysRemoved
  <2>3. CASE DeleteCaches
    BY <2>3 DEF DeleteCaches, RemovedStaysRemoved, TypeOK, NoEntry
  <2>4. ASSUME NEW m \in Managers, Receive(m) PROVE RemovedStaysRemoved'
    BY <2>4 DEF Receive, ReceiveResults, RemovedStaysRemoved
  <2>5. ASSUME NEW m \in Managers, Evaluate(m) PROVE RemovedStaysRemoved'
    <3> DEFINE r == Head(batch[m])
               flags == Available(m, mc[m][r.cache], copy[m][r.cache], r)
    <3>1. ASSUME NEW c \in Caches, localStates[c].is = "absent"
          PROVE  localStates'[c].is = "absent"
      <4>1. localStates' = [localStates EXCEPT ![r.cache] =
                              SetCache(@, mc[m][r.cache], flags)]
        BY <2>5 DEF Evaluate
      <4>2. CASE c = r.cache
        BY <3>1, <4>1, <4>2 DEF SetCache, TypeOK
      <4>3. CASE c # r.cache
        BY <3>1, <4>1, <4>3 DEF TypeOK
      <4> QED
        BY <4>2, <4>3
    <3> QED
      BY <2>5, <3>1 DEF Evaluate, cfgVars, RemovedStaysRemoved
  <2>6. ASSUME NEW m \in Managers, CopyConfig(m) \/ CopyStatuses(m) \/ SetStatuses(m)
        PROVE  RemovedStaysRemoved'
    BY <2>1, <2>6 DEF CopyConfig, CopyStatuses, SetStatuses, cfgVars
  <2>7. CASE SeedCaches \/ SendPollers \/ \E k \in Configs : ReceiveConfig(k)
    BY <2>2, <2>7 DEF SeedCaches, SendPollers, ReceiveConfig
  <2>8. CASE PollerStep \/ \E r \in Realities : Change(r)
    BY <2>1, <2>8 DEF PollerStep, Poll, PollOnceMore, Die, Change, cfgVars
  <2>9. CASE UNCHANGED vars
    BY <2>1, <2>9 DEF vars, cfgVars
  <2> QED
    BY <2>3, <2>4, <2>5, <2>6, <2>7, <2>8, <2>9 DEF Next, ConfigStep, Manager
<1> QED
  BY <1>1, <1>2, TypeCorrect, PTL DEF Spec

(* What a manager carries over is what was found: the statuses, while no   *)
(* manager works on a copy of them, and then the copy.                     *)
CarriedOver ==
    /\ \A c \in Caches : (\A m \in Managers : pc[m] # "evaluate")
                           => statuses[c].flags \subseteq found[c]
    /\ \A m \in Managers, c \in Caches :
         pc[m] = "evaluate" => copy[m][c].flags \subseteq found[c]

(* A cache without an entry has nothing in it.                             *)
AbsentIsEmpty == \A c \in Caches : localStates[c].is = "absent" => localStates[c] = NoEntry

AvailabilityInv == AvailableOnlyAsFound /\ CarriedOver /\ AbsentIsEmpty

(***************************************************************************)
(* With a single manager, which is how the monitor runs when stat polling  *)
(* is off, a polled cache is published as available over a protocol only   *)
(* if its last result over that protocol was good.                         *)
(***************************************************************************)
THEOREM AvailableOnlyAsFoundHolds ==
    ASSUME \A m, n \in Managers : m = n
    PROVE  Spec => []AvailableOnlyAsFound
<1>1. Init => AvailabilityInv
  BY DEF Init, AvailabilityInv, AvailableOnlyAsFound, CarriedOver, AbsentIsEmpty, NoEntry, NoStatus
<1>2. TypeOK /\ AvailabilityInv /\ [Next]_vars => AvailabilityInv'
  <2> SUFFICES ASSUME TypeOK, AvailabilityInv, [Next]_vars PROVE AvailabilityInv'
    OBVIOUS
  <2> USE DEF AvailabilityInv
  <2>1. ASSUME UNCHANGED <<localStates, statuses, pc, copy, found>> PROVE AvailabilityInv'
    BY <2>1 DEF AvailableOnlyAsFound, CarriedOver, AbsentIsEmpty
  <2>2. ASSUME UNCHANGED <<statuses, pc, copy, found>>, AvailableOnlyAsFound', AbsentIsEmpty'
        PROVE  AvailabilityInv'
    BY <2>2 DEF CarriedOver
  <2>3. CASE SeedCaches
    <3>1. \A c \in Caches : localStates'[c] = Seed(monitorConfig[c], localStates[c])
      BY <2>3 DEF SeedCaches
    <3>2. UNCHANGED <<statuses, pc, copy, found>>
      BY <2>3 DEF SeedCaches, mgrVars
    <3>3. ASSUME NEW c \in Caches
          PROVE  \/ localStates'[c] = localStates[c]
                 \/ localStates'[c].is # "absent" /\ localStates'[c].directlyPolled = "no"
                 \/ localStates'[c].is # "absent" /\ localStates'[c].flags = {}
      <4> DEFINE server == monitorConfig[c]
                 online == [is |-> "up", flags |-> server.addresses, directlyPolled |-> "no"]
                 seed == [is |-> "down", flags |-> {}, directlyPolled |-> "yes"]
      <4>1. localStates'[c] \in {localStates[c], online, seed}
        BY <3>1, Zenon DEF Seed
      <4>2. online.is # "absent" /\ online.directlyPolled = "no" /\ seed.is # "absent" /\ seed.flags = {}
        OBVIOUS
      <4> HIDE DEF online, seed
      <4> QED
        BY <4>1, <4>2
    <3>4. AvailableOnlyAsFound'
      <4> SUFFICES ASSUME NEW c \in Caches, localStates'[c].directlyPolled = "yes"
                   PROVE  localStates'[c].flags \subseteq found'[c]
        BY DEF AvailableOnlyAsFound
      <4>1. found'[c] = found[c]
        BY <3>2
      <4> QED
        BY <3>3, <4>1 DEF AvailableOnlyAsFound
    <3>5. AbsentIsEmpty'
      BY <3>3 DEF AbsentIsEmpty
    <3> QED
      BY <2>2, <3>2, <3>4, <3>5
  <2>4. CASE DeleteCaches
    <3>1. ASSUME NEW c \in Caches
          PROVE  localStates'[c] = localStates[c] \/ localStates'[c] = NoEntry
      BY <2>4 DEF DeleteCaches
    <3>2. UNCHANGED <<statuses, pc, copy, found>>
      BY <2>4 DEF DeleteCaches, mgrVars
    <3>3. AvailableOnlyAsFound' /\ AbsentIsEmpty'
      BY <3>1, <3>2 DEF AvailableOnlyAsFound, AbsentIsEmpty, NoEntry
    <3> QED
      BY <2>2, <3>2, <3>3
  <2>5. ASSUME NEW m \in Managers, Receive(m) PROVE AvailabilityInv'
    BY <2>5 DEF Receive, ReceiveResults, TypeOK, AvailableOnlyAsFound, CarriedOver, AbsentIsEmpty
  <2>6. ASSUME NEW m \in Managers, CopyConfig(m) PROVE AvailabilityInv'
    BY <2>6 DEF CopyConfig, TypeOK, AvailableOnlyAsFound, CarriedOver, AbsentIsEmpty
  <2>7. ASSUME NEW m \in Managers, CopyStatuses(m) PROVE AvailabilityInv'
    BY <2>7 DEF CopyStatuses, TypeOK, AvailableOnlyAsFound, CarriedOver, AbsentIsEmpty
  <2>8. ASSUME NEW m \in Managers, Evaluate(m) PROVE AvailabilityInv'
    <3> DEFINE r == Head(batch[m])
               b == r.cache
               server == mc[m][b]
               last == copy[m][b]
               flags == Available(m, server, last, r)
               good == Good(m, server, r)
    <3>1. r \in Result
      BY <2>8 DEF Evaluate, TypeOK
    <3>2. r \in Result /\ b \in Caches
      BY <3>1 DEF Result
    <3>3. last.flags \subseteq found[b]
      BY <2>8, <3>2 DEF Evaluate, CarriedOver
    <3>4. found'[b] = (IF good THEN found[b] \cup {r.protocol} ELSE found[b] \ {r.protocol})
      BY <2>8, <3>2 DEF Evaluate, TypeOK
    <3>5. flags \subseteq found'[b]
      BY <3>3, <3>4 DEF Available
    <3>6. localStates'[b] = SetCache(localStates[b], server, flags) /\ copy'[m][b].flags = flags
      BY <2>8, <3>2 DEF Evaluate, TypeOK
    <3>7. ASSUME NEW c \in Caches, c # b
          PROVE  /\ localStates'[c] = localStates[c] /\ found'[c] = found[c]
                 /\ copy'[m][c] = copy[m][c]
      BY <2>8, <3>2, <3>7 DEF Evaluate, TypeOK
    <3>8. pc' = pc /\ pc[m] = "evaluate"
      BY <2>8 DEF Evaluate
    <3> HIDE DEF r, b, server, last, flags, good
    <3>9. AvailableOnlyAsFound'
      BY <3>2, <3>5, <3>6, <3>7 DEF AvailableOnlyAsFound, AbsentIsEmpty, SetCache, NoEntry
    <3>10. AbsentIsEmpty'
      BY <3>2, <3>6, <3>7 DEF AbsentIsEmpty, SetCache
    <3>11. CarriedOver'
      BY <3>2, <3>5, <3>6, <3>7, <3>8 DEF CarriedOver
    <3> QED
      BY <3>9, <3>10, <3>11
  <2>9. ASSUME NEW m \in Managers, SetStatuses(m) PROVE AvailabilityInv'
    BY <2>9 DEF SetStatuses, TypeOK, AvailableOnlyAsFound, CarriedOver, AbsentIsEmpty
  <2>10. ASSUME NEW r \in Realities, Change(r) PROVE AvailabilityInv'
    BY <2>1, <2>10 DEF Change, mgrVars
  <2>11. ASSUME NEW k \in Configs, ReceiveConfig(k) PROVE AvailabilityInv'
    BY <2>1, <2>11 DEF ReceiveConfig, mgrVars
  <2>12. CASE SendPollers
    BY <2>1, <2>12 DEF SendPollers
  <2>13. CASE PollerStep
    BY <2>1, <2>13 DEF PollerStep, Poll, PollOnceMore, Die, mgrVars
  <2>14. CASE UNCHANGED vars
    BY <2>1, <2>14 DEF vars, mgrVars
  <2> HIDE DEF AvailabilityInv
  <2> QED
    BY <2>3, <2>4, <2>5, <2>6, <2>7, <2>8, <2>9, <2>10, <2>11, <2>12, <2>13, <2>14
    DEF Next, ConfigStep, Manager
<1>3. AvailabilityInv => AvailableOnlyAsFound
  BY DEF AvailabilityInv
<1> QED
  BY <1>1, <1>2, <1>3, TypeCorrect, PTL DEF Spec
=============================================================================
