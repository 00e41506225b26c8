----------------------- MODULE DistributedPollingProofs -----------------------
(***************************************************************************)
(* The division of the CDN among groups of monitors, for any snapshot.     *)
(* The division is a recursive function, so its correctness is an          *)
(* induction on the number of turns; NatInductionSet states induction for  *)
(* a set of numbers, which needs no operator as a parameter.               *)
(***************************************************************************)
EXTENDS DistributedPolling, FiniteSetTheorems, TLAPS

(* A set of numbers that is not empty has a least one.                     *)
LEMMA LeastNumber ==
    ASSUME NEW S, S \subseteq Nat, S # {}
    PROVE  \E x \in S : \A y \in S : x <= y
<1>1. \E x \in S : \A y \in S : <<y, x>> \notin OpToRel(<, Nat)
  BY WFMin, NatLessThanWellFounded
<1>2. PICK x \in S : \A y \in S : <<y, x>> \notin OpToRel(<, Nat)
  BY <1>1
<1>3. \A y \in S : ~(y < x)
  BY <1>2 DEF OpToRel
<1> QED
  BY <1>3

LEMMA NatInductionSet ==
    ASSUME NEW S, 0 \in S, \A n \in Nat : n \in S => n + 1 \in S
    PROVE  Nat \subseteq S
<1> SUFFICES ASSUME Nat \ S # {} PROVE FALSE
  OBVIOUS
<1>1. PICK x \in Nat \ S : \A y \in Nat \ S : x <= y
  BY LeastNumber
<1>2. x # 0 /\ x - 1 \in Nat
  BY <1>1
<1>3. x - 1 \in S
  BY <1>1, <1>2
<1>4. (x - 1) + 1 = x
  BY <1>1
<1> QED
  BY <1>1, <1>2, <1>3, <1>4

LEMMA FirstIsLeast ==
    ASSUME NEW S, S \subseteq Nat, S # {}
    PROVE  First(S) \in S
BY LeastNumber DEF First

LEMMA AfterIsIn ==
    ASSUME NEW S, S \subseteq Nat, NEW g \in S
    PROVE  After(S, g) \in S
<1>1. CASE {h \in S : h > g} = {}
  BY <1>1, FirstIsLeast DEF After
<1>2. CASE {h \in S : h > g} # {}
  BY <1>2, FirstIsLeast DEF After
<1> QED
  BY <1>1, <1>2

LEMMA ClosestIsLeft ==
    ASSUME NEW snap, IsSnapshot(snap), NEW target \in Groups,
           NEW left, left \subseteq Groups, left # {}
    PROVE  Closest(snap, target, left) \in left
<1> DEFINE D == {snap.distance[target][c] : c \in left}
<1>1. D \subseteq Nat /\ D # {}
  BY DEF IsSnapshot
<1>2. PICK x \in D : \A y \in D : x <= y
  BY <1>1, LeastNumber
<1>3. PICK c \in left : x = snap.distance[target][c]
  BY <1>2
<1>4. c \in Nearest(snap, target, left)
  BY <1>2, <1>3 DEF Nearest
<1>5. Nearest(snap, target, left) \subseteq Nat /\ Nearest(snap, target, left) \subseteq left
  BY PartitionAssumption DEF Nearest
<1> QED
  BY <1>4, <1>5, FirstIsLeast DEF Closest

-----------------------------------------------------------------------------
(* The loop invariant: what was taken and what is left is the CDN, and     *)
(* nothing was taken twice.                                                *)
LoopInv(snap, status, s) ==
    /\ s.turn \in tmGroupSet(snap, status)
    /\ s.left \subseteq cacheGroupSet(snap)
    /\ s.toPoll \in [tmGroupSet(snap, status) -> SUBSET cacheGroupSet(snap)]
    /\ \A g \in tmGroupSet(snap, status) :
         /\ s.toPoll[g] \cap s.left = {}
         /\ \A h \in tmGroupSet(snap, status) \ {g} : s.toPoll[g] \cap s.toPoll[h] = {}
    /\ \A c \in cacheGroupSet(snap) :
         c \in s.left \/ \E g \in tmGroupSet(snap, status) : c \in s.toPoll[g]

LEMMA GroupSets ==
    ASSUME NEW snap, IsSnapshot(snap), NEW status
    PROVE  /\ tmGroupSet(snap, status) \subseteq Groups
           /\ cacheGroupSet(snap) \subseteq Groups
           /\ IsFiniteSet(cacheGroupSet(snap))
<1>1. tmGroupSet(snap, status) \subseteq Groups /\ cacheGroupSet(snap) \subseteq Groups
  BY DEF IsSnapshot, tmGroupSet, SameStatus, cacheGroupSet
<1> QED
  BY <1>1, PartitionAssumption, FS_Subset

LEMMA StartInv ==
    ASSUME NEW snap, IsSnapshot(snap), NEW status, tmGroupSet(snap, status) # {}
    PROVE  LoopInv(snap, status, Start(snap, status))
<1>1. First(tmGroupSet(snap, status)) \in tmGroupSet(snap, status)
  BY GroupSets, PartitionAssumption, FirstIsLeast
<1> QED
  BY <1>1 DEF LoopInv, Start

LEMMA RoundInv ==
    ASSUME NEW snap, IsSnapshot(snap), NEW status, NEW s,
           LoopInv(snap, status, s), s.left # {}
    PROVE  /\ LoopInv(snap, status, Round(snap, status, s))
           /\ \E c \in s.left : Round(snap, status, s).left = s.left \ {c}
<1> DEFINE T == tmGroupSet(snap, status)
           C == cacheGroupSet(snap)
           k == Closest(snap, s.turn, s.left)
           r == Round(snap, status, s)
<1>1. k \in s.left
  BY GroupSets, ClosestIsLeft DEF LoopInv
<1>2. After(T, s.turn) \in T
  BY GroupSets, PartitionAssumption, AfterIsIn DEF LoopInv
<1>3. /\ r.turn = After(T, s.turn)
      /\ r.left = s.left \ {k}
      /\ r.toPoll = [s.toPoll EXCEPT ![s.turn] = @ \cup {k}]
  BY DEF Round
<1>4. \A g \in T : r.toPoll[g] = IF g = s.turn THEN s.toPoll[g] \cup {k} ELSE s.toPoll[g]
  BY <1>3 DEF LoopInv
<1>5. r.toPoll \in [T -> SUBSET C]
  BY <1>1, <1>3 DEF LoopInv
<1>6. \A g \in T : r.toPoll[g] \cap r.left = {}
  BY <1>3, <1>4 DEF LoopInv
<1>7. \A g \in T : \A h \in T \ {g} : r.toPoll[g] \cap r.toPoll[h] = {}
  <2> TAKE g \in T
  <2> TAKE h \in T \ {g}
  <2>1. s.toPoll[g] \cap s.toPoll[h] = {} /\ k \notin s.toPoll[g] /\ k \notin s.toPoll[h]
    BY <1>1 DEF LoopInv
  <2> QED
    BY <1>4, <2>1
<1>8. \A c \in C : c \in r.left \/ \E g \in T : c \in r.toPoll[g]
  <2> TAKE c \in C
  <2>1. CASE c = k
    BY <1>4, <2>1 DEF LoopInv
  <2>2. CASE c # k
    BY <1>3, <1>4, <2>2 DEF LoopInv
  <2> QED
    BY <2>1, <2>2
<1>9. r.turn \in T /\ r.left \subseteq C
  BY <1>2, <1>3 DEF LoopInv
<1>10. LoopInv(snap, status, r)
  BY <1>5, <1>6, <1>7, <1>8, <1>9 DEF LoopInv
<1> QED
  BY <1>1, <1>3, <1>10

-----------------------------------------------------------------------------
(* The recursive function exists, and is what its definition says.         *)
IsTurns(f, snap, status, last) ==
    f = [n \in 0..last |->
            IF n = 0 THEN Start(snap, status) ELSE Round(snap, status, f[n - 1])]

LEMMA TurnsExist ==
    ASSUME NEW snap, NEW status
    PROVE  \A k \in Nat : \E f : IsTurns(f, snap, status, k)
<1> DEFINE S == {k \in Nat : \E f : IsTurns(f, snap, status, k)}
<1>1. 0 \in S
  <2> DEFINE f == [n \in 0..0 |-> Start(snap, status)]
  <2>1. IsTurns(f, snap, status, 0)
    BY DEF IsTurns
  <2> QED
    BY <2>1
<1>2. ASSUME NEW k \in Nat, k \in S PROVE k + 1 \in S
  <2>1. PICK f : IsTurns(f, snap, status, k)
    BY <1>2
  <2> DEFINE e == [n \in 0..(k + 1) |-> IF n = k + 1 THEN Round(snap, status, f[k]) ELSE f[n]]
             Body(g, n) == IF n = 0 THEN Start(snap, status) ELSE Round(snap, status, g[n - 1])
  <2>2. \A n \in 0..(k + 1) : e[n] = Body(e, n)
    <3> TAKE n \in 0..(k + 1)
    <3>1. CASE n = k + 1
      BY <3>1
    <3>2. CASE n # k + 1
      <4>1. n \in 0..k /\ (n # 0 => n - 1 \in 0..k /\ n - 1 # k + 1)
        BY <3>2
      <4>2. e[n] = f[n] /\ (n # 0 => e[n - 1] = f[n - 1])
        BY <3>2, <4>1
      <4>3. f[n] = Body(f, n)
        BY <2>1, <4>1 DEF IsTurns
      <4> QED
        BY <4>2, <4>3
    <3> QED
      BY <3>1, <3>2
  <2>3. IsTurns(e, snap, status, k + 1)
    BY <2>2 DEF IsTurns
  <2> QED
    BY <2>3
<1>3. Nat \subseteq S
  <2> HIDE DEF S
  <2> QED
    BY <1>1, <1>2, NatInductionSet
<1> QED
  BY <1>3

LEMMA TurnsUnfold ==
    ASSUME NEW snap, NEW status, NEW last \in Nat
    PROVE  \A n \in 0..last : Turns(snap, status, last)[n] =
               IF n = 0 THEN Start(snap, status)
               ELSE Round(snap, status, Turns(snap, status, last)[n - 1])
<1>1. \E f : IsTurns(f, snap, status, last)
  BY TurnsExist
<1>2. Turns(snap, status, last) = CHOOSE f : IsTurns(f, snap, status, last)
  BY DEF Turns, IsTurns
<1>3. IsTurns(Turns(snap, status, last), snap, status, last)
  BY <1>1, <1>2
<1> QED
  BY <1>3 DEF IsTurns

(* After n turns the invariant holds and n cache groups are gone.          *)
LEMMA TurnsInv ==
    ASSUME NEW snap, IsSnapshot(snap), NEW status, tmGroupSet(snap, status) # {},
           NEW last, last = Cardinality(cacheGroupSet(snap))
    PROVE  LET s == Turns(snap, status, last)[last]
           IN  LoopInv(snap, status, s) /\ s.left = {}
<1> DEFINE t == Turns(snap, status, last)
           Good(n) == /\ LoopInv(snap, status, t[n])
                      /\ IsFiniteSet(t[n].left) /\ Cardinality(t[n].left) = last - n
           S == {n \in Nat : n <= last => Good(n)}
<1>0. last \in Nat
  BY GroupSets, FS_CardinalityType
<1>1. 0 \in S
  <2>1. t[0] = Start(snap, status)
    BY <1>0, TurnsUnfold
  <2> QED
    BY <1>0, <2>1, StartInv, GroupSets DEF Start
<1>2. ASSUME NEW n \in Nat, n \in S PROVE n + 1 \in S
  <2> SUFFICES ASSUME n + 1 <= last PROVE Good(n + 1)
    OBVIOUS
  <2>1. Good(n)
    BY <1>0, <1>2
  <2>2. t[n + 1] = Round(snap, status, t[n])
    <3>1. n + 1 \in 0..last /\ n + 1 # 0 /\ (n + 1) - 1 = n
      BY <1>0
    <3> QED
      BY <1>0, <3>1, TurnsUnfold
  <2>3. t[n].left # {}
    BY <1>0, <2>1, FS_EmptySet
  <2>4. PICK c \in t[n].left : t[n + 1].left = t[n].left \ {c}
    BY <2>1, <2>2, <2>3, RoundInv
  <2>5. LoopInv(snap, status, t[n + 1])
    BY <2>1, <2>2, <2>3, RoundInv
  <2>6. IsFiniteSet(t[n + 1].left) /\ Cardinality(t[n + 1].left) = Cardinality(t[n].left) - 1
    BY <2>1, <2>4, FS_RemoveElement
  <2>7. Cardinality(t[n + 1].left) = last - (n + 1)
    BY <1>0, <2>1, <2>6
  <2> QED
    BY <2>5, <2>6, <2>7
<1>3. Nat \subseteq S
  <2> HIDE DEF S
  <2> QED
    BY <1>1, <1>2, NatInductionSet
<1>4. Good(last)
  BY <1>0, <1>3
<1>5. Cardinality(t[last].left) = 0
  BY <1>0, <1>4
<1> QED
  BY <1>4, <1>5, FS_EmptySet

(* The division: every cache group goes to exactly one group of monitors.  *)
LEMMA DivisionIsPartition ==
    ASSUME NEW snap, IsSnapshot(snap), NEW status, tmGroupSet(snap, status) # {}
    PROVE  /\ \A g \in tmGroupSet(snap, status) : \A h \in tmGroupSet(snap, status) \ {g} :
                 Division(snap, status)[g] \cap Division(snap, status)[h] = {}
           /\ \A c \in cacheGroupSet(snap) : \E g \in tmGroupSet(snap, status) :
                 c \in Division(snap, status)[g]
BY TurnsInv DEF Division, LoopInv

-----------------------------------------------------------------------------
(***************************************************************************)
(* With distributed polling, any snapshot divides the CDN as every monitor *)
(* in it sees it: the peers of a monitor poll what it polls, no two groups *)
(* poll the same cache group, and each is polled by the monitor or by a    *)
(* group that it asks, for any number of monitors, groups and caches and   *)
(* whatever the distances (getCacheGroupsToPoll).                          *)
(***************************************************************************)
THEOREM EverySnapshotDivides ==
    ASSUME NEW snap, IsSnapshot(snap), NEW host \in DOMAIN snap.monitors,
           DistributedPolling
    PROVE  Divided(snap, host)
<1> DEFINE this == snap.monitors[host]
           T == tmGroupSet(snap, this.status)
           D == Division(snap, this.status)
           others == distributedPeerSet(snap, host)
           toPoll(h) == getCacheGroupsToPoll(snap, h)
<1>1. this.group \in T /\ others = T \ {this.group}
  BY DEF tmGroupSet, SameStatus, distributedPeerSet
<1>2. /\ \A g \in T : \A h \in T \ {g} : D[g] \cap D[h] = {}
      /\ \A c \in cacheGroupSet(snap) : \E g \in T : c \in D[g]
  BY <1>1, DivisionIsPartition
<1>3. toPoll(host) = D[this.group]
  BY DEF getCacheGroupsToPoll
<1>4. \A g \in T : Speakers(snap, host, g) # {}
  BY DEF tmGroupSet, Speakers
<1>5. \A g : \A h \in Speakers(snap, host, g) : toPoll(h) = D[g]
  BY DEF Speakers, SameStatus, getCacheGroupsToPoll
<1>6. \A p \in peerSet(snap, host) : toPoll(p) = toPoll(host)
  BY DEF peerSet, SameStatus, getCacheGroupsToPoll
<1>7. \A g \in others : \A h \in Speakers(snap, host, g) :
         /\ toPoll(h) \cap toPoll(host) = {}
         /\ \A f \in others \ {g} : \A i \in Speakers(snap, host, f) :
              toPoll(h) \cap toPoll(i) = {}
  BY <1>1, <1>2, <1>3, <1>5
<1>8. \A c \in cacheGroupSet(snap) :
         \/ c \in toPoll(host)
         \/ \E g \in others : /\ Speakers(snap, host, g) # {}
                               /\ \A h \in Speakers(snap, host, g) : c \in toPoll(h)
  BY <1>1, <1>2, <1>3, <1>4, <1>5
<1> QED
  BY <1>6, <1>7, <1>8 DEF Divided

(***************************************************************************)
(* Whatever configuration the monitor holds, the CDN is divided: it never  *)
(* waits for a cache that no group polls (monitorConfigListen).            *)
(***************************************************************************)
THEOREM DisjointSubsetsHolds == Spec => []DisjointSubsets
<1>1. Undivided = {}
  BY EverySnapshotDivides, PartitionAssumption DEF Undivided
<1>2. DisjointSubsets
  BY <1>1 DEF DisjointSubsets
<1> QED
  BY <1>2, PTL
=============================================================================
