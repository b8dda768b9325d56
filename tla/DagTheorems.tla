---------------------------- MODULE DagTheorems ----------------------------
(***************************************************************************)
(* Proofs about Dag, for every dependency map: the order Build computes,   *)
(* what it reports about a map with a cycle, and the waves of a plan.      *)
(***************************************************************************)
EXTENDS Dag, JobGraph_proofs

(* The inductive invariant. *)

Unordered == Nodes \ Ordered

\* What the first i places of the order hold.
Placed(i) == {order[k] : k \in 1..i}

MapInv == /\ Nodes \subseteq Nat /\ IsFiniteSet(Nodes)
          /\ deps \in [Nodes -> Seq(Nodes)]

\* The walk: the order holds each node once, after its needs; the counters
\* count the entries still to be placed, and the queue holds what has none.
WalkInv ==
  /\ order \in Seq(Nodes) /\ Cardinality(Ordered) = Len(order)
  /\ \A i, k \in DOMAIN order : order[i] = order[k] => i = k
  /\ \A i \in DOMAIN order : NeedSet(deps, order[i]) \subseteq Placed(i - 1)
  /\ indeg \in [Nodes -> Int]
  /\ \A n \in Nodes : indeg[n] = Cardinality(Entries(deps, n, Unordered))
  /\ ready = {n \in Unordered : indeg[n] = 0}
  /\ Deterministic

\* What the end of the walk decided.
EndInv ==
  /\ pc \in {"sort", "cycle", "waves", "done"}
  /\ pc # "sort" => ready = {}
  /\ pc = "cycle" => Unordered # {} /\ stuck = Stuck
  /\ pc \in {"waves", "done"} => Unordered = {}

\* No node is in two waves.
Apart == \A v, w \in DOMAIN waves : v # w => waves[v] \cap waves[w] = {}

\* A wave's nodes have all their needs in earlier waves, and one in the last.
RightAfterNeeds ==
  \A w \in DOMAIN waves : \A n \in waves[w] :
    /\ \A m \in NeedSet(deps, n) : \E v \in 1..w-1 : m \in waves[v]
    /\ w > 1 => NeedSet(deps, n) \cap waves[w - 1] # {}

\* The waves: what is left, its counters, and why none of it came earlier.
WavesInv ==
  /\ waves \in Seq(SUBSET Nodes)
  /\ left = Nodes \ UNION {waves[w] : w \in DOMAIN waves}
  /\ Apart /\ RightAfterNeeds
  /\ waves # <<>> => \A n \in left : NeedSet(deps, n) \cap (left \cup waves[Len(waves)]) # {}
  /\ pc \in {"sort", "cycle"} => waves = <<>>
  /\ pc \in {"waves", "done"} =>
       windeg \in [Nodes -> Int] /\ \A n \in Nodes : windeg[n] = Cardinality(Entries(deps, n, left))
  /\ pc = "done" => NextWave = {}

IInv == MapInv /\ WalkInv /\ EndInv /\ WavesInv

\* Build's first counters count every entry, repeated ones included.
LEMMA AllCounted ==
  ASSUME MapInv
  PROVE  /\ Indegree(deps) \in [Nodes -> Int]
         /\ \A n \in Nodes : Indegree(deps)[n] = Cardinality(Entries(deps, n, Nodes))
<1>1. ASSUME NEW n \in Nodes
      PROVE  Len(deps[n]) \in Int /\ Len(deps[n]) = Cardinality(Entries(deps, n, Nodes))
      <2>1. /\ Len(deps[n]) \in Nat /\ Cardinality(DOMAIN deps[n]) = Len(deps[n])
            /\ \A i \in DOMAIN deps[n] : deps[n][i] \in Nodes
            BY NeedsListFinite DEF MapInv
      <2>2. Entries(deps, n, Nodes) = DOMAIN deps[n]
            BY <2>1 DEF Entries
      <2> QED
          BY <2>1, <2>2
<1> QED
    BY <1>1 DEF Indegree, Nodes

\* What Build starts from, for any map.
LEMMA InitIInv == MapInv /\ InitWalk => IInv
<1> SUFFICES ASSUME MapInv, InitWalk PROVE IInv
    OBVIOUS
<1>1. order = <<>> /\ waves = <<>> /\ left = Nodes /\ pc = "sort" /\ indeg = Indegree(deps)
      BY DEF InitWalk
<1>2. Ordered = {} /\ Unordered = Nodes /\ DOMAIN order = {} /\ Len(order) = 0
      BY <1>1 DEF Ordered, Unordered
<1>3. Deterministic
      <2>1. OrderPrefixes(deps)[0] = {}
            BY OrderPrefixesAre DEF MapInv, Nodes
      <2> QED
          BY <1>2, <2>1 DEF Deterministic
<1>4. WalkInv
      <2>1. order \in Seq(Nodes) /\ Cardinality(Ordered) = Len(order)
            BY <1>1, <1>2, FS_EmptySet
      <2>2. ready = {n \in Unordered : indeg[n] = 0}
            BY <1>2 DEF InitWalk
      <2> QED
          BY <1>1, <1>2, <1>3, <2>1, <2>2, AllCounted DEF WalkInv
<1>5. EndInv
      BY <1>1 DEF EndInv
<1>6. WavesInv
      <2>1. waves \in Seq(SUBSET Nodes) /\ DOMAIN waves = {}
            BY <1>1
      <2> QED
          BY <1>1, <2>1 DEF WavesInv, Apart, RightAfterNeeds
<1> QED
    BY <1>4, <1>5, <1>6 DEF IInv

\* What is left to count once c is placed, and what that frees.
LEMMA LoweredCounts ==
  ASSUME MapInv, WalkInv, NEW c \in Unordered, indeg' = Lowered(deps, indeg, c)
  PROVE  /\ indeg' \in [Nodes -> Int]
         /\ \A n \in Nodes : indeg'[n] = Cardinality(Entries(deps, n, Unordered \ {c}))
         /\ \A n \in Nodes : indeg[n] = 0 => indeg'[n] = 0
         /\ Freed(deps, indeg, c) = {n \in Nodes : indeg[n] # 0 /\ indeg'[n] = 0}
<1>1. /\ IsFiniteSet(Nodes) /\ deps \in [Nodes -> Seq(Nodes)] /\ indeg \in [Nodes -> Int]
      /\ \A n \in Nodes : indeg[n] = Cardinality(Entries(deps, n, Unordered))
      BY DEF MapInv, WalkInv
<1>2. ASSUME NEW n \in Nodes
      PROVE  /\ indeg'[n] = indeg[n] - Cardinality(Naming(deps, n, c))
             /\ indeg'[n] = Cardinality(Entries(deps, n, Unordered \ {c}))
             /\ indeg'[n] \in Nat /\ indeg[n] \in Nat /\ Cardinality(Naming(deps, n, c)) \in Nat
             /\ c \in NeedSet(deps, n) <=> Cardinality(Naming(deps, n, c)) # 0
      <2> DEFINE E == Entries(deps, n, Unordered)
                 N == Naming(deps, n, c)
      <2>1. indeg'[n] = indeg[n] - Cardinality(N)
            BY <1>1 DEF Lowered
      <2>2. IsFiniteSet(DOMAIN deps[n])
            BY <1>1, NeedsListFinite
      <2>3. /\ IsFiniteSet(E) /\ N \subseteq E
            /\ Entries(deps, n, Unordered \ {c}) = E \ N
            /\ c \in NeedSet(deps, n) <=> N # {}
            BY <2>2, EntriesSplit
      <2>4. indeg[n] = Cardinality(E)
            BY <1>1
      <2> HIDE DEF E, N
      <2>5. /\ Cardinality(E) \in Nat /\ Cardinality(N) \in Nat
            /\ Cardinality(E \ N) \in Nat
            /\ Cardinality(E \ N) = Cardinality(E) - Cardinality(N)
            /\ Cardinality(N) = 0 <=> N = {}
            BY <2>3, CardinalitySplit
      <2> QED
          BY <2>1, <2>3, <2>4, <2>5 DEF N
<1>3. indeg' = [n \in Nodes |-> indeg[n] - Cardinality(Naming(deps, n, c))]
      BY <1>1 DEF Lowered
<1>4. indeg' \in [Nodes -> Int]
      BY <1>2, <1>3
<1>5. Freed(deps, indeg, c) = {n \in Nodes : c \in NeedSet(deps, n) /\ indeg'[n] = 0}
      BY <1>1 DEF Freed
<1>6. \A n \in Nodes : /\ indeg[n] = 0 => indeg'[n] = 0
                       /\ indeg'[n] = 0 => (c \in NeedSet(deps, n) <=> indeg[n] # 0)
      BY <1>2
<1> QED
    BY <1>2, <1>4, <1>5, <1>6

\* Placing the smallest free node: the counters of its dependents fall, and the
\* order is extended by one place of the reference.
LEMMA VisitKeeps == ASSUME IInv, Visit PROVE IInv'
<1> DEFINE node == Smallest(ready)
<1>1. /\ MapInv /\ WalkInv /\ EndInv /\ WavesInv
      BY DEF IInv
<1>2. /\ pc = "sort" /\ ready # {} /\ order' = Append(order, node)
      /\ indeg' = Lowered(deps, indeg, node)
      /\ ready' = (ready \ {node}) \cup Freed(deps, indeg, node)
      /\ UNCHANGED <<deps, stuck, waves, windeg, left, pc>>
      BY DEF Visit
<1>3. MapInv' /\ Nodes' = Nodes
      BY <1>1, <1>2 DEF MapInv, Nodes
<1>4. node \in ready /\ node \in Unordered /\ node \in Nodes /\ indeg[node] = 0
      <2>1. ready \in SUBSET Nat
            BY <1>1 DEF MapInv, WalkInv, Unordered
      <2>2. node \in ready
            BY <1>2, <2>1, SmallestIsLeast
      <2> QED
          BY <1>1, <2>2 DEF WalkInv, Unordered
<1> HIDE DEF node
<1>5. /\ order \in Seq(Nodes) /\ Len(order) \in Nat /\ DOMAIN order = 1..Len(order)
      /\ order' \in Seq(Nodes) /\ Len(order') = Len(order) + 1
      /\ DOMAIN order' = 1..Len(order) + 1
      /\ order'[Len(order) + 1] = node
      /\ \A i \in 1..Len(order) : order'[i] = order[i]
      BY <1>1, <1>2, <1>4 DEF WalkInv
<1>6. Ordered' = Ordered \cup {node} /\ Unordered' = Unordered \ {node} /\ Ordered \subseteq Nodes
      BY <1>3, <1>5 DEF Ordered, Unordered
<1>7. /\ IsFiniteSet(Ordered) /\ Cardinality(Ordered') = Len(order) + 1
      /\ Cardinality(Ordered) < Cardinality(Nodes)
      <2>1. IsFiniteSet(Nodes) /\ IsFiniteSet(Ordered) /\ node \notin Ordered
            BY <1>1, <1>4, <1>6, FS_Subset DEF MapInv, Unordered
      <2>2. Cardinality(Ordered') = Cardinality(Ordered) + 1
            BY <1>6, <2>1, FS_AddElement
      <2>3. /\ Cardinality(Ordered) <= Cardinality(Nodes) /\ Cardinality(Ordered) # Cardinality(Nodes)
            BY <1>4, <1>6, <2>1, FS_Subset
      <2>4. Cardinality(Ordered) \in Nat /\ Cardinality(Nodes) \in Nat
            BY <2>1, FS_CardinalityType
      <2> QED
          BY <1>1, <2>1, <2>2, <2>3, <2>4 DEF WalkInv
<1>8. /\ \A i \in 0..Len(order) : Placed(i)' = Placed(i)
      /\ Placed(Len(order)) = Ordered
      BY <1>5 DEF Placed, Ordered
<1>9. \A n \in Nodes : indeg[n] = 0 <=> NeedSet(deps, n) \subseteq Ordered
      <2>1. \A n \in Nodes : NeedSet(deps, n) \subseteq Nodes
            BY <1>1, NeedsListFinite DEF MapInv, NeedSet
      <2>2. \A n \in Nodes : indeg[n] = Cardinality(Entries(deps, n, Unordered))
            BY <1>1 DEF WalkInv
      <2>3. deps \in [Nodes -> Seq(Nodes)]
            BY <1>1 DEF MapInv
      <2>4. \A n \in Nodes : Cardinality(Entries(deps, n, Unordered)) = 0
                               <=> \A m \in NeedSet(deps, n) : m \notin Unordered
            BY <2>3, NoneLeft
      <2> QED
          BY <2>1, <2>2, <2>4 DEF Unordered
<1>10. Deterministic'
       <2>1. FreeAfter(deps, Ordered) = ready
             BY <1>1, <1>9 DEF FreeAfter, WalkInv, Unordered, Nodes
       <2>2. Take(deps, Ordered) = Ordered \cup {node}
             BY <2>1 DEF Take, Smallest, node
       <2>3. \A i \in 0..Len(order) : Placed(i) = OrderPrefixes(deps)[i]
             BY <1>1 DEF WalkInv, Deterministic, Placed
       <2>4. Len(order) + 1 \in 1..Cardinality(DOMAIN deps)
             <3>1. Cardinality(Nodes) \in Nat /\ Len(order) < Cardinality(Nodes)
                   BY <1>1, <1>7, FS_CardinalityType DEF MapInv, WalkInv
             <3> QED
                 BY <1>5, <3>1 DEF Nodes
       <2>5. OrderPrefixes(deps)[Len(order) + 1] = Take(deps, OrderPrefixes(deps)[Len(order)])
             <3>1. IsFiniteSet(DOMAIN deps)
                   BY <1>1 DEF MapInv, Nodes
             <3>2. (Len(order) + 1) - 1 = Len(order)
                   BY <1>5
             <3> QED
                 BY <2>4, <3>1, <3>2, OrderPrefixesAre
       <2>6. OrderPrefixes(deps)[Len(order) + 1] = Ordered'
             BY <1>5, <1>6, <1>8, <2>2, <2>3, <2>5
       <2>7. {order'[k] : k \in 1..Len(order) + 1} = Ordered'
             BY <1>5 DEF Ordered
       <2>8. ASSUME NEW i \in 0..Len(order')
             PROVE  {order'[k] : k \in 1..i} = OrderPrefixes(deps)[i]
             <3>1. CASE i = Len(order) + 1
                   BY <2>6, <2>7, <3>1
             <3>2. CASE i # Len(order) + 1
                   <4>1. i \in 0..Len(order)
                         BY <1>5, <3>2
                   <4> QED
                       BY <1>8, <2>3, <4>1 DEF Placed
             <3> QED
                 BY <3>1, <3>2
       <2> QED
           BY <1>2, <2>8 DEF Deterministic
<1>11. /\ indeg' \in [Nodes -> Int]
       /\ \A n \in Nodes : indeg'[n] = Cardinality(Entries(deps, n, Unordered \ {node}))
       /\ \A n \in Nodes : indeg[n] = 0 => indeg'[n] = 0
       /\ Freed(deps, indeg, node) = {n \in Nodes : indeg[n] # 0 /\ indeg'[n] = 0}
       BY <1>1, <1>2, <1>4, <1>6, LoweredCounts
<1>12. ready' = {n \in Unordered' : indeg'[n] = 0}
       <2>1. ready = {n \in Unordered : indeg[n] = 0}
             BY <1>1 DEF WalkInv
       <2>2. \A n \in Ordered : indeg[n] = 0
             <3>1. \A i \in DOMAIN order : NeedSet(deps, order[i]) \subseteq Ordered
                   <4>1. \A i \in DOMAIN order : Placed(i - 1) \subseteq Ordered
                         BY <1>5 DEF Placed, Ordered
                   <4> QED
                       BY <1>1, <4>1 DEF WalkInv
             <3> QED
                 BY <1>6, <1>9, <3>1 DEF Ordered
       <2> QED
           BY <1>2, <1>4, <1>6, <1>11, <2>1, <2>2 DEF Unordered
<1>13. \A i \in DOMAIN order' : NeedSet(deps, order'[i]) \subseteq Placed(i - 1)'
       <2>1. NeedSet(deps, node) \subseteq Ordered
             BY <1>4, <1>9
       <2>2. \A i \in DOMAIN order : NeedSet(deps, order[i]) \subseteq Placed(i - 1)
             BY <1>1 DEF WalkInv
       <2> QED
           BY <1>5, <1>8, <2>1, <2>2
<1>14. \A i, k \in DOMAIN order' : order'[i] = order'[k] => i = k
       <2>1. \A i, k \in 1..Len(order) : order[i] = order[k] => i = k
             BY <1>1, <1>5 DEF WalkInv
       <2>2. \A i \in 1..Len(order) : order[i] # node
             BY <1>4, <1>5 DEF Unordered, Ordered
       <2>3. ASSUME NEW i \in DOMAIN order', NEW k \in DOMAIN order', order'[i] = order'[k]
             PROVE  i = k
             <3>1. i \in 1..Len(order) \/ i = Len(order) + 1
                   BY <1>5
             <3>2. k \in 1..Len(order) \/ k = Len(order) + 1
                   BY <1>5
             <3> QED
                 BY <1>5, <2>1, <2>2, <2>3, <3>1, <3>2
       <2> QED
           BY <2>3
<1>15. WalkInv'
       BY <1>2, <1>3, <1>5, <1>6, <1>7, <1>10, <1>11, <1>12, <1>13, <1>14 DEF WalkInv
<1>16. EndInv'
       BY <1>1, <1>2 DEF EndInv
<1>17. WavesInv'
       BY <1>1, <1>2, <1>3 DEF WavesInv, Apart, RightAfterNeeds
<1> QED
    BY <1>3, <1>15, <1>16, <1>17 DEF IInv

\* What the loops leave alone.
LEMMA WalkFrame ==
  ASSUME MapInv, WalkInv, UNCHANGED <<deps, indeg, ready, order>>
  PROVE  /\ MapInv' /\ WalkInv'
         /\ Nodes' = Nodes /\ Ordered' = Ordered /\ Unordered' = Unordered
<1>1. Nodes' = Nodes /\ Ordered' = Ordered /\ Unordered' = Unordered
      BY DEF Nodes, Ordered, Unordered
<1>2. \A i : Placed(i)' = Placed(i)
      BY DEF Placed
<1>3. Deterministic'
      BY DEF WalkInv, Deterministic
<1> QED
    BY <1>1, <1>2, <1>3 DEF MapInv, WalkInv

\* A step that leaves the waves alone.
LEMMA WavesFrame ==
  ASSUME WavesInv, UNCHANGED <<deps, waves, left, windeg>>, Nodes' = Nodes,
         pc' = pc \/ (pc' = "done" /\ pc = "waves" /\ NextWave = {})
  PROVE  WavesInv'
<1>1. Apart' /\ RightAfterNeeds' /\ NextWave' = NextWave
      BY DEF WavesInv, Apart, RightAfterNeeds, NextWave
<1> QED
    BY <1>1 DEF WavesInv

\* The end of the walk: everything is placed, or something has needs left.
LEMMA EndWalkKeeps == ASSUME IInv, EndWalk PROVE IInv'
<1>1. MapInv /\ WalkInv /\ EndInv /\ WavesInv
      BY DEF IInv
<1>2. /\ pc = "sort" /\ ready = {} /\ UNCHANGED <<deps, indeg, ready, order, waves, left>>
      /\ Nodes' = Nodes /\ Ordered' = Ordered /\ Unordered' = Unordered
      BY DEF EndWalk, Nodes, Ordered, Unordered
<1>3. /\ Ordered \subseteq Nodes /\ IsFiniteSet(Ordered) /\ Len(order) = Cardinality(Ordered)
      /\ IsFiniteSet(Nodes) /\ Cardinality(Ordered) \in Nat /\ Cardinality(Nodes) \in Nat
      <2>1. Ordered \subseteq Nodes
            BY <1>1 DEF WalkInv, Ordered
      <2> QED
          BY <1>1, <2>1, FS_Subset, FS_CardinalityType DEF MapInv, WalkInv
<1>4. Incomplete <=> Unordered # {}
      <2>1. Cardinality(Ordered) <= Cardinality(Nodes)
            BY <1>3, FS_Subset
      <2>2. Cardinality(Ordered) = Cardinality(Nodes) => Ordered = Nodes
            BY <1>3, FS_Subset
      <2>3. Ordered = Nodes <=> Unordered = {}
            BY <1>3 DEF Unordered
      <2>4. Incomplete <=> Cardinality(Ordered) < Cardinality(Nodes)
            BY <1>3 DEF Incomplete
      <2> QED
          BY <1>3, <2>1, <2>2, <2>3, <2>4
<1>5. MapInv' /\ WalkInv'
      BY <1>1, <1>2, WalkFrame
<1>7. \/ Unordered # {} /\ pc' = "cycle" /\ stuck' = Stuck /\ UNCHANGED windeg
      \/ Unordered = {} /\ pc' = "waves" /\ windeg' = Indegree(deps) /\ UNCHANGED stuck
      BY <1>4 DEF EndWalk, InitialIndegree
<1>8. Stuck' = Stuck
      BY <1>2 DEF Stuck
<1>9. EndInv'
      BY <1>2, <1>7, <1>8 DEF EndInv
<1>10. waves = <<>> /\ left = Nodes
       <2>1. waves = <<>>
             BY <1>1, <1>2 DEF WavesInv
       <2>2. UNION {waves[w] : w \in DOMAIN waves} = {}
             BY <2>1
       <2> QED
           BY <1>1, <2>1, <2>2 DEF WavesInv
<1>11. WavesInv'
       <2>1. pc' # "done" /\ (pc' = "waves" => windeg' = Indegree(deps)) /\ pc' \in {"waves", "cycle"}
             BY <1>7
       <2>2. /\ waves' \in Seq(SUBSET Nodes) /\ Apart' /\ RightAfterNeeds'
             /\ left' = Nodes \ UNION {waves'[w] : w \in DOMAIN waves'}
             BY <1>1, <1>2 DEF WavesInv, Apart, RightAfterNeeds
       <2> QED
           BY <1>1, <1>2, <1>10, <2>1, <2>2, AllCounted DEF WavesInv
<1> QED
    BY <1>5, <1>9, <1>11 DEF IInv

\* A wave takes what has no need left.
LEMMA WaveKeeps == ASSUME IInv, Wave PROVE IInv'
<1> DEFINE L == Len(waves)
<1>1. MapInv /\ WalkInv /\ EndInv /\ WavesInv
      BY DEF IInv
<1>2. /\ pc = "waves" /\ pc' = "waves" /\ waves' = Append(waves, NextWave) /\ left' = left \ NextWave
      /\ windeg' = [n \in Nodes |-> windeg[n] - Cardinality(Entries(deps, n, NextWave))]
      /\ UNCHANGED <<deps, indeg, ready, order, stuck>>
      /\ Nodes' = Nodes /\ Ordered' = Ordered /\ Unordered' = Unordered
      BY DEF Wave, Nodes, Ordered, Unordered
<1>3. MapInv' /\ WalkInv'
      BY <1>1, <1>2, WalkFrame
<1>5. EndInv'
      BY <1>1, <1>2 DEF EndInv
<1>6. /\ waves \in Seq(SUBSET Nodes) /\ left \subseteq Nodes /\ NextWave \subseteq left
      /\ left = Nodes \ UNION {waves[w] : w \in DOMAIN waves}
      /\ windeg \in [Nodes -> Int]
      /\ \A n \in Nodes : windeg[n] = Cardinality(Entries(deps, n, left))
      BY <1>1, <1>2 DEF WavesInv, NextWave
<1>7. /\ L \in Nat /\ DOMAIN waves = 1..L /\ waves' \in Seq(SUBSET Nodes) /\ DOMAIN waves' = 1..L + 1
      /\ Len(waves') = L + 1 /\ waves'[L + 1] = NextWave
      /\ \A w \in 1..L : waves'[w] = waves[w]
      BY <1>2, <1>6
<1>8. \A n \in Nodes : /\ NeedSet(deps, n) \subseteq Nodes
                       /\ windeg[n] = 0 <=> \A m \in NeedSet(deps, n) : m \notin left
      <2>1. deps \in [Nodes -> Seq(Nodes)]
            BY <1>1 DEF MapInv
      <2>2. \A n \in Nodes : NeedSet(deps, n) \subseteq Nodes
            BY <2>1, NeedsListFinite DEF NeedSet
      <2>3. ASSUME NEW n \in Nodes
            PROVE  windeg[n] = 0 <=> \A m \in NeedSet(deps, n) : m \notin left
            <3>1. windeg[n] = Cardinality(Entries(deps, n, left))
                  BY <1>6
            <3> QED
                BY <2>1, <3>1, NoneLeft
      <2> QED
          BY <2>2, <2>3
<1>9. left' = Nodes \ UNION {waves'[w] : w \in DOMAIN waves'}
      <2>1. UNION {waves'[w] : w \in DOMAIN waves'} = (UNION {waves[w] : w \in DOMAIN waves}) \cup NextWave
            BY <1>7
      <2> QED
          BY <1>2, <1>6, <2>1
<1>10. \A w \in 1..L : waves[w] \cap left = {} /\ waves[w] \subseteq Nodes
       BY <1>6, <1>7, SMTT(30)
<1>11. Apart'
       <2>1. \A v, w \in 1..L : v # w => waves[v] \cap waves[w] = {}
             BY <1>1, <1>7 DEF WavesInv, Apart
       <2>2. ASSUME NEW v \in 1..L + 1, NEW w \in 1..L + 1, v # w
             PROVE  waves'[v] \cap waves'[w] = {}
             <3>1. CASE v = L + 1
                   BY <1>6, <1>7, <1>10, <2>2, <3>1
             <3>2. CASE w = L + 1
                   BY <1>6, <1>7, <1>10, <2>2, <3>2
             <3>3. CASE v # L + 1 /\ w # L + 1
                   <4>1. v \in 1..L /\ w \in 1..L
                         BY <1>7, <3>3
                   <4> QED
                       BY <1>7, <2>1, <2>2, <4>1
             <3> QED
                 BY <3>1, <3>2, <3>3
       <2> QED
           BY <1>7, <2>2 DEF Apart
<1>12. RightAfterNeeds'
       <2>1. ASSUME NEW w \in 1..L + 1, NEW n \in waves'[w]
             PROVE  /\ \A m \in NeedSet(deps, n) : \E v \in 1..w-1 : m \in waves'[v]
                    /\ w > 1 => NeedSet(deps, n) \cap waves'[w - 1] # {}
             <3>1. CASE w = L + 1
                   <4>1. n \in left /\ n \in Nodes /\ windeg[n] = 0
                         BY <1>6, <1>7, <2>1, <3>1 DEF NextWave
                   <4>2. \A m \in NeedSet(deps, n) : m \in Nodes \ left
                         BY <1>8, <4>1
                   <4>3. \A m \in NeedSet(deps, n) : \E v \in 1..L : m \in waves[v]
                         BY <1>6, <1>7, <4>2
                   <4>4. w > 1 => NeedSet(deps, n) \cap waves[L] # {}
                         <5> SUFFICES ASSUME w > 1 PROVE NeedSet(deps, n) \cap waves[L] # {}
                             OBVIOUS
                         <5>1. waves # <<>>
                               BY <1>7, <3>1
                         <5>2. NeedSet(deps, n) \cap (left \cup waves[L]) # {}
                               BY <1>1, <4>1, <5>1 DEF WavesInv
                         <5> QED
                             BY <4>2, <5>2
                   <4>5. w - 1 = L /\ (w > 1 => L \in 1..L)
                         BY <1>7, <3>1
                   <4> QED
                       BY <1>7, <4>3, <4>4, <4>5
             <3>2. CASE w # L + 1
                   <4>1. w \in 1..L /\ 1..w-1 \subseteq 1..L /\ (w > 1 => w - 1 \in 1..L)
                         BY <1>7, <3>2
                   <4>2. n \in waves[w]
                         BY <1>7, <2>1, <4>1
                   <4>3. /\ \A m \in NeedSet(deps, n) : \E v \in 1..w-1 : m \in waves[v]
                         /\ w > 1 => NeedSet(deps, n) \cap waves[w - 1] # {}
                         BY <1>1, <1>7, <4>1, <4>2 DEF WavesInv, RightAfterNeeds
                   <4> QED
                       BY <1>7, <4>1, <4>3
             <3> QED
                 BY <3>1, <3>2
       <2> QED
           BY <1>2, <1>7, <2>1 DEF RightAfterNeeds
<1>13. \A n \in left' : NeedSet(deps, n) \cap (left' \cup waves'[Len(waves')]) # {}
       <2> SUFFICES ASSUME NEW n \in left' PROVE NeedSet(deps, n) \cap (left' \cup waves'[Len(waves')]) # {}
           OBVIOUS
       <2>1. n \in Nodes /\ windeg[n] # 0
             BY <1>2, <1>6 DEF NextWave
       <2>2. left' \cup waves'[Len(waves')] = left
             BY <1>2, <1>6, <1>7
       <2> QED
           BY <1>8, <2>1, <2>2
<1>14. ASSUME NEW n \in Nodes
       PROVE  windeg'[n] \in Int /\ windeg'[n] = Cardinality(Entries(deps, n, left'))
       <2> DEFINE E == Entries(deps, n, left)
                  N == Entries(deps, n, NextWave)
       <2>1. IsFiniteSet(DOMAIN deps[n])
             BY <1>1, NeedsListFinite DEF MapInv
       <2>2. IsFiniteSet(E) /\ N \subseteq E /\ Entries(deps, n, left') = E \ N
             <3>1. E \subseteq DOMAIN deps[n] /\ N \subseteq E /\ Entries(deps, n, left') = E \ N
                   BY <1>2, <1>6 DEF Entries
             <3> QED
                 BY <2>1, <3>1, FS_Subset
       <2>3. windeg'[n] = windeg[n] - Cardinality(N) /\ windeg[n] = Cardinality(E)
             BY <1>2, <1>6
       <2> HIDE DEF E, N
       <2>4. /\ Cardinality(E) \in Nat /\ Cardinality(N) \in Nat
             /\ Cardinality(E \ N) = Cardinality(E) - Cardinality(N)
             BY <2>2, CardinalitySplit
       <2> QED
           BY <2>2, <2>3, <2>4
<1>15. windeg' \in [Nodes -> Int]
       BY <1>2, <1>14
<1>16. WavesInv'
       BY <1>2, <1>7, <1>9, <1>11, <1>12, <1>13, <1>14, <1>15 DEF WavesInv
<1> QED
    BY <1>3, <1>5, <1>16 DEF IInv

\* The end of the waves.
LEMMA EndWavesKeeps == ASSUME IInv, EndWaves PROVE IInv'
<1>1. MapInv /\ WalkInv /\ EndInv /\ WavesInv
      BY DEF IInv
<1>2. /\ pc = "waves" /\ NextWave = {} /\ pc' = "done"
      /\ UNCHANGED <<deps, indeg, ready, order, stuck, waves, windeg, left>>
      BY DEF EndWaves
<1>3. MapInv' /\ WalkInv' /\ Nodes' = Nodes /\ Unordered' = Unordered
      BY <1>1, <1>2, WalkFrame
<1>4. EndInv'
      BY <1>1, <1>2, <1>3 DEF EndInv
<1>5. WavesInv'
      BY <1>1, <1>2, <1>3, WavesFrame
<1> QED
    BY <1>3, <1>4, <1>5 DEF IInv

\* Every step.
LEMMA NextIInv == IInv /\ [Next]_vars => IInv'
<1> SUFFICES ASSUME IInv, [Next]_vars PROVE IInv'
    OBVIOUS
<1>1. CASE UNCHANGED vars
      <2>1. UNCHANGED <<deps, indeg, ready, order, stuck, waves, windeg, left, pc>>
            BY <1>1 DEF vars
      <2>2. MapInv' /\ WalkInv' /\ Nodes' = Nodes /\ Unordered' = Unordered
            BY <2>1, WalkFrame DEF IInv
      <2>3. Stuck' = Stuck
            BY <2>1, <2>2 DEF Stuck
      <2>4. EndInv'
            BY <2>1, <2>2, <2>3 DEF IInv, EndInv
      <2>5. WavesInv'
            <3>1. WavesInv
                  BY DEF IInv
            <3>2. UNCHANGED <<deps, waves, left, windeg, pc>> /\ Nodes' = Nodes
                  BY <2>1, <2>2
            <3>3. pc' = pc
                  BY <2>1
            <3>4. Apart' /\ RightAfterNeeds' /\ NextWave' = NextWave
                  BY <3>1, <3>2 DEF WavesInv, Apart, RightAfterNeeds, NextWave
            <3> QED
                BY <3>1, <3>2, <3>3, <3>4 DEF WavesInv
      <2> QED
          BY <2>2, <2>4, <2>5 DEF IInv
<1> QED
    BY <1>1, VisitKeeps, EndWalkKeeps, WaveKeeps, EndWavesKeeps DEF Next

\* The invariant holds throughout.
LEMMA Inductive == Spec => []IInv
<1>1. Init => IInv
      <2> SUFFICES ASSUME Init PROVE IInv
          OBVIOUS
      <2>1. MapInv
            BY DepsAssumption DEF Init, MapInv, Nodes
      <2> QED
          BY <2>1, InitIInv DEF Init
<1> QED
    BY <1>1, NextIInv, PTL DEF Spec

\* Whatever is in the order can be ranked by its place in it.
LEMMA OrderRanks ==
  ASSUME IInv
  PROVE  \E rank \in [Ordered -> 1..Cardinality(Ordered)] :
           \A r \in Ordered : \A n \in NeedSet(deps, r) : n \in Ordered /\ rank[n] < rank[r]
<1> DEFINE Place(n) == CHOOSE i \in DOMAIN order : order[i] = n
           rank == [n \in Ordered |-> Place(n)]
<1>1. /\ order \in Seq(Nodes) /\ Cardinality(Ordered) = Len(order)
      /\ \A i, k \in DOMAIN order : order[i] = order[k] => i = k
      /\ \A i \in DOMAIN order : NeedSet(deps, order[i]) \subseteq Placed(i - 1)
      BY DEF IInv, WalkInv
<1>2. DOMAIN order = 1..Len(order) /\ Len(order) \in Nat
      BY <1>1
<1>3. \A n \in Ordered : Place(n) \in DOMAIN order /\ order[Place(n)] = n
      BY DEF Ordered
<1>4. rank \in [Ordered -> 1..Cardinality(Ordered)]
      BY <1>1, <1>2, <1>3
<1>5. ASSUME NEW r \in Ordered, NEW n \in NeedSet(deps, r)
      PROVE  n \in Ordered /\ Place(n) < Place(r)
      <2>1. Place(r) \in 1..Len(order) /\ order[Place(r)] = r
            BY <1>2, <1>3
      <2>2. n \in Placed(Place(r) - 1)
            BY <1>1, <1>2, <1>5, <2>1
      <2>3. PICK k \in 1..Place(r) - 1 : n = order[k]
            BY <2>2 DEF Placed
      <2>4. k \in DOMAIN order /\ k < Place(r)
            BY <1>2, <2>1, <2>3
      <2>5. n \in Ordered
            BY <2>3, <2>4 DEF Ordered
      <2>6. Place(n) = k
            BY <1>1, <1>3, <2>3, <2>4, <2>5
      <2> QED
          BY <2>4, <2>5, <2>6
<1> HIDE DEF Place
<1>6. \A r \in Ordered : \A n \in NeedSet(deps, r) : n \in Ordered /\ rank[n] < rank[r]
      BY <1>5
<1> QED
    BY <1>4, <1>6

\* At each place of Build's order is the smallest node whose needs are placed:
\* the order is a function of the map, although Build keeps counters and a
\* queue (dag.go), for every map.
THEOREM OrderIsDetermined == Spec => []Deterministic
<1>1. IInv => Deterministic
      BY DEF IInv, WalkInv
<1> QED
    BY <1>1, Inductive, PTL

\* What is placed is ranked by its place, and what is not has a need that is not.
LEMMA ReportsCycles == IInv => CyclesReported
<1> SUFFICES ASSUME IInv
             PROVE  /\ pc \in {"waves", "done"} => Acyclic(deps) /\ Ordered = Nodes
                    /\ pc = "cycle" =>
                         /\ ~Acyclic(deps)
                         /\ stuck = {n \in Nodes : n \in OnCycle \/ Upstream(deps, n) \cap OnCycle # {}}
    BY DEF CyclesReported
<1>1. /\ deps \in [Nodes -> Seq(Nodes)] /\ IsFiniteSet(Nodes) /\ DOMAIN deps = Nodes
      /\ Ordered \subseteq Nodes
      BY DEF IInv, MapInv, WalkInv, Nodes, Ordered
<1>2. PICK rank \in [Ordered -> 1..Cardinality(Ordered)] :
        \A r \in Ordered : \A n \in NeedSet(deps, r) : n \in Ordered /\ rank[n] < rank[r]
      BY OrderRanks
<1>3. IsFiniteSet(Ordered) /\ Cardinality(Ordered) \in Nat
      BY <1>1, FS_Subset, FS_CardinalityType
<1>4. CASE pc \in {"waves", "done"}
      <2>1. Ordered = Nodes
            BY <1>1, <1>4 DEF IInv, EndInv, Unordered
      <2>2. Acyclic(deps)
            <3>1. rank \in [Nodes -> 0..Cardinality(Nodes)]
                  BY <1>3, <2>1
            <3> QED
                BY <1>1, <1>2, <2>1, <3>1 DEF Acyclic
      <2> QED
          BY <1>4, <2>1, <2>2
<1>5. CASE pc = "cycle"
      <2>1. /\ Unordered # {} /\ ready = {} /\ stuck = Stuck /\ Unordered \subseteq Nodes
            /\ indeg \in [Nodes -> Int]
            /\ \A n \in Nodes : indeg[n] = Cardinality(Entries(deps, n, Unordered))
            /\ ready = {n \in Unordered : indeg[n] = 0}
            BY <1>5 DEF IInv, EndInv, WalkInv, Unordered
      <2>10. ASSUME NEW n \in Nodes
             PROVE  /\ indeg[n] \in Nat
                    /\ indeg[n] = 0 <=> \A m \in NeedSet(deps, n) : m \notin Unordered
             <3>1. indeg[n] = Cardinality(Entries(deps, n, Unordered))
                   BY <2>1
             <3>2. deps \in [Nodes -> Seq(Nodes)]
                   BY <1>1
             <3> QED
                 BY <3>1, <3>2, NoneLeft
      <2>2. \A u \in Unordered : \E n \in NeedSet(deps, u) : n \in Unordered
            <3> SUFFICES ASSUME NEW u \in Unordered PROVE \E n \in NeedSet(deps, u) : n \in Unordered
                OBVIOUS
            <3>1. indeg[u] # 0 /\ u \in Nodes
                  BY <2>1
            <3> QED
                BY <2>10, <3>1
      <2>3. ~Acyclic(deps)
            <3> SUFFICES ASSUME Acyclic(deps) PROVE FALSE
                OBVIOUS
            <3>0. IsFiniteSet(Nodes)
                  BY <1>1
            <3>1. deps \in [Nodes -> Seq(Nodes)]
                  BY <1>1
            <3>2. Unordered \subseteq Nodes /\ Unordered # {}
                  BY <2>1
            <3>3. PICK u \in Unordered : \A n \in NeedSet(deps, u) : n \notin Unordered
                  BY <3>0, <3>1, <3>2, LeastRanked
            <3> QED
                BY <2>2, <3>3
      <2>4. \A r \in Ordered : Upstream(deps, r) \subseteq Ordered /\ r \notin Upstream(deps, r)
            <3>1. rank \in [Ordered -> Nat]
                  BY <1>3
            <3> QED
                BY <1>1, <1>2, <3>1, RankedUpstream
      <2>5. stuck = Unordered
            <3>1. ASSUME NEW n \in Nodes
                  PROVE  indeg[n] > 0 <=> n \in Unordered
                  <4>1. CASE n \in Unordered
                        <5>1. indeg[n] # 0 /\ indeg[n] \in Nat
                              BY <2>1, <2>10, <4>1
                        <5> QED
                            BY <4>1, <5>1
                  <4>2. CASE n \notin Unordered
                        <5>1. n \in Ordered
                              BY <3>1, <4>2 DEF Unordered
                        <5>2. \A m \in NeedSet(deps, n) : m \notin Unordered
                              BY <1>2, <5>1 DEF Unordered
                        <5>3. indeg[n] = 0
                              BY <2>10, <5>2
                        <5> QED
                            BY <4>2, <5>3
                  <4> QED
                      BY <4>1, <4>2
            <3> QED
                BY <2>1, <3>1 DEF Stuck
      <2>6. \A n \in Unordered : n \in OnCycle \/ Upstream(deps, n) \cap OnCycle # {}
            <3> SUFFICES ASSUME NEW n \in Unordered
                         PROVE  n \in OnCycle \/ Upstream(deps, n) \cap OnCycle # {}
                OBVIOUS
            <3>1. PICK m \in {n} \cup Upstream(deps, n) : m \in Upstream(deps, m)
                  BY <1>1, <2>1, <2>2, CycleUpstream
            <3>2. m \in Nodes
                  BY <1>1, <2>1, UpstreamClosed
            <3> QED
                BY <3>1, <3>2 DEF OnCycle
      <2>7. \A n \in Ordered : n \notin OnCycle /\ Upstream(deps, n) \cap OnCycle = {}
            BY <2>4 DEF OnCycle
      <2>8. stuck = {n \in Nodes : n \in OnCycle \/ Upstream(deps, n) \cap OnCycle # {}}
            BY <1>1, <2>5, <2>6, <2>7 DEF Unordered
      <2> QED
          BY <1>5, <2>3, <2>8
<1> QED
    BY <1>4, <1>5

\* Build succeeds exactly on the maps without a cycle, and what it reports
\* otherwise is exactly what is on a cycle or depends on one (CycleError.Nodes).
THEOREM CyclesAreReported == Spec => []CyclesReported
BY Inductive, ReportsCycles, PTL

\* Of what a wave leaves something is free, as the map has no cycle.
LEMMA PlansWaves == IInv => WavesExact
<1> SUFFICES ASSUME IInv, pc = "done"
             PROVE  /\ left = {}
                    /\ \A w \in DOMAIN waves : \A n \in waves[w] :
                         /\ \A v \in DOMAIN waves : n \in waves[v] => v = w
                         /\ \A m \in NeedSet(deps, n) : \E v \in 1..w-1 : m \in waves[v]
                         /\ w > 1 => NeedSet(deps, n) \cap waves[w - 1] # {}
    BY DEF WavesExact
<1>1. Apart /\ RightAfterNeeds
      BY DEF IInv, WavesInv
<1>2. left = {}
      <2> SUFFICES ASSUME left # {} PROVE FALSE
          OBVIOUS
      <2>1. /\ deps \in [Nodes -> Seq(Nodes)] /\ IsFiniteSet(Nodes) /\ left \subseteq Nodes
            /\ Acyclic(deps) /\ NextWave = {}
            /\ \A n \in Nodes : windeg[n] = Cardinality(Entries(deps, n, left))
            BY ReportsCycles DEF IInv, MapInv, WavesInv, CyclesReported
      <2>2. PICK u \in left : \A n \in NeedSet(deps, u) : n \notin left
            BY <2>1, LeastRanked
      <2>3. windeg[u] = 0
            BY <2>1, <2>2, NoneLeft, SMTT(30)
      <2> QED
          BY <2>1, <2>3 DEF NextWave
<1> QED
    BY <1>1, <1>2 DEF Apart, RightAfterNeeds

\* Waves returns every node in one wave, right behind its latest need.
THEOREM WavesAreEarliest == Spec => []WavesExact
BY Inductive, PlansWaves, PTL
=============================================================================
