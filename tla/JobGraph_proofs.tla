-------------------------- MODULE JobGraph_proofs --------------------------
(***************************************************************************)
(* Facts about the dependency-map operators that the proofs of Dag and     *)
(* Scheduler share.                                                        *)
(***************************************************************************)
EXTENDS JobGraph, FiniteSetTheorems, WellFoundedInduction, TLAPS

\* A non-empty set of naturals has a least element.
LEMMA NatMinimum ==
  ASSUME NEW T \in SUBSET Nat, T # {}
  PROVE  \E x \in T : \A y \in T : x <= y
<1> DEFINE R == OpToRel(<, Nat)
<1>1. IsWellFoundedOn(R, Nat)
  BY NatLessThanWellFounded
<1>2. \A x, y \in Nat : x < y => <<x, y>> \in R
  BY DEF OpToRel
<1> HIDE DEF R
<1>3. PICK x \in T : \A y \in T : ~ (<<y, x>> \in R)
  BY <1>1, WFMin
<1>4. ASSUME NEW y \in T PROVE x <= y
  <2>1. x \in Nat /\ y \in Nat
    OBVIOUS
  <2>2. ~ (y < x)
    BY <1>2, <1>3, <2>1
  <2> QED
    BY <2>1, <2>2
<1> QED
  BY <1>4

\* Smallest picks a member of the set, and none is smaller.
LEMMA SmallestIsLeast ==
  ASSUME NEW T \in SUBSET Nat, T # {}
  PROVE  /\ Smallest(T) \in T
         /\ \A y \in T : Smallest(T) <= y
BY NatMinimum DEF Smallest

\* A dependency map over a finite set of nodes: the entries of a needs list
\* are finitely many.
LEMMA NeedsListFinite ==
  ASSUME NEW J, NEW deps \in [J -> Seq(J)], NEW j \in J
  PROVE  /\ Len(deps[j]) \in Nat
         /\ DOMAIN deps[j] = 1..Len(deps[j])
         /\ IsFiniteSet(DOMAIN deps[j])
         /\ Cardinality(DOMAIN deps[j]) = Len(deps[j])
         /\ \A i \in DOMAIN deps[j] : deps[j][i] \in J
<1>1. deps[j] \in Seq(J)
  OBVIOUS
<1>2. /\ Len(deps[j]) \in Nat
      /\ DOMAIN deps[j] = 1..Len(deps[j])
      /\ \A i \in DOMAIN deps[j] : deps[j][i] \in J
  BY <1>1
<1>3. IsFiniteSet(1..Len(deps[j])) /\ Cardinality(1..Len(deps[j])) = Len(deps[j])
  <2> DEFINE n == Len(deps[j])
  <2>1. n \in Nat
    BY <1>2
  <2> HIDE DEF n
  <2>2. /\ IsFiniteSet(1..n)
        /\ Cardinality(1..n) = IF 1 > n THEN 0 ELSE n - 1 + 1
    BY <2>1, FS_Interval
  <2>3. IsFiniteSet(1..n) /\ Cardinality(1..n) = n
    BY <2>1, <2>2
  <2> QED
    BY <2>3 DEF n
<1> QED
  BY <1>2, <1>3

\* A map with a rank has, in every non-empty set of nodes, one that needs no
\* other of them.
LEMMA LeastRanked ==
  ASSUME NEW J, NEW deps, deps \in [J -> Seq(J)], IsFiniteSet(J), Acyclic(deps),
         NEW U, U \subseteq J, U # {}
  PROVE  \E u \in U : \A n \in NeedSet(deps, u) : n \notin U
<1>1. DOMAIN deps = J
  OBVIOUS
<1>2. PICK rank \in [J -> 0..Cardinality(J)] :
         \A j \in J : \A n \in NeedSet(deps, j) : rank[n] < rank[j]
  BY <1>1 DEF Acyclic
<1>3. Cardinality(J) \in Nat
  BY FS_CardinalityType
<1> DEFINE T == {rank[u] : u \in U}
<1>4. T \in SUBSET Nat /\ T # {}
  BY <1>2, <1>3
<1>5. PICK x \in T : \A y \in T : x <= y
  BY <1>4, NatMinimum
<1>6. PICK u \in U : rank[u] = x
  OBVIOUS
<1>7. ASSUME NEW n \in NeedSet(deps, u), n \in U PROVE FALSE
  <2>1. rank[n] < rank[u]
    BY <1>2
  <2>2. rank[u] <= rank[n] /\ rank[u] \in Nat /\ rank[n] \in Nat
    BY <1>4, <1>5, <1>6, <1>7
  <2> QED
    BY <2>1, <2>2
<1> QED
  BY <1>7

\* Taking c out of a set that still holds it takes out, of the entries of j's
\* list that name a member of the set, those that name c.
LEMMA EntriesSplit ==
  ASSUME NEW deps, NEW j, IsFiniteSet(DOMAIN deps[j]), NEW S, NEW c, c \in S
  PROVE  /\ IsFiniteSet(Entries(deps, j, S))
         /\ Naming(deps, j, c) \subseteq Entries(deps, j, S)
         /\ Entries(deps, j, S \ {c}) = Entries(deps, j, S) \ Naming(deps, j, c)
         /\ c \in NeedSet(deps, j) <=> Naming(deps, j, c) # {}
<1>1. Entries(deps, j, S) \subseteq DOMAIN deps[j]
  BY DEF Entries
<1>2. IsFiniteSet(Entries(deps, j, S))
  BY <1>1, FS_Subset
<1> QED
  BY <1>2 DEF Naming, Entries, NeedSet

\* How many are left, for any part of a finite set.
LEMMA CardinalitySplit ==
  ASSUME NEW E, NEW N, IsFiniteSet(E), N \subseteq E
  PROVE  /\ Cardinality(E) \in Nat
         /\ Cardinality(N) \in Nat
         /\ Cardinality(E \ N) \in Nat
         /\ Cardinality(E \ N) = Cardinality(E) - Cardinality(N)
         /\ Cardinality(N) = 0 <=> N = {}
<1>1. IsFiniteSet(N)
  BY FS_Subset
<1>2. /\ Cardinality(E \ N) = Cardinality(E) - Cardinality(E \cap N)
      /\ IsFiniteSet(E \ N)
  BY FS_Difference
<1>3. E \cap N = N
  OBVIOUS
<1> QED
  BY <1>1, <1>2, <1>3, FS_CardinalityType, FS_EmptySet

----------------------------------------------------------------------------
(* OrderPrefixes, unfolded.  Both it and Upstream are defined by a local     *)
(* recursive function; that the function exists, and so satisfies its      *)
(* equation, is shown for a least bound at which it would not.             *)

\* The jobs that may be taken after some were, and the set with the smallest
\* of them.
FreeAfter(deps, taken) == {j \in DOMAIN deps \ taken : NeedSet(deps, j) \subseteq taken}
Take(deps, taken) ==
  taken \cup {CHOOSE j \in FreeAfter(deps, taken) : \A k \in FreeAfter(deps, taken) : j <= k}

\* f is the function of OrderPrefixes, up to n.
PrefixTo(f, deps, n) == f = [i \in 0..n |-> IF i = 0 THEN {} ELSE Take(deps, f[i - 1])]

\* OrderPrefixes is the function its definition asks for, if there is one.
LEMMA OrderPrefixesChoice ==
  ASSUME NEW deps
  PROVE OrderPrefixes(deps) = CHOOSE f : PrefixTo(f, deps, Cardinality(DOMAIN deps))
BY DEF OrderPrefixes, PrefixTo, Take, FreeAfter

\* There is one, for every bound.
LEMMA PrefixesExist ==
  ASSUME NEW deps, NEW n \in Nat
  PROVE  \E f : PrefixTo(f, deps, n)
<1> DEFINE Bad == {m \in Nat : ~ \E f : PrefixTo(f, deps, m)}
<1> SUFFICES ASSUME Bad # {} PROVE FALSE
    OBVIOUS
<1>1. PICK m \in Bad : \A k \in Bad : m <= k
      BY NatMinimum
<1>2. m # 0
      <2>1. PrefixTo([i \in 0..0 |-> {}], deps, 0)
            BY DEF PrefixTo
      <2> QED
          BY <2>1
<1>3. m - 1 \in Nat /\ m - 1 \notin Bad
      BY <1>1, <1>2
<1>4. PICK f : PrefixTo(f, deps, m - 1)
      BY <1>3
<1> DEFINE g == [i \in 0..m |-> IF i = m THEN Take(deps, f[m - 1]) ELSE f[i]]
<1>5. PrefixTo(g, deps, m)
      <2>1. \A i \in 0..m-1 : f[i] = IF i = 0 THEN {} ELSE Take(deps, f[i - 1])
            BY <1>4 DEF PrefixTo
      <2>2. ASSUME NEW i \in 0..m
            PROVE  g[i] = IF i = 0 THEN {} ELSE Take(deps, g[i - 1])
            <3>1. CASE i = m
                  <4>1. g[i] = Take(deps, f[m - 1]) /\ g[m - 1] = f[m - 1]
                        BY <1>2, <1>3, <3>1
                  <4> QED
                      BY <1>2, <3>1, <4>1
            <3>2. CASE i # m
                  <4>1. g[i] = f[i] /\ (i # 0 => g[i - 1] = f[i - 1])
                        BY <1>3, <3>2
                  <4> QED
                      BY <1>3, <2>1, <3>2, <4>1
            <3> QED
                BY <3>1, <3>2
      <2> QED
          BY <2>2 DEF PrefixTo
<1> QED
    BY <1>1, <1>5

\* What OrderPrefixes holds at each place, for every finite map.
LEMMA OrderPrefixesAre ==
  ASSUME NEW deps, IsFiniteSet(DOMAIN deps)
  PROVE  /\ OrderPrefixes(deps)[0] = {}
         /\ \A i \in 1..Cardinality(DOMAIN deps) :
              OrderPrefixes(deps)[i] = Take(deps, OrderPrefixes(deps)[i - 1])
<1>1. Cardinality(DOMAIN deps) \in Nat
      BY FS_CardinalityType
<1> DEFINE P == OrderPrefixes(deps)
           N == Cardinality(DOMAIN deps)
<1>2. PrefixTo(P, deps, N)
      BY <1>1, OrderPrefixesChoice, PrefixesExist
<1> HIDE DEF P, N
<1>3. P = [i \in 0..N |-> IF i = 0 THEN {} ELSE Take(deps, P[i - 1])]
      BY <1>2 DEF PrefixTo
<1>4. \A i \in 0..N : P[i] = IF i = 0 THEN {} ELSE Take(deps, P[i - 1])
      BY <1>3, Zenon
<1>5. P[0] = {} /\ \A i \in 1..N : P[i] = Take(deps, P[i - 1])
      BY <1>1, <1>4 DEF N
<1> QED
    BY <1>5 DEF P, N

----------------------------------------------------------------------------

(* Upstream, unfolded.                                                     *)

\* One turn of Upstream's recursion.
Reach(deps, known) == known \cup UNION {NeedSet(deps, n) : n \in known}

\* f is the function of Upstream, up to n.
ReachTo(f, deps, j, n) ==
  f = [i \in 0..n |-> IF i = 0 THEN NeedSet(deps, j) ELSE Reach(deps, f[i - 1])]

\* There is such a function for every bound.
LEMMA ReachesExist ==
  ASSUME NEW deps, NEW j, NEW n \in Nat
  PROVE  \E f : ReachTo(f, deps, j, n)
<1> DEFINE Bad == {m \in Nat : ~ \E f : ReachTo(f, deps, j, m)}
<1> SUFFICES ASSUME Bad # {} PROVE FALSE
    OBVIOUS
<1>1. PICK m \in Bad : \A k \in Bad : m <= k
      BY NatMinimum
<1>2. m # 0
      <2>1. ReachTo([i \in 0..0 |-> NeedSet(deps, j)], deps, j, 0)
            BY DEF ReachTo
      <2> QED
          BY <2>1
<1>3. m - 1 \in Nat /\ m - 1 \notin Bad
      BY <1>1, <1>2
<1>4. PICK f : ReachTo(f, deps, j, m - 1)
      BY <1>3
<1> DEFINE g == [i \in 0..m |-> IF i = m THEN Reach(deps, f[m - 1]) ELSE f[i]]
<1>5. ReachTo(g, deps, j, m)
      <2>1. \A i \in 0..m-1 : f[i] = IF i = 0 THEN NeedSet(deps, j) ELSE Reach(deps, f[i - 1])
            BY <1>4 DEF ReachTo
      <2>2. ASSUME NEW i \in 0..m
            PROVE  g[i] = IF i = 0 THEN NeedSet(deps, j) ELSE Reach(deps, g[i - 1])
            <3>1. CASE i = m
                  <4>1. g[i] = Reach(deps, f[m - 1]) /\ g[m - 1] = f[m - 1]
                        BY <1>2, <1>3, <3>1
                  <4> QED
                      BY <1>2, <3>1, <4>1
            <3>2. CASE i # m
                  <4>1. g[i] = f[i] /\ (i # 0 => g[i - 1] = f[i - 1])
                        BY <1>3, <3>2
                  <4> QED
                      BY <1>3, <2>1, <3>2, <4>1
            <3> QED
                BY <3>1, <3>2
      <2> QED
          BY <2>2 DEF ReachTo
<1> QED
    BY <1>1, <1>5

\* What Upstream is, for every finite map: its last turn.
LEMMA UpstreamIs ==
  ASSUME NEW deps, NEW j, IsFiniteSet(DOMAIN deps)
  PROVE  \E up : /\ Upstream(deps, j) = up[Cardinality(DOMAIN deps)]
                 /\ up[0] = NeedSet(deps, j)
                 /\ \A i \in 1..Cardinality(DOMAIN deps) : up[i] = Reach(deps, up[i - 1])
<1> DEFINE N == Cardinality(DOMAIN deps)
           up == CHOOSE f : ReachTo(f, deps, j, N)
<1>1. N \in Nat
      BY FS_CardinalityType
<1>2. Upstream(deps, j) = up[N]
      BY DEF Upstream, ReachTo, Reach
<1>3. ReachTo(up, deps, j, N)
      BY <1>1, ReachesExist
<1> HIDE DEF up, N
<1>4. up = [i \in 0..N |-> IF i = 0 THEN NeedSet(deps, j) ELSE Reach(deps, up[i - 1])]
      BY <1>3 DEF ReachTo
<1>5. \A i \in 0..N : up[i] = IF i = 0 THEN NeedSet(deps, j) ELSE Reach(deps, up[i - 1])
      BY <1>4, Zenon
<1>6. up[0] = NeedSet(deps, j) /\ \A i \in 1..N : up[i] = Reach(deps, up[i - 1])
      BY <1>1, <1>5
<1> QED
    BY <1>2, <1>6 DEF N

\* Every need of a member is a member.
Closed(deps, S) == \A n \in S : NeedSet(deps, n) \subseteq S

\* What is upstream of j is closed: as many turns as there are jobs suffice,
\* because every turn that finds something new finds at least one job.
LEMMA UpstreamClosed ==
  ASSUME NEW J, IsFiniteSet(J), NEW deps \in [J -> Seq(J)], NEW j \in J
  PROVE  /\ NeedSet(deps, j) \subseteq Upstream(deps, j)
         /\ Upstream(deps, j) \subseteq J
         /\ Closed(deps, Upstream(deps, j))
<1> DEFINE N == Cardinality(J)
<1>1. DOMAIN deps = J /\ N \in Nat
      BY FS_CardinalityType
<1>2. PICK up : /\ Upstream(deps, j) = up[N] /\ up[0] = NeedSet(deps, j)
                /\ \A i \in 1..N : up[i] = Reach(deps, up[i - 1])
      BY <1>1, UpstreamIs, SMTT(30)
<1>3. \A n \in J : NeedSet(deps, n) \subseteq J
      BY NeedsListFinite DEF NeedSet
<1> DEFINE Enough(i) == Closed(deps, up[i]) \/ Cardinality(up[i]) > i
           Good(i) == up[i] \subseteq J /\ NeedSet(deps, j) \subseteq up[i] /\ Enough(i)
           Bad == {i \in 0..N : ~Good(i)}
<1>4. Bad = {}
      <2> SUFFICES ASSUME Bad # {} PROVE FALSE
          OBVIOUS
      <2>1. PICK i \in Bad : \A k \in Bad : i <= k
            <3>1. Bad \in SUBSET Nat
                  BY <1>1
            <3> HIDE DEF Bad
            <3> QED
                BY <3>1, NatMinimum
      <2>2. i \in 0..N /\ ~Good(i)
            OBVIOUS
      <2>3. CASE i = 0
            <3>1. up[0] \subseteq J /\ NeedSet(deps, j) \subseteq up[0]
                  BY <1>2, <1>3
            <3>2. CASE up[0] = {}
                  BY <2>2, <2>3, <3>1, <3>2 DEF Closed
            <3>3. CASE up[0] # {}
                  <4>1. IsFiniteSet(up[0])
                        BY <3>1, FS_Subset
                  <4>2. Cardinality(up[0]) \in Nat /\ Cardinality(up[0]) # 0
                        BY <3>3, <4>1, FS_CardinalityType, FS_EmptySet
                  <4> QED
                      BY <2>2, <2>3, <3>1, <4>2
            <3> QED
                BY <3>2, <3>3
      <2>4. CASE i # 0
            <3>1. i - 1 \in 0..N /\ i \in 1..N /\ i - 1 \notin Bad
                  BY <1>1, <2>1, <2>2, <2>4
            <3>2. Good(i - 1)
                  BY <3>1
            <3> DEFINE known == up[i - 1]
            <3>3. up[i] = known \cup UNION {NeedSet(deps, n) : n \in known}
                  BY <1>2, <3>1 DEF Reach
            <3>4. known \subseteq J /\ NeedSet(deps, j) \subseteq known
                  BY <3>2
            <3>5. up[i] \subseteq J /\ known \subseteq up[i]
                  BY <1>3, <3>3, <3>4
            <3>6. CASE Closed(deps, known)
                  <4>1. up[i] = known
                        BY <3>3, <3>6 DEF Closed
                  <4> QED
                      BY <2>2, <3>4, <3>6, <4>1
            <3>7. CASE ~Closed(deps, known)
                  <4>1. up[i] # known
                        BY <3>3, <3>7 DEF Closed
                  <4>2. IsFiniteSet(up[i]) /\ IsFiniteSet(known)
                        BY <3>5, FS_Subset
                  <4>3. Cardinality(known) > i - 1
                        BY <3>2, <3>7
                  <4>4. Cardinality(known) \in Nat /\ Cardinality(up[i]) \in Nat /\ i \in Nat
                        BY <1>1, <3>1, <4>2, FS_CardinalityType
                  <4>5. /\ Cardinality(known) <= Cardinality(up[i])
                        /\ Cardinality(up[i]) # Cardinality(known)
                        BY <3>5, <4>1, <4>2, FS_Subset
                  <4>6. Cardinality(up[i]) > i
                        BY <4>3, <4>4, <4>5
                  <4> QED
                      BY <2>2, <3>4, <3>5, <4>6
            <3> QED
                BY <3>6, <3>7
      <2> QED
          BY <2>3, <2>4
<1>5. Good(N)
      <2>1. N \in 0..N
            BY <1>1
      <2> QED
          BY <1>4, <2>1
<1>6. Cardinality(up[N]) <= N
      <2>1. up[N] \subseteq J
            BY <1>5
      <2> QED
          BY <2>1, FS_Subset
<1>7. Cardinality(up[N]) \in Nat
      BY <1>5, FS_Subset, FS_CardinalityType
<1>8. Closed(deps, up[N])
      BY <1>1, <1>5, <1>6, <1>7
<1> QED
    BY <1>2, <1>5, <1>8

\* And it is the least closed set that holds j's needs.
LEMMA UpstreamLeast ==
  ASSUME NEW J, IsFiniteSet(J), NEW deps \in [J -> Seq(J)], NEW j \in J,
         NEW S, NeedSet(deps, j) \subseteq S, Closed(deps, S)
  PROVE  Upstream(deps, j) \subseteq S
<1> DEFINE N == Cardinality(J)
<1>1. DOMAIN deps = J /\ N \in Nat
      BY FS_CardinalityType
<1>2. PICK up : /\ Upstream(deps, j) = up[N] /\ up[0] = NeedSet(deps, j)
                /\ \A i \in 1..N : up[i] = Reach(deps, up[i - 1])
      BY <1>1, UpstreamIs, SMTT(30)
<1> HIDE DEF N
<1> DEFINE Bad == {i \in 0..N : ~(up[i] \subseteq S)}
<1> SUFFICES ASSUME Bad # {} PROVE FALSE
    BY <1>1, <1>2
<1>3. PICK i \in Bad : \A k \in Bad : i <= k
      <2>1. Bad \in SUBSET Nat
            BY <1>1
      <2> HIDE DEF Bad
      <2> QED
          BY <2>1, NatMinimum
<1>4. i \in 1..N /\ i - 1 \in 0..N /\ i - 1 \notin Bad
      BY <1>1, <1>2, <1>3
<1>5. up[i - 1] \subseteq S /\ up[i] = Reach(deps, up[i - 1])
      BY <1>2, <1>4
<1>6. up[i] \subseteq S
      BY <1>5 DEF Reach, Closed
<1> QED
    BY <1>6

\* What is upstream of a job upstream of j is upstream of j.
LEMMA UpstreamGrows ==
  ASSUME NEW J, IsFiniteSet(J), NEW deps \in [J -> Seq(J)], NEW j \in J, NEW n \in Upstream(deps, j)
  PROVE  n \in J /\ Upstream(deps, n) \subseteq Upstream(deps, j)
<1>1. n \in J /\ Closed(deps, Upstream(deps, j))
      BY UpstreamClosed
<1>2. NeedSet(deps, n) \subseteq Upstream(deps, j)
      BY <1>1 DEF Closed
<1> QED
    BY <1>1, <1>2, UpstreamLeast

\* Where needs have lower ranks there is no cycle.
LEMMA RankedUpstream ==
  ASSUME NEW J, IsFiniteSet(J), NEW deps \in [J -> Seq(J)], NEW R \in SUBSET J,
         NEW rank \in [R -> Nat],
         \A r \in R : \A n \in NeedSet(deps, r) : n \in R /\ rank[n] < rank[r],
         NEW j \in R
  PROVE  Upstream(deps, j) \subseteq R /\ j \notin Upstream(deps, j)
<1> DEFINE S == {m \in R : rank[m] < rank[j]}
<1>1. NeedSet(deps, j) \subseteq S
      OBVIOUS
<1>2. Closed(deps, S)
      <2> SUFFICES ASSUME NEW m \in S, NEW n \in NeedSet(deps, m) PROVE n \in S
          BY DEF Closed
      <2>1. n \in R /\ rank[n] < rank[m] /\ rank[m] < rank[j]
            OBVIOUS
      <2>2. rank[n] \in Nat /\ rank[m] \in Nat /\ rank[j] \in Nat
            BY <2>1
      <2> QED
          BY <2>1, <2>2
<1>3. Upstream(deps, j) \subseteq S
      BY <1>1, <1>2, UpstreamLeast
<1> QED
    BY <1>3

\* A set whose members all have a need in it: upstream of each is a cycle.
LEMMA CycleUpstream ==
  ASSUME NEW J, IsFiniteSet(J), NEW deps \in [J -> Seq(J)], NEW U \in SUBSET J,
         \A u \in U : \E n \in NeedSet(deps, u) : n \in U,
         NEW j \in U
  PROVE  \E n \in {j} \cup Upstream(deps, j) : n \in Upstream(deps, n)
<1> DEFINE C == ({j} \cup Upstream(deps, j)) \cap U
           Sizes == {Cardinality(Upstream(deps, n)) : n \in C}
<1> SUFFICES ASSUME \A n \in {j} \cup Upstream(deps, j) : n \notin Upstream(deps, n)
             PROVE  FALSE
    OBVIOUS
<1>1. \A n \in J : /\ Upstream(deps, n) \subseteq J /\ NeedSet(deps, n) \subseteq Upstream(deps, n)
                   /\ IsFiniteSet(Upstream(deps, n)) /\ Cardinality(Upstream(deps, n)) \in Nat
      BY UpstreamClosed, FS_Subset, FS_CardinalityType
<1>2. C \subseteq J /\ j \in C
      OBVIOUS
<1>3. PICK n \in C : \A m \in C : Cardinality(Upstream(deps, n)) <= Cardinality(Upstream(deps, m))
      <2>1. Sizes \in SUBSET Nat /\ Sizes # {}
            BY <1>1, <1>2
      <2>2. PICK x \in Sizes : \A y \in Sizes : x <= y
            BY <2>1, NatMinimum
      <2> QED
          BY <2>2
<1>4. PICK m \in NeedSet(deps, n) : m \in U
      BY <1>3
<1>5. m \in Upstream(deps, n) /\ Upstream(deps, m) \subseteq Upstream(deps, n)
      BY <1>1, <1>2, <1>4, UpstreamGrows
<1>6. m \in C
      <2>1. n = j \/ Upstream(deps, n) \subseteq Upstream(deps, j)
            BY <1>2, UpstreamGrows
      <2> QED
          BY <1>4, <1>5, <2>1
<1>7. m \notin Upstream(deps, m)
      BY <1>6
<1>8. Cardinality(Upstream(deps, m)) # Cardinality(Upstream(deps, n))
      BY <1>1, <1>2, <1>5, <1>7, FS_Subset
<1>9. Cardinality(Upstream(deps, m)) <= Cardinality(Upstream(deps, n))
      BY <1>1, <1>2, <1>5, FS_Subset
<1>10. Cardinality(Upstream(deps, n)) <= Cardinality(Upstream(deps, m))
       BY <1>3, <1>6
<1>11. Cardinality(Upstream(deps, m)) \in Nat /\ Cardinality(Upstream(deps, n)) \in Nat
       BY <1>1, <1>2, <1>6
<1> QED
    BY <1>8, <1>9, <1>10, <1>11

\* No entry is left to count exactly when no need is left.
LEMMA NoneLeft ==
  ASSUME NEW J, NEW deps \in [J -> Seq(J)], NEW n \in J, NEW S
  PROVE  /\ Cardinality(Entries(deps, n, S)) \in Nat
         /\ Cardinality(Entries(deps, n, S)) = 0 <=> \A m \in NeedSet(deps, n) : m \notin S
<1>1. IsFiniteSet(DOMAIN deps[n]) /\ Entries(deps, n, S) \subseteq DOMAIN deps[n]
      BY NeedsListFinite DEF Entries
<1>2. IsFiniteSet(Entries(deps, n, S))
      BY <1>1, FS_Subset
<1>3. Entries(deps, n, S) = {} <=> \A m \in NeedSet(deps, n) : m \notin S
      BY DEF Entries, NeedSet
<1> QED
    BY <1>2, <1>3, FS_CardinalityType, FS_EmptySet
=============================================================================
