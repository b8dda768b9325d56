------------------------------ MODULE JobGraph ------------------------------
(***************************************************************************)
(* The dependency map that internal/dag analyses and internal/scheduler    *)
(* walks.  A job is a natural number, so that "alphabetically smallest" is *)
(* "<".  deps[j] is job j's needs: list, in the order the workflow file    *)
(* writes it; a job may be named twice, which the code accepts and counts  *)
(* twice, both in Indegree and in Dependents.                              *)
(***************************************************************************)
EXTENDS Integers, Sequences, FiniteSets

NeedSet(deps, j) == {deps[j][i] : i \in DOMAIN deps[j]}

\* The entries of j's needs list that name c: as many as Dependents[c] has
\* entries for j.
Naming(deps, j, c) == {i \in DOMAIN deps[j] : deps[j][i] = c}

\* The entries of j's needs list that name a job of R.
Entries(deps, j, R) == {i \in DOMAIN deps[j] : deps[j][i] \in R}

\* Repeated needs counted once (seeded fault).
IndegreeDistinct(deps) == [j \in DOMAIN deps |-> Cardinality(NeedSet(deps, j))]

Indegree(deps) == [j \in DOMAIN deps |-> Len(deps[j])]

\* Reverse alphabetical (seeded fault).
Largest(S) == CHOOSE x \in S : \A y \in S : y <= x

Smallest(S) == CHOOSE x \in S : \A y \in S : x <= y

\* A dependents list without duplicates (seeded fault).
LoweredOnce(deps, indeg, c) ==
  [j \in DOMAIN indeg |-> IF c \in NeedSet(deps, j) THEN indeg[j] - 1 ELSE indeg[j]]

\* The loop over Dependents[c] once c is done: what it leaves in indeg, and
\* the jobs whose count it brings to zero.
Lowered(deps, indeg, c) ==
  [j \in DOMAIN indeg |-> indeg[j] - Cardinality(Naming(deps, j, c))]

Freed(deps, indeg, c) ==
  {j \in DOMAIN indeg : c \in NeedSet(deps, j) /\ Lowered(deps, indeg, c)[j] = 0}

\* The dependency map has no cycle: jobs can be ranked below their dependents.
Acyclic(deps) ==
  LET J == DOMAIN deps
  IN  \E rank \in [J -> 0..Cardinality(J)] :
        \A j \in J : \A n \in NeedSet(deps, j) : rank[n] < rank[j]

\* The jobs that j depends on, directly or not.
Upstream(deps, j) ==
  LET up[i \in 0..Cardinality(DOMAIN deps)] ==
        IF i = 0 THEN NeedSet(deps, j)
        ELSE LET known == up[i - 1]
             IN  known \cup UNION {NeedSet(deps, n) : n \in known}
  IN  up[Cardinality(DOMAIN deps)]

\* The reference for every order the code computes: the first i jobs when, one
\* at a time, the smallest job all of whose needs were taken is taken.
OrderPrefixes(deps) ==
  LET J == DOMAIN deps
      prefix[i \in 0..Cardinality(J)] ==
        IF i = 0 THEN {}
        ELSE LET taken == prefix[i - 1]
                 free  == {j \in J \ taken : NeedSet(deps, j) \subseteq taken}
             IN  taken \cup {CHOOSE j \in free : \A k \in free : j <= k}
  IN  prefix
=============================================================================
