-------------------------------- MODULE Dag --------------------------------
(***************************************************************************)
(* internal/dag: Build's walk over the dependency map (Kahn's algorithm,   *)
(* smallest ready node first), the cycle report, and Waves, which the      *)
(* dry-run plan prints.  One step per turn of each loop.                   *)
(***************************************************************************)
EXTENDS JobGraph

CONSTANT DepsChoices   \* the dependency maps Build may be given

ASSUME DepsAssumption ==
  \A d \in DepsChoices : /\ DOMAIN d \subseteq Nat /\ IsFiniteSet(DOMAIN d)
                         /\ d \in [DOMAIN d -> Seq(DOMAIN d)]

VARIABLES
  deps,    \* the input (never written)
  indeg,   \* Build's working copy
  ready, order,
  stuck,   \* CycleError.Nodes
  waves,   \* what Waves has returned so far
  windeg,  \* Waves' working copy of Graph.Indegree
  left,    \* its remaining keys
  pc       \* "sort", "waves", or how it ended: "cycle", "done"

vars == <<deps, indeg, ready, order, stuck, waves, windeg, left, pc>>

Nodes == DOMAIN deps

\* What Build starts from.
InitWalk ==
  /\ indeg = Indegree(deps)
  /\ ready = {n \in Nodes : indeg[n] = 0}
  /\ order = <<>>
  /\ stuck = {}
  /\ waves = <<>>
  /\ windeg = indeg
  /\ left = Nodes
  /\ pc = "sort"

Init == deps \in DepsChoices /\ InitWalk

Visit ==
  /\ pc = "sort" /\ ready # {}
  /\ LET node == Smallest(ready)
     IN  /\ order' = Append(order, node)
         /\ indeg' = Lowered(deps, indeg, node)
         /\ ready' = (ready \ {node}) \cup Freed(deps, indeg, node)
  /\ UNCHANGED <<deps, stuck, waves, windeg, left, pc>>

\* Refused only when nothing could be ordered (seeded fault).
NothingOrdered == order = <<>> /\ Nodes # {}

Incomplete == Len(order) < Cardinality(Nodes)

\* Nodes with a single unordered need are left out (seeded fault).
StuckSeveral == {n \in Nodes : indeg[n] > 1}

Stuck == {n \in Nodes : indeg[n] > 0}

\* Without the snapshot, Waves would start from what the walk left (seeded fault).
WalkedIndegree == indeg

InitialIndegree == Indegree(deps)

EndWalk ==
  /\ pc = "sort" /\ ready = {}
  /\ IF Incomplete THEN pc' = "cycle" /\ stuck' = Stuck /\ UNCHANGED windeg
                   ELSE pc' = "waves" /\ windeg' = InitialIndegree /\ UNCHANGED stuck
  /\ UNCHANGED <<deps, indeg, ready, order, waves, left>>

NextWave == {n \in left : windeg[n] = 0}

Wave ==
  /\ pc = "waves" /\ NextWave # {}
  /\ waves' = Append(waves, NextWave)
  /\ left' = left \ NextWave
  /\ windeg' = [n \in Nodes |->
                  windeg[n] - Cardinality(Entries(deps, n, NextWave))]
  /\ UNCHANGED <<deps, indeg, ready, order, stuck, pc>>

EndWaves ==
  /\ pc = "waves" /\ NextWave = {}
  /\ pc' = "done"
  /\ UNCHANGED <<deps, indeg, ready, order, stuck, waves, windeg, left>>

Next == Visit \/ EndWalk \/ Wave \/ EndWaves

Spec == Init /\ [][Next]_vars

----------------------------------------------------------------------------
(* Properties. *)

Ordered == {order[i] : i \in DOMAIN order}

\* The order is a function of the map: at each place the alphabetically
\* smallest node whose needs are all placed, as if no counter were kept.
Deterministic ==
  \A i \in 0..Len(order) : {order[k] : k \in 1..i} = OrderPrefixes(deps)[i]

OnCycle == {n \in Nodes : n \in Upstream(deps, n)}

\* Build refuses a map exactly when it has a cycle and otherwise orders all of
\* it; the nodes it reports are those no order can place, the ones on a cycle
\* and the ones that depend, directly or not, on a node of a cycle.
CyclesReported ==
  /\ pc \in {"waves", "done"} => Acyclic(deps) /\ Ordered = Nodes
  /\ pc = "cycle" =>
       /\ ~Acyclic(deps)
       /\ stuck = {n \in Nodes : n \in OnCycle \/ Upstream(deps, n) \cap OnCycle # {}}

\* Every node is in one wave, right after the wave of its latest need: the
\* plan is the earliest schedule under unlimited concurrency.
WavesExact ==
  pc = "done" =>
    /\ left = {}
    /\ \A w \in DOMAIN waves : \A n \in waves[w] :
         /\ \A v \in DOMAIN waves : n \in waves[v] => v = w
         /\ \A m \in NeedSet(deps, n) : \E v \in 1..w-1 : m \in waves[v]
         /\ w > 1 => NeedSet(deps, n) \cap waves[w - 1] # {}
=============================================================================
