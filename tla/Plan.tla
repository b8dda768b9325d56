-------------------------------- MODULE Plan --------------------------------
(***************************************************************************)
(* From a workflow file to what the scheduler and runJob are given: what   *)
(* Validate accepts (internal/config), ExpandMatrix, the graph that        *)
(* dag.Build makes of the outcome, a job's condition, and the steps of a   *)
(* job with its calls inlined and its if/elif/else chains decided          *)
(* (engine.stepShouldRun).                                                 *)
(* Build is called twice, on the needs as written by Validate and on the   *)
(* expanded ones by Run and DryRun: Dag models both calls.                 *)
(***************************************************************************)
EXTENDS Dag, Cond, SequencesExt

CONSTANTS
  Families,     \* what latchet.yml may say, as sets of workflows: each a record of
                \* needs, inherit, matrix, label, steps, when
  NoJob,
  NoCondition,  \* a job without if:
  Environments  \* what a job's variables may be: a text for some of the names

PlainKinds == {"run", "if", "elif", "else"}
StepKinds == PlainKinds \cup {"call"}

\* A call stands for its body: the kinds of the steps it is replaced by.
Steps == [kind : PlainKinds] \cup [kind : {"call"}, body : Seq(StepKinds)]

\* A job is a number in place of its ID, in the order of the strings.  A matrix is
\* the list of its keys' values, keys sorted; <<>>: no strategy.
ASSUME WorkflowsAssumption ==
  \A family \in Families : \A w \in family :
    /\ DOMAIN w.needs \subseteq Nat /\ IsFiniteSet(DOMAIN w.needs)
    /\ w.needs \in [DOMAIN w.needs -> Seq(DOMAIN w.needs)]
    /\ NoJob \notin DOMAIN w.needs /\ w.inherit \in [DOMAIN w.needs -> DOMAIN w.needs \cup {NoJob}]
    /\ w.matrix \in [DOMAIN w.needs -> Seq(Seq(Nat))]
    /\ w.steps \in Seq(Steps)
    /\ w.when # NoCondition =>
         /\ w.when \in Seq(Range(w.when))
         /\ \A token \in Range(w.when) : IsValue(token) \/ token.kind \in Operators

VARIABLES
  wf,
  call,    \* who calls Build: "validate", "run"
  origin   \* of each job of the expanded workflow: the written job and the combination

----------------------------------------------------------------------------
(* Steps: validateSteps, ExpandCalls, stepShouldRun. *)

\* A call does not close a chain (seeded fault).
ClosesPlainOnly(kind) == kind \in {"run", "else"}

\* chainOpen = false
Closes(kind) == kind \in {"run", "call", "else"}

\* The chain that is open before step i: begun by an if, not closed since.
ChainOpen(kinds, i) ==
  \E h \in 1..i-1 : kinds[h] = "if" /\ \A k \in h+1..i-1 : ~Closes(kinds[k])

ChainsValid(kinds) ==
  \A i \in DOMAIN kinds : kinds[i] \in {"elif", "else"} => ChainOpen(kinds, i)

Kinds(steps) == [i \in DOMAIN steps |-> steps[i].kind]

\* A function's body holds no call. A call is a call: or a uses: step (a key's
\* steps), and the body is the function's.
StepsValid(steps) ==
  /\ ChainsValid(Kinds(steps))
  /\ \A i \in DOMAIN steps : steps[i].kind = "call" =>
       /\ steps[i].body # <<>> /\ "call" \notin Range(steps[i].body)
       /\ ChainsValid(steps[i].body)

Inlined(step) == IF step.kind = "call" THEN step.body ELSE <<step.kind>>

ExpandCalls(steps) == FlattenSeq([i \in DOMAIN steps |-> Inlined(steps[i])])

\* An if that finds the flag set leaves it so (seeded fault).
TakenSticks(kind, taken, true) ==
  CASE kind \in {"if", "elif"} -> taken \/ true
    [] kind = "else"           -> TRUE
    [] OTHER                   -> FALSE

\* chainTaken after a step, from chainTaken before it and the step's condition.
TakenAfter(kind, taken, true) ==
  CASE kind = "if"   -> true
    [] kind = "elif" -> taken \/ true
    [] kind = "else" -> TRUE
    [] OTHER         -> FALSE

ShouldRun(kind, taken, true) ==
  CASE kind = "if"   -> true
    [] kind = "elif" -> ~taken /\ true
    [] kind = "else" -> ~taken
    [] OTHER         -> TRUE

\* runJob's loop: which of the steps run, given how the conditions come out.
Executed(kinds, truth) ==
  LET taken[i \in 0..Len(kinds)] ==
        IF i = 0 THEN FALSE ELSE TakenAfter(kinds[i], taken[i - 1], truth[i])
  IN  {i \in DOMAIN kinds : ShouldRun(kinds[i], taken[i - 1], truth[i])}

----------------------------------------------------------------------------
(* Validate and ExpandMatrix. *)

JobsOf(w) == DOMAIN w.needs
IsMatrix(w, j) == w.matrix[j] # <<>>

\* A matrix job as a parent is not looked for (seeded fault).
ParentInNeeds(w, j) == w.inherit[j] \in NeedSet(w.needs, j)

InheritValid(w, j) ==
  ~IsMatrix(w, w.inherit[j]) /\ w.inherit[j] \in NeedSet(w.needs, j)

\* Only a job that needs itself is refused (seeded fault).
NoSelfNeed(w) == \A j \in JobsOf(w) : j \notin NeedSet(w.needs, j)

\* dag.Sort finds an order; Dag's CyclesReported says when it does.
NeedsSortable(w) == Acyclic(w.needs)

ConditionValid(w) == w.when # NoCondition => Check(w.when)

\* runOne's decision, before anything is set up for the job.
JobRuns(w, env) == w.when # NoCondition => Eval(w.when, env)

\* needs and inherit name jobs of the file; steps and when stand for those of
\* one job. Errors about other names and about missing fields are left out.
Valid(w) ==
  /\ \A j \in JobsOf(w) :
       /\ j \notin NeedSet(w.needs, j)
       /\ w.inherit[j] # NoJob => InheritValid(w, j)
       /\ <<>> \notin Range(w.matrix[j])
  /\ NeedsSortable(w)
  /\ w.steps # <<>> /\ StepsValid(w.steps)
  /\ ConditionValid(w)

\* matrixCombos: one entry per choice of a position in each key's values, so
\* that a value written twice gives two combinations.
Combos(matrix) ==
  LET upTo[k \in 0..Len(matrix)] ==
        IF k = 0 THEN << <<>> >>
        ELSE FlattenSeq([i \in DOMAIN upTo[k - 1] |->
               [v \in DOMAIN matrix[k] |-> Append(upTo[k - 1][i], matrix[k][v])]])
  IN  upTo[Len(matrix)]

\* A written job with one of its combinations, <<>> where there is no matrix.
CopiesOf(w, j) ==
  LET combos == Combos(w.matrix[j])
  IN  [i \in DOMAIN combos |-> <<j, combos[i]>>]

Copies(w) == UNION {Range(CopiesOf(w, j)) : j \in JobsOf(w)}

\* The ID of a copy: the written one, or that with comboLabel's string behind it.
\* The string is as the file makes it: label may give two combinations one number,
\* or a combination that of a written job.
ComboId(w, copy) == IF copy[2] = <<>> THEN copy[1] ELSE w.label[copy]

ASSUME LabelsAssumption ==
  \A family \in Families : \A w \in family : \A copy \in Copies(w) : ComboId(w, copy) \in Nat

\* expanded[j], or j itself.
ExpandedIds(w, j) ==
  LET copies == CopiesOf(w, j)
  IN  [i \in DOMAIN copies |-> ComboId(w, copies[i])]

\* Only the first combination (seeded fault).
RewriteFirst(w, needs) == [i \in DOMAIN needs |-> ExpandedIds(w, needs[i])[1]]

Rewrite(w, needs) == FlattenSeq([i \in DOMAIN needs |-> ExpandedIds(w, needs[i])])

\* The first pass's loop over a map: the matrix jobs come in any order.
Visits(w) == SetToSeqs({j \in JobsOf(w) : IsMatrix(w, j)})

FirstPass(w, visit) == FlattenSeq([i \in DOMAIN visit |-> CopiesOf(w, visit[i])])

LastCopied(w, visit, id) ==
  LET pass == FirstPass(w, visit)
  IN  pass[Max({i \in DOMAIN pass : ComboId(w, pass[i]) = id})]

\* The expansions are copied last (seeded fault).
ExpansionStays(w, visit, id) ==
  IF id \in {ComboId(w, copy) : copy \in Range(FirstPass(w, visit))}
  THEN LastCopied(w, visit, id) ELSE <<id, <<>>>>

\* out.Jobs: of the copies with one ID the last one stays, and the jobs without a
\* matrix are copied last.
Stays(w, visit, id) ==
  IF id \in JobsOf(w) /\ ~IsMatrix(w, id) THEN <<id, <<>>>> ELSE LastCopied(w, visit, id)

Expansion(w, visit) ==
  [id \in {ComboId(w, copy) : copy \in Copies(w)} |-> Stays(w, visit, id)]

\* The needs of what ExpandMatrix returns, given where its jobs come from.
ExpandMatrix(w, from) == [id \in DOMAIN from |-> Rewrite(w, w.needs[from[id][1]])]

----------------------------------------------------------------------------

Accepted(family) == {w \in family : Valid(w)}

PlanInit ==
  /\ \E family \in Families :
       \/ call = "validate" /\ wf \in family /\ deps = wf.needs /\ origin = <<>>
       \/ /\ call = "run" /\ wf \in Accepted(family)
          /\ \E visit \in Visits(wf) : origin = Expansion(wf, visit)
          /\ deps = ExpandMatrix(wf, origin)
  /\ InitWalk

planVars == <<vars, wf, call, origin>>

PlanNext == Next /\ UNCHANGED <<wf, call, origin>>

PlanSpec == PlanInit /\ [][PlanNext]_planVars

----------------------------------------------------------------------------
(* Properties. *)

\* The IDs that stand for the written jobs of J.
IdsOf(J) == {ComboId(wf, copy) : copy \in {c \in Copies(wf) : c[1] \in J}}

\* No two written jobs come to the same ID; nor two combinations of one job.
\* Nothing in Validate sees to either: `a (k=1)` may also be a job's name, and
\* (x=1, y=2, y=3) the label of two combinations.
JobsApart(w) ==
  \A c, d \in Copies(w) : ComboId(w, c) = ComboId(w, d) => c[1] = d[1]

IdsApart(w) == \A c, d \in Copies(w) : ComboId(w, c) = ComboId(w, d) => c = d

\* Expansion commutes with dependency. While the jobs' IDs are apart, each job of
\* the outcome depends, directly or not, on every combination of every job that
\* its written job depends on, and on nothing else; and where those of the
\* combinations are, too, each of them is there, as itself.
FanOutExact ==
  call = "run" =>
    /\ JobsApart(wf) => \A id \in Nodes :
         Upstream(deps, id) = IdsOf(Upstream(wf.needs, origin[id][1]))
    /\ IdsApart(wf) => \A copy \in Copies(wf) :
         ComboId(wf, copy) \in Nodes /\ origin[ComboId(wf, copy)] = copy

\* What Validate established survives matrix expansion: while the jobs' IDs are
\* apart no cycle appears, so that Build "cannot fail" (engine.go:55-56; a job
\* `a (k=1)` that needs the matrix job a makes it fail); and whatever the IDs are,
\* the directory a job is seeded from is still that of one job, the one the file
\* names, which is among its needs and has finished.
ExpansionStaysValid ==
  call = "run" =>
    /\ JobsApart(wf) => pc # "cycle"
    /\ \A id \in Nodes :
         LET p == wf.inherit[origin[id][1]]
         IN  p # NoJob => p \in NeedSet(deps, id) /\ origin[p] = <<p, <<>>>>

\* The reference for a chain: step i of the written list runs if no step of its
\* chain before it had a true condition and its own, if it has one, is true.
Branch(kinds, i) == {k \in 1..i-1 : \A h \in k+1..i : kinds[h] \in {"elif", "else"}}

ReferenceRuns(kinds, truth) ==
  {i \in DOMAIN kinds :
     \/ kinds[i] \in {"run", "call"}
     \/ /\ kinds[i] \in {"if", "elif"} => truth[i]
        /\ kinds[i] \in {"elif", "else"} => \A k \in Branch(kinds, i) : ~truth[k]}

\* Where step i of the written list starts among the inlined ones.
Place(steps, i) == 1 + Len(ExpandCalls(SubSeq(steps, 1, i - 1)))

\* Of each chain of an accepted workflow at most one branch runs, the first
\* whose condition holds, else the else; a call runs whatever stands around it,
\* and its body neither sees nor disturbs the chains of its caller.
ChainsExact ==
  call = "run" =>
    LET inlined == ExpandCalls(wf.steps)
    IN  \A truth \in [DOMAIN inlined -> BOOLEAN] :
          LET ran     == Executed(inlined, truth)
              written == [i \in DOMAIN wf.steps |-> truth[Place(wf.steps, i)]]
          IN  \A i \in DOMAIN wf.steps :
                LET first == Place(wf.steps, i)
                    body  == Inlined(wf.steps[i])
                    inner == [k \in DOMAIN body |-> truth[first + k - 1]]
                IN  IF wf.steps[i].kind = "call"
                    THEN {k \in DOMAIN body : first + k - 1 \in ran} = ReferenceRuns(body, inner)
                    ELSE first \in ran <=> i \in ReferenceRuns(Kinds(wf.steps), written)

\* A condition is accepted exactly when the grammar derives it, and then in
\* every environment the job runs exactly if that derivation, and there is only
\* one, makes the condition true: runOne cannot meet a condition it must refuse.
ConditionExact ==
  wf.when # NoCondition /\ pc = "sort" /\ order = <<>> =>
    /\ call = "validate" => (Check(wf.when) <=> Meanings(wf.when, <<>>) # {})
    /\ call = "run" => \A env \in Environments : Meanings(wf.when, env) = {JobRuns(wf, env)}
=============================================================================
