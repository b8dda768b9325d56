------------------------------- MODULE Engine -------------------------------
(***************************************************************************)
(* internal/engine: one `latchet` run.  Run sets up the workspace and the  *)
(* logs, hands every job to the scheduler and, when that returns, decides  *)
(* the exit code, attests the artifacts and disposes of the workspace.     *)
(* runOne and runJob execute concurrently for the jobs in flight: each     *)
(* takes a job through its stages, one action per operation that other     *)
(* jobs or a failure can come between.                                     *)
(*                                                                         *)
(* The scheduler is used through its contract: the steps here that touch   *)
(* phase, aborted and over are steps of JobRun, which Scheduler implements.*)
(* With the first infrastructure error (aborted) the context is cancelled: *)
(* the runtime commands in progress are killed and new ones do not start.  *)
(***************************************************************************)
EXTENDS JobGraph

CONSTANTS
  Jobs, Images, NoJob,
  NoOuts,       \* a job that has exported nothing yet
  Workflows,    \* the validated workflows a run may be given
  NameChars,    \* the characters docker and podman accept in a name
  Underscore,   \* one of them
  Steps,        \* bound: steps of each job
  Ignorable     \* bound: failures of a run whose errors the code drops

ASSUME EngineAssumption ==
  /\ NoJob \notin Jobs /\ Steps \in Nat /\ Ignorable \in Nat /\ Underscore \in NameChars
  /\ \A marks \in SUBSET (Jobs \X (1..Steps)) : marks # NoOuts
  /\ \A w \in Workflows :
       /\ w.slots \in Nat \ {0} /\ w.needs \in [Jobs -> Seq(Jobs)] /\ Acyclic(w.needs)
       /\ w.image \in [Jobs -> Images]
       /\ \A j \in Jobs :
            /\ w.inherit[j] # NoJob => w.inherit[j] \in NeedSet(w.needs, j)
            /\ w.id[j] \in Seq({w.id[j][i] : i \in DOMAIN w.id[j]})

VARIABLES
  wf,                     \* needs, inherit, image and id of each job; MaxParallel
  phase, aborted, over,   \* the scheduler, see JobRun
  job,                    \* each job's RunJob call
  tree,                   \* each job's directory: its files and its $LATCHET_ENV
  outs,                   \* jobOutputs
  image,                  \* imageCache: its sync.Once and its error
  containers,             \* the names of the containers that exist
  place,                  \* where Run is
  exit,                   \* its exit code
  root,                   \* the run directory
  pulls,                  \* history: pull attempts of each image
  infra,                  \* history: a runtime or workspace operation failed
  ignored                 \* history: <<job, operation>> whose error the code drops

scheduling == <<phase, aborted, over>>
running == <<place, exit, root>>
vars == <<wf, scheduling, job, tree, outs, image, containers, running, pulls, infra, ignored>>

Sched == INSTANCE JobRun WITH needs <- wf.needs, slots <- wf.slots

\* What a job's steps leave behind: a file, and perhaps an output, per step.
Marks(j) == {j} \X (1..Steps)

Init ==
  /\ wf \in Workflows
  /\ Sched!Init
  /\ job = [j \in Jobs |-> [stage |-> "idle", step |-> 0, seen |-> <<>>,
                            outputs |-> {}, result |-> "none"]]
  /\ tree = [j \in Jobs |-> [files |-> {}, env |-> {}]]
  /\ outs = [j \in Jobs |-> NoOuts]
  /\ image = [i \in Images |-> [once |-> "new", err |-> FALSE]]
  /\ containers = {}
  /\ place = "setup"
  /\ exit = 0
  /\ root = "none"
  /\ pulls = [i \in Images |-> 0]
  /\ infra = FALSE
  /\ ignored = {}

\* The ID reaches the runtime as it is (seeded fault).
RawName(j) == wf.id[j]

\* containerName: what is not acceptable becomes an underscore.
ContainerName(j) ==
  [i \in DOMAIN wf.id[j] |-> IF wf.id[j][i] \in NameChars THEN wf.id[j][i] ELSE Underscore]

----------------------------------------------------------------------------
(* The run before its jobs. *)

\* Loading and validating, finding the runtime, creating the run directory and
\* then the log directory; each may fail.
Setup ==
  /\ place = "setup"
  /\ \/ place' = "jobs" /\ root' = "made" /\ UNCHANGED <<exit, infra>>
     \/ place' = "exited" /\ exit' = 2 /\ UNCHANGED <<root, infra>>
     \/ place' = "exited" /\ exit' = 3 /\ infra' = TRUE /\ root' \in {"none", "made"}
  /\ UNCHANGED <<wf, scheduling, job, tree, outs, image, containers, pulls, ignored>>

----------------------------------------------------------------------------
(* A job: runOne and runJob. *)

At(j, stage) == job[j].stage = stage
Go(j, stage) == job' = [job EXCEPT ![j].stage = stage]
Ends(j, stage, result) == job' = [job EXCEPT ![j].stage = stage, ![j].result = result]

\* An operation fails and the call returns the error.
Fails(j) == Ends(j, "returned", "error") /\ infra' = TRUE

\* The error is dropped (engine.go:457, 464, 506).
Ignores(j, operation) ==
  /\ Cardinality(ignored) < Ignorable
  /\ ignored' = ignored \cup {<<j, operation>>}

Launch(j) ==
  /\ place = "jobs"
  /\ UNCHANGED <<wf, tree, outs, image, containers, running, pulls, infra, ignored>>
  /\ Sched!Start(j)
  /\ Go(j, "begin")

NeedsEnv(j) == [n \in NeedSet(wf.needs, j) |-> outs[n]]

\* The needs' outputs, the job's own condition, its log file, its directory.
Begin(j) ==
  /\ At(j, "begin")
  /\ \/ /\ job' = [job EXCEPT ![j].stage = "seed", ![j].seen = NeedsEnv(j)]
        /\ UNCHANGED infra
     \/ Ends(j, "returned", "skipped") /\ UNCHANGED infra
     \/ Fails(j)
  /\ UNCHANGED <<wf, scheduling, tree, outs, image, containers, running, pulls, ignored>>

\* Only what the parent itself wrote (seeded fault).
SeedOwnFiles(p) == [tree[p] EXCEPT !.files = @ \cap Marks(p)]

\* Seed copies everything, .latchet/env with it.
SeedTree(p) == tree[p]

Seed(j) ==
  /\ At(j, "seed")
  /\ LET p == wf.inherit[j]
     IN  \/ /\ Go(j, "ensure")
            /\ tree' = IF p = NoJob THEN tree ELSE [tree EXCEPT ![j] = SeedTree(p)]
            /\ UNCHANGED infra
         \/ p # NoJob /\ Fails(j) /\ UNCHANGED tree
  /\ UNCHANGED <<wf, scheduling, outs, image, containers, running, pulls, ignored>>

\* A caller that finds the pull under way does not wait for it (seeded fault).
PassesUnfinished(j) == image[wf.image[j]].once # "new"

\* sync.Once: the callers after the first wait until its function returned.
Passes(j) == image[wf.image[j]].once = "done"

Ensure(j) ==
  /\ At(j, "ensure")
  /\ LET i == wf.image[j]
     IN  \/ /\ image[i].once = "new"
            /\ image' = [image EXCEPT ![i].once = "busy"]
            /\ Go(j, "pull")
            /\ UNCHANGED infra
         \/ /\ Passes(j)
            /\ IF image[i].err THEN Fails(j) ELSE Go(j, "create") /\ UNCHANGED infra
            /\ UNCHANGED image
  /\ UNCHANGED <<wf, scheduling, tree, outs, containers, running, pulls, ignored>>

\* A failed pull leaves the others waiting (seeded fault).
PulledOrStuck(i, ok) == [once |-> IF ok THEN "done" ELSE "busy", err |-> ~ok]
Pulled(i, ok) == [once |-> "done", err |-> ~ok]

Pull(j) ==
  /\ At(j, "pull")
  /\ LET i == wf.image[j]
     IN  \E ok \in BOOLEAN :
           /\ ok => ~aborted
           /\ image' = [image EXCEPT ![i] = Pulled(i, ok)]
           /\ pulls' = [pulls EXCEPT ![i] = @ + 1]
           /\ IF ok THEN Go(j, "create") /\ UNCHANGED infra ELSE Fails(j)
  /\ UNCHANGED <<wf, scheduling, tree, outs, containers, running, ignored>>

\* `docker create`: refuses a name in use; may fail, or be killed with the
\* context, before or after the container exists.
Create(j) ==
  /\ At(j, "create")
  /\ LET free == ContainerName(j) \notin containers
     IN  \/ /\ free /\ ~aborted
            /\ containers' = containers \cup {ContainerName(j)}
            /\ Go(j, "start") /\ UNCHANGED infra
         \/ /\ Fails(j)
            /\ \/ UNCHANGED containers
               \/ free /\ aborted /\ containers' = containers \cup {ContainerName(j)}
  /\ UNCHANGED <<wf, scheduling, tree, outs, image, running, pulls, ignored>>

\* `docker start`: on failure Create returns and no Remove is deferred yet.
Start(j) ==
  /\ At(j, "start")
  /\ \/ ~aborted /\ Go(j, "meta") /\ UNCHANGED infra
     \/ Fails(j)
  /\ UNCHANGED <<wf, scheduling, tree, outs, image, containers, running, pulls, ignored>>

\* The inherited outputs stay (seeded fault).
KeepsMeta(t) == t
ClearsMeta(t) == [t EXCEPT !.env = {}]

\* RemoveAll of .latchet may fail and is ignored; MkdirAll may fail.
Meta(j) ==
  /\ At(j, "meta")
  /\ \/ tree' = [tree EXCEPT ![j] = ClearsMeta(@)] /\ UNCHANGED ignored
     \/ tree[j].env # {} /\ Ignores(j, "clear") /\ UNCHANGED tree
  /\ \/ job' = [job EXCEPT ![j].stage = "steps", ![j].step = 1] /\ UNCHANGED infra
     \/ Ends(j, "remove", "error") /\ infra' = TRUE
  /\ UNCHANGED <<wf, scheduling, outs, image, containers, running, pulls>>

----------------------------------------------------------------------------
(* The steps of a job. *)

Stepping(j) == At(j, "steps") /\ job[j].step <= Steps

\* The step's file, and what it appends to $LATCHET_ENV.
Leaves(j, sets) ==
  LET mark == <<j, job[j].step>>
  IN  tree' = [tree EXCEPT ![j] = [files |-> @.files \cup {mark},
                                   env |-> @.env \cup IF sets THEN {mark} ELSE {}]]

SkipStep(j) ==
  /\ Stepping(j)
  /\ job' = [job EXCEPT ![j].step = @ + 1]
  /\ UNCHANGED <<wf, scheduling, tree, outs, image, containers, running, pulls, infra, ignored>>

\* That $LATCHET_ENV cannot be read is only logged.
ExecSucceeds(j) ==
  /\ Stepping(j) /\ ~aborted
  /\ \E sets \in BOOLEAN : Leaves(j, sets)
  /\ \E read \in {tree'[j].env, {}} :
       /\ job' = [job EXCEPT ![j].step = @ + 1, ![j].outputs = @ \cup read]
       /\ IF read = tree'[j].env THEN UNCHANGED ignored ELSE Ignores(j, "read")
  /\ UNCHANGED <<wf, scheduling, outs, image, containers, running, pulls, infra>>

\* A non-zero exit: the script's own, a command killed with the context, or
\* the runtime's when it could not run the step (its container is gone, the
\* daemon does not answer).
ExecExits(j) ==
  /\ Stepping(j)
  /\ Ends(j, "remove", "failed")
  /\ \/ Leaves(j, FALSE) /\ UNCHANGED infra
     \/ infra' = TRUE /\ UNCHANGED tree
  /\ UNCHANGED <<wf, scheduling, outs, image, containers, running, pulls, ignored>>

\* The runtime's command cannot be started.
ExecErrs(j) ==
  /\ Stepping(j)
  /\ Ends(j, "remove", "error") /\ infra' = TRUE
  /\ UNCHANGED <<wf, scheduling, tree, outs, image, containers, running, pulls, ignored>>

EndSteps(j) ==
  /\ At(j, "steps") /\ ~Stepping(j)
  /\ Ends(j, "remove", "success")
  /\ UNCHANGED <<wf, scheduling, tree, outs, image, containers, running, pulls, infra, ignored>>

\* Only a successful job's container (seeded fault).
RemovesSuccessful(j) ==
  containers \ IF job[j].result = "success" THEN {ContainerName(j)} ELSE {}
Removes(j) == containers \ {ContainerName(j)}

\* The deferred rt.Remove, whatever the result; `docker rm -f` may fail.
Remove(j) ==
  /\ At(j, "remove")
  /\ \/ containers' = Removes(j) /\ UNCHANGED ignored
     \/ Ignores(j, "remove") /\ UNCHANGED containers
  /\ Go(j, "publish")
  /\ UNCHANGED <<wf, scheduling, tree, outs, image, running, pulls, infra>>

\* Forgets the outputs (seeded fault).
Unpublished(j) == outs

\* outs.set, for a success.
Published(j) ==
  IF job[j].result = "success" THEN [outs EXCEPT ![j] = job[j].outputs] ELSE outs

Publish(j) ==
  /\ At(j, "publish")
  /\ outs' = Published(j)
  /\ Go(j, "returned")
  /\ UNCHANGED <<wf, scheduling, tree, image, containers, running, pulls, infra, ignored>>

\* The scheduler receives the result before the job cleaned up (seeded fault).
ReturnsEarly(j) == job[j].stage \in {"remove", "returned"}
Returns(j) == At(j, "returned")

\* The scheduler receives the result.
Deliver(j) ==
  /\ Returns(j) /\ phase[j] = "running"
  /\ UNCHANGED <<wf, job, tree, outs, image, containers, running, pulls, infra, ignored>>
  /\ IF job[j].result = "error" THEN Sched!Abort(j)
     ELSE Sched!Finish(j) /\ phase'[j] = job[j].result

PassOver(j) ==
  /\ place = "jobs"
  /\ UNCHANGED <<wf, job, tree, outs, image, containers, running, pulls, infra, ignored>>
  /\ Sched!PassOver(j)

----------------------------------------------------------------------------
(* The run after its jobs. *)

SchedulerReturns ==
  /\ place = "jobs"
  /\ UNCHANGED <<wf, job, tree, outs, image, containers, running, pulls, infra, ignored>>
  /\ Sched!Return

\* Only a run of failures fails (seeded fault).
ExitUnlessAllFailed == IF \A j \in Jobs : phase[j] = "failed" THEN 1 ELSE 0
ExitCode == IF \E j \in Jobs : phase[j] = "failed" THEN 1 ELSE 0

\* An infrastructure error ends the run at once, the workspace kept.
Conclude ==
  /\ place = "jobs" /\ over
  /\ IF aborted THEN place' = "exited" /\ exit' = 3 /\ root' = "kept"
     ELSE place' = "attest" /\ exit' = ExitCode /\ UNCHANGED root
  /\ UNCHANGED <<wf, scheduling, job, tree, outs, image, containers, pulls, infra, ignored>>

\* emitProvenance hashes every job's tree, then Cleanup.
Attest ==
  /\ place = "attest"
  /\ place' = "cleanup"
  /\ UNCHANGED <<wf, scheduling, job, tree, outs, image, containers, exit, root, pulls, infra, ignored>>

\* LATCHET_KEEP_WORKSPACE=1 keeps it after a success, too.
Cleanup ==
  /\ place = "cleanup"
  /\ place' = "exited"
  /\ root' \in IF exit = 0 THEN {"removed", "kept"} ELSE {"kept"}
  /\ UNCHANGED <<wf, scheduling, job, tree, outs, image, containers, exit, pulls, infra, ignored>>

JobStep(j) ==
  \/ Begin(j) \/ Seed(j) \/ Ensure(j) \/ Pull(j) \/ Create(j) \/ Start(j) \/ Meta(j)
  \/ SkipStep(j) \/ ExecSucceeds(j) \/ ExecExits(j) \/ ExecErrs(j) \/ EndSteps(j)
  \/ Remove(j) \/ Publish(j)

Next ==
  \/ Setup \/ SchedulerReturns \/ Conclude \/ Attest \/ Cleanup
  \/ \E j \in Jobs : Launch(j) \/ JobStep(j) \/ Deliver(j) \/ PassOver(j)

Spec == Init /\ [][Next]_vars

\* The goroutines are scheduled, the runtime's commands return, the steps end.
FairSpec ==
  /\ Spec
  /\ WF_vars(Setup) /\ WF_vars(SchedulerReturns) /\ WF_vars(Conclude)
  /\ WF_vars(Attest) /\ WF_vars(Cleanup)
  /\ \A j \in Jobs : WF_vars(Launch(j)) /\ WF_vars(JobStep(j))
                     /\ WF_vars(Deliver(j)) /\ WF_vars(PassOver(j))

----------------------------------------------------------------------------
(* Properties. *)

Stages == {"idle", "begin", "seed", "ensure", "pull", "create", "start", "meta",
           "steps", "remove", "publish", "returned"}
AllMarks == UNION {Marks(j) : j \in Jobs}

\* Also: the runtime is given only names it accepts.
TypeOK ==
  /\ \A j \in Jobs :
       /\ job[j].stage \in Stages
       /\ job[j].step \in 0..(Steps + 1)
       /\ job[j].result \in {"none", "success", "failed", "skipped", "error"}
       /\ job[j].outputs \subseteq AllMarks
       /\ tree[j].files \subseteq AllMarks /\ tree[j].env \subseteq AllMarks
  /\ \A c \in containers : c \in Seq(NameChars)
  /\ place \in {"setup", "jobs", "attest", "cleanup", "exited"}
  /\ exit \in 0..3
  /\ root \in {"none", "made", "kept", "removed"}

\* Stages in which a job holds a container.
InContainer(j) == job[j].stage \in {"meta", "steps", "remove"}

\* A dependent reads the outputs of all its needs, each complete and as it
\* stays: jobOutputs is written in runOne before the scheduler can count the
\* need as done, however the jobs of a wave interleave.
SeesNeedsOutputs ==
  \A j \in Jobs : job[j].stage \notin {"idle", "begin"} /\ job[j].result # "skipped" =>
    \A n \in DOMAIN job[j].seen : job[j].seen[n] = outs[n] /\ outs[n] # NoOuts

\* A job with inherit: starts its steps from the parent's whole final tree,
\* what the parent itself inherited included, and no later job disturbs it.
SeedsWholeParent ==
  \A j \in Jobs : wf.inherit[j] # NoJob /\ InContainer(j) =>
    /\ tree[wf.inherit[j]].files \subseteq tree[j].files
    /\ job[wf.inherit[j]].result = "success"

\* What a job exports was set by its own steps: an output a parent left in the
\* tree it handed down is not exported again, unless the removal of the job's
\* .latchet failed.
OwnOutputsOnly ==
  \A j \in Jobs : outs[j] # NoOuts => outs[j] \subseteq Marks(j) \/ <<j, "clear">> \in ignored

\* However many jobs ask for an image, it is pulled at most once, and no job
\* goes on to its container before the pull succeeded.
ImageReady ==
  /\ \A i \in Images : pulls[i] <= 1
  /\ \A j \in Jobs : InContainer(j) \/ At(j, "create") \/ At(j, "start") =>
       image[wf.image[j]].once = "done" /\ ~image[wf.image[j]].err

\* A container whose removal was tried and failed.
Stuck(c) == \E j \in Jobs : c = ContainerName(j) /\ <<j, "remove">> \in ignored

\* A container exists only for a job that is using it, or whose create or start
\* failed, or whose removal was tried and failed: for a container that ran a step
\* the removal was tried before its job returned, whatever the steps and the
\* other jobs did, and nothing but its failure leaves it behind.
StartedContainersRemoved ==
  \A c \in containers :
    \/ Stuck(c)
    \/ \E j \in Jobs :
         /\ c = ContainerName(j)
         /\ \/ InContainer(j) \/ At(j, "start")
            \/ At(j, "returned") /\ job[j].result = "error" /\ job[j].step = 0

\* When the trees are hashed and then removed, no job is still at work in one,
\* and no container has one mounted but where its removal was tried and failed:
\* of a run that gets there, every create and start succeeded.
AttestsSettledTrees ==
  place \in {"attest", "cleanup"} =>
    /\ \A c \in containers : Stuck(c)
    /\ \A j \in Jobs : job[j].stage \in {"idle", "returned"}

\* The exit code of a run that got as far as its jobs: 0 only if no job failed,
\* 1 only if one did, 3 exactly if an error aborted it; a job that did not run in
\* a run that exits 0 was skipped by a condition; and the workspace is removed
\* only after a success.
ExitTells ==
  place = "exited" /\ over =>
    /\ exit = 3 <=> aborted
    /\ exit = 1 <=> ~aborted /\ \E j \in Jobs : phase[j] = "failed"
    /\ root = "removed" => exit = 0 /\ ~infra
    /\ exit = 0 => \A j \in Jobs :
         \/ phase[j] = "success" \/ job[j].result = "skipped"
         \/ At(j, "idle") /\ \E n \in NeedSet(wf.needs, j) : phase[n] = "skipped"

\* Every run ends: no job waits forever for an image another one pulls, nor
\* the run for a job, after errors and cancellations, too.
RunExits == <>(place = "exited")

\* README.md:69 (exit code 3: "a container/runtime/workspace operation failed").
InfraFailuresExit3 == place = "exited" /\ infra => exit = 3

\* runtime.go:194-195: Remove takes no context "so cleanup still runs after the
\* run's context is cancelled": it leaves nothing unless it fails itself.
NoContainerLeft == place = "exited" => \A c \in containers : Stuck(c)

\* docs/design.md:95: the workspace is "Removed on success; kept on failure with
\* the path printed".
WorkspaceAccounted == place = "exited" => root # "made"

\* engine.go:334-335, "distinct job IDs stay distinct": no job asks for a
\* container under a name that another job's container has.
NamesFree == \A j \in Jobs : At(j, "create") => ContainerName(j) \notin containers
=============================================================================
