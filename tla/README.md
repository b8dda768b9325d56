# A TLA+ verification of latchet

latchet runs a workflow file (`latchet.yml`): jobs with `needs:`, each a list of
steps executed in one container, scheduled concurrently, with optional matrix
expansion, shared functions and keys, outputs, caches, secrets, provenance, a
`verify` command that replays a run, and a `watch` command that runs workflows
when a remote repository changes. This directory models the parts of it whose
correctness depends on order, concurrency, failure or persistence, checks them
with TLC on small instances, and proves the central results with TLAPS.

## 1. Inventory

Each component with its state, its operations, what it talks to, and what makes
it correct. "Hard" names the behaviour a test would hardly reach.

| Component | Source | State and operations | Correct when |
|---|---|---|---|
| CLI | `cmd/latchet/main.go` | none; parses flags, calls engine, watch or verify, returns their exit code | exit code is the component's |
| Engine | `internal/engine/engine.go`, `options.go` | one run: graph, workspace, log store, image cache, job outputs; `Run`, `runOne`, `runJob` (one container per job), exit code | a job sees its needs' outputs; the removal of every container that ran a step is tried before its job returns; exit 3 exactly for infrastructure errors |
| Scheduler | `internal/scheduler` | working in-degrees, ready queue, semaphore and completion channels, results; one controller goroutine, one goroutine per job | needs before dependents, bounded concurrency, every job accounted for, first error wins, the run returns. Hard: interleavings of completions, sends and slot releases; errors while others run |
| DAG | `internal/dag` | `Build` (Kahn), `Waves`; pure | topological, deterministic order; cycles refused |
| Image cache | `internal/engine/imagecache.go` | one `sync.Once` per image, error and digest per image; called by concurrent jobs | one pull per image per run, every caller of a failed image fails. Hard: racing callers, cancelled pulls |
| Runtime | `internal/runtime` | the container engine's command line (external); create+start, exec, remove, image operations | no container left behind. Hard: failure between create and start, cancellation, a removal that fails |
| Workspace | `internal/workspace` | run directory, one directory per job, caches; `Seed` copies a parent's tree | a child sees its parent's finished tree, siblings do not disturb each other |
| Log store | `internal/logstore` | run directory per run, one file per job, `latest` symlink | each run's logs are its own; `latest` names a recent run. Hard: removing and making the link are two operations, both allowed to fail |
| Masking | `internal/mask` | stream buffer held back between writes | no secret value reaches the log, however the output is chunked |
| Conditions | `internal/cond` | pure: `if:` expressions, checked when the file is loaded and evaluated per job and step | what is accepted has one meaning, and it is the grammar's |
| Environment | `internal/builtinenv`, `internal/envutil` | pure: derived variables, merging | same value in every job |
| Steps | `internal/config` (`functions.go`), `engine.stepShouldRun` | if/elif/else chains over steps, function calls expanded with their own chain | exactly the first true branch of a chain runs |
| Config and matrix | `internal/config` | pure: load, validate, matrix expansion | dependents of a matrix job wait for all its combinations. Hard: IDs made of labels, which may collide |
| Keys | `internal/keys` | pinned shared files: a cache directory shared by processes; fetch by clone into a temporary directory and rename | a cached tree is complete and of the pinned commit. Hard: concurrent fetches, crashes |
| Watch | `internal/watch` | a state file of the refs last seen; one pass: list remote, decide, fire, save | each change fires, once. Hard: crash between fire and save, overlapping passes, refs that move, overlapping patterns |
| Provenance | `internal/provenance`, `engine/provenance.go`, `signer` | statement over the hashes of all job trees, redaction, optional signature | the statement lists the run's artifacts and no secret |
| Verify | `internal/engine/verify.go` | replays a manifest: signature, pins, run, comparison; exit decision | 0 exactly when the replay reproduces the recorded subjects |
| Global config, logging, version | `internal/globalconfig`, `internal/log`, `internal/version` | none of their own at run time | - |

Interaction: `main` calls `engine.Run`, which expands the matrix, builds the
graph, creates workspace and log store, and calls `scheduler.Run` with a
`RunJob` callback (`runOne`) that concurrent goroutines execute; `runOne` uses
the image cache (a mutex and `sync.Once`), the runtime (a child process per
operation), the workspace (files) and the outputs map (a mutex).  After the
scheduler returns, `engine.Run` alone computes the exit code, writes the
provenance and removes the workspace. `watch` calls `engine.Run` in sequence,
once per fired change, in a fresh clone. Processes share the key cache, the
cache volumes, the log root with its `latest` link and the watch state file.

## 2. The modules

| Module | Models | Extends |
|---|---|---|
| `JobGraph` | the operators on dependency maps: needs, in-degrees, `advance`'s decrements, acyclicity, the reference order | - |
| `JobRun` | what `scheduler.Run` promises: jobs go from pending to running to a result, or are passed over; an error aborts; Run returns when nothing runs | - |
| `Scheduler` | `scheduler.Run` at the granularity of its channel operations | `JobGraph`, instantiates `JobRun` |
| `Dag` | `dag.Build`, the cycle report, `dag.Waves`, one step per turn of each loop | `JobGraph` |
| `Cond` | the conditions of `if:`: the parser that `Check` and `Eval` share, over tokens | - |
| `Plan` | from workflow to plan: `Validate`, `ExpandMatrix`, both calls of `Build`, `ExpandCalls`, `stepShouldRun`, a job's condition | `Dag`, `Cond` |
| `Engine` | one `latchet` run: `Run`, `runOne`, `runJob`, the image cache, containers, trees, outputs, exit code | `JobGraph`, composes `JobRun` |
| `Verify` | two processes and the time between: a run that writes `provenance.json`, a `latchet verify` that replays it, and a world that moves | `JobGraph` |
| `Watch` | the passes of `latchet watch` over the shared state file, and the remotes | - |
| `KeyCache` | `keys.ResolveAll` by processes that share the cache directory, against a repository whose refs move | - |
| `Masking` | `mask.writer`: what it holds back and lets through, and masking as a whole | - |
| `Host` | the processes of one host from their keys to their logs: key cache, log directory with `latest`, masked output, kills | `KeyCache`, `Masking` |
| `MC...` | the instances TLC checks | one of the above |
| `JobGraph_proofs` | lemmas about `JobGraph`; its recursive functions (orders, what is upstream) unfolded | `TLAPS` |
| `SchedulerTheorems` | the inductive invariant of the scheduler, the theorems about it, and the refinement of `JobRun` | `Scheduler`, `JobGraph_proofs` |
| `DagTheorems` | the inductive invariant of `Build` and `Waves`, and the theorems about them | `Dag`, `JobGraph_proofs` |
| `PlanTheorems` | what expansion makes of an accepted workflow and which of its steps run, and the theorems | `Plan`, `DagTheorems` |
| `HostTheorems` | the invariants of key cache, `latest` link and mask, and the theorems about them | `Host`, `TLAPS` |
| `EngineTheorems` | the inductive invariant of a run, the theorems about it, and that it follows the scheduler's contract | `Engine`, `TLAPS` |
| `WatchTheorems` | what a pass knows and what fires are due, and the theorems about them | `Watch`, `TLAPS` |
| `VerifyTheorems` | the inductive invariant of a run and its replay, and what a manifest and a verdict mean | `Verify`, `TLAPS` |

How state and actions correspond to the code:

* **Scheduler.** `indeg`, `ready`, `inFlight`, `results`, `infraErr` are the
  locals of `Run`; `sem` counts the tokens in its semaphore channel, `done` is
  the completion channel, with its capacity. `pc` says where the controller
  goroutine is, `worker` where each job's goroutine is. `SkipNext`,
  `LaunchNext`, `EndDispatch` are the dispatch loop, `Receive` the receive with
  everything up to the loop's next test, `Backfill` the loop after the drain;
  `Complete` is the end of `RunJob` and the send, `Release` the deferred
  give-back of the slot. `maxParallel` is the option, chosen from `MaxChoices`
  and never written. `skipCalls` is history. The parent context is
  `context.Background()` (engine.go:105), so only the scheduler cancels.
* **Engine.** `phase`, `aborted`, `over` are the scheduler seen through
  `JobRun`; every step that touches them is a conjunction with a `JobRun`
  action, so the composition with the real scheduler is the proved refinement;
  the number of slots is the workflow's (`wf.slots`).
  `job[j].stage` is the next operation of job j's call of `RunJob`; each stage
  is one action that may fail on its own. `tree` is a job's directory: its
  files and its `$LATCHET_ENV`. `ignored` is history: the operations whose error
  the code drops (removing the container or `.latchet`, reading
  `$LATCHET_ENV`) and that failed, at most `Ignorable` of them.
* **Watch.** `file` is `state.json`; `pass[p]` holds a pass's locals. Saving is
  two actions, for `os.WriteFile` truncates and then writes. A pass may
  start while another is at work, as cron's do. `arrivals`, `attempts`, `faults`,
  `overlaps`, `moves` are history; `scene` fixes what a behaviour may contain
  and is never written. `FairSpec` only.
* **Verify.** `side["run"]` and `side["verify"]` are the two runs; the rest is
  what they read: workflow file, registry, local image store, key tags, git
  HEAD, clock. `disturbed` records what moved while a side was at work, so that
  a property can say "unless the file was edited during the run".
* **Plan.** A workflow is a record of `needs`, `inherit`, `matrix` and one job's
  `steps`. IDs are numbers whose order is that of the strings; `label` gives each
  combination its own, and may give one to two of them, or one a written job has, as
  the strings of `comboLabel` can. `origin` says of each job of the outcome which
  written job and combination it is: of the copies with one ID the last one.
  `PlanSpec` gives `Dag` the map that `Validate`, or later `Run`, gives `Build`.
  `Families` are sets of workflows, kept apart for TLC's sake only.
* **Cond.** Each parse method is an operator (`ParseOr`, `ParseAnd`, `ParseUnary`,
  `ParsePrimary`) of a position and of what the methods find at the later ones, and
  `ParserOf` the table that this recursion fills; a node is what it evaluates to and
  where it ends. `Meanings` is the grammar of the package comment, read span by
  span, and knows nothing of the parser.
* **KeyCache.** `call[p]` is a call of `ResolveAll`: its references, the one it is
  at, and the next operation (`pc`), each of which is one action: the lookup,
  clone, checkout, removal of `.git`, rename, load. `cached` is the directory,
  `temp` each process's `fetch-*`. `tags` and `branches` are the repository's,
  and `Push` moves them. `seen` is history.
* **Masking.** The output is a sequence of symbols; what the writer holds and
  what it let through are sequences of *positions* of it, so that two equal
  symbols are told apart and a property can ask which occurrence was shown.
* **Host.** `stage[p]` is where a process is between its keys and its end;
  `dirs` and `latest` are the log root. `os.Remove` and `os.Symlink` are two
  actions, as nothing locks them, and each may fail unnoticed. `before` and
  `ignored` (which of them failed) are history.

Definitions marked "(seeded fault)" are not part of the model: each is a
plausible wrong version of the definition that follows it, and shows that the
property it is paired with in `PROJECT.json` can fail.

## 3. The runs

| Run | Question | Bounds |
|---|---|---|
| `scheduler` | Are all safety, liveness and refinement properties of the scheduler kept under every interleaving, and does one-at-a-time execution follow `dag.Build`'s order exactly? | 4 jobs, 5 graphs, `MaxParallel` 2, and 0, which means 1 |
| `plan` | Is the plan right for every graph, expansion, step list and condition? | see below |
| `engine` | Do jobs see what they must, are containers, trees and the exit code right, does every run end? | 4 jobs, 2 images, 3 workflows, 1 and 2 slots, 1 step, 1 failure whose error is dropped |
| `engine_container_left` | (violated) "cleanup still runs after the run's context is cancelled" | as above |
| `engine_name_clash` | (violated) "distinct job IDs stay distinct" | 2 of the IDs differ in an unacceptable character |
| `verify` | What does a verdict mean, when must a replay succeed? | 2 jobs, 1 file each, 1 image, 2 digests, 1 key, 2 commits, 2 moves of the world |
| `verify_epoch` | (violated) `SOURCE_DATE_EPOCH` "stable across re-runs" | 1 move |
| `verify_effect_only` | (violated) a run without artifacts verifies | 1 move |
| `watch` | Does each change fire once, but for faults, and is none lost, also when passes overlap? | 1 branch, 2 tags, 2 configurations, 2 commits, 2 moves, 1 fault, one pass at a time; or 1 branch, 1 tag, 1 configuration, and 1 overlap besides |
| `watch_fires_twice` | (violated) "Fires exactly once per change" | two patterns that match one tag |
| `watch_torn_state` | (violated) changes "each fire exactly once" after a kill during the save | 1 fault |
| `host` | Is the key cache what it is said to be, does `latest` tell, is no secret shown, with processes that overlap and are killed? | 2 fetching processes and 1 push, 30 scenes; or 3 starting processes; or 1 output of 5 symbols with up to 2 of 6 secrets |

Why the bounds are enough to be of use:

* Four jobs and two slots make every relation of two jobs possible next to a
  third that runs and a fourth that waits; the graphs are the empty one, a chain
  against the alphabetical order, a diamond, needs lists that repeat a job, and
  two independent chains. The theorems hold for every graph, every number of
  jobs and every `MaxParallel`.
* `plan` takes *every* map over three jobs whose lists have at most two entries
  (self-needs and repetitions included), every map over four jobs with distinct
  needs, five graphs with every choice of five matrices per job (up to six
  expansions), of the parents and of the labels (all apart, or the first combination
  of the first job with the ID of another job, of another job's combination or of
  its own last one), every list of up to four steps (three,
  with calls of four bodies), and as a condition every list of up to five of
  eight tokens, valid or not, each valid one in five environments: that is long
  enough for a connective on either side of a comparison, of a negation and of
  a parenthesis.
* `engine`: three workflows in which jobs that run side by side share an image
  or do not, and trees are handed down over two generations. One step per job
  is enough for every failure point, as a job's steps only see each other
  through the tree and the outputs, which accumulate. Every operation may fail in
  every job; of those whose error is dropped (`Ignorable`) one per run, anywhere,
  for each property speaks of one job's tree or one container at a time; the
  theorems set no such bound.
* `verify`: digests and commits are only compared with each other, so they are
  symmetric, and two of each let something differ; two moves let the tag move
  and the host pull it in between. Workflows are a reproducible one, one whose
  steps read the clock, with a job that never runs, and one that may fail.
* `watch`: a ref's commits are only compared with each other, so every remote
  starts with commit `a` or with none; two moves let a change overtake a
  change, be undone, or recur. Every repeated fire and every missed change that
  needs more moves needs two moves of one ref. One overlap is two passes that
  read one file and save over each other; the lists and the third ref, which
  passes do not share, stay with the other scene.

* `host`: two processes that fetch the same commit meet at each place of
  `fetch`; the references are a tag (annotated, plain, missing), a branch, a
  commit on and off the tag's history, a tag object and a malformed one, alone
  and two in a call. Three processes are needed for the link: one removes it,
  one makes it, one was there before; either operation may fail in each of them. Five symbols hold a secret of three that
  is cut twice, next to another; the secrets of the six overlap themselves, each
  other, or contain each other, or do neither.

Deadlock is checked only where a system runs forever (`watch`); the others end.

## 4. Properties and hazards

`PROJECT.json` lists the hazards of this code by line, with the properties that
would catch each going wrong. The central ones:

* *Scheduler*: `NeedsSucceeded`, `SlotWaitIsBrief` (the controller blocks on a
  full semaphore where it does not receive: it must then wait only for a
  goroutine that has already sent), `NoEligibleJobWaits`, `ReturnedComplete`,
  `SkipExact`, `SequentialFollowsOrder`, `RunReturns`, `DrainReturns`,
  `ImplementsJobRun`, and, implied by it and proved, `ResultsFinal` and
  `NoLaunchAfterError`.
* *Plan, Dag and Cond*: `Deterministic`, `CyclesReported`, `WavesExact`;
  `FanOutExact` (expansion commutes with transitive dependency while the IDs of
  different jobs are apart, `JobsApart`, and every combination is there where no two
  copies share an ID, `IdsApart`), `ExpansionStaysValid` (engine.go:55: under
  `JobsApart` Build cannot fail on what Validate accepted; whatever the IDs are, an
  inherited directory is still that of the one job the file names), `ChainsExact` (chains
  are validated on the written steps and decided on the inlined ones),
  `ConditionExact` (the parser accepts what the grammar derives, and the
  derivation, which is unique, says whether the job runs).
* *Engine*: `SeesNeedsOutputs`, `SeedsWholeParent`, `OwnOutputsOnly`,
  `ImageReady`, `StartedContainersRemoved`, `AttestsSettledTrees`, `ExitTells`,
  `RunExits`.
* *Verify*: `ManifestFaithful`, `VerifiedMeans` (what exit code 0 says about the
  original run), `FailureHasCause`, `StrictReproduces` (a reproducible run
  verifies bit for bit although tags moved and images were pulled or pruned).
* *Watch*: `RefiresBounded` (each kill, failed save or overlap repeats a change
  at most once, although the later of two saves undoes the earlier),
  `FiresAreChanges`, `NoChangeSwallowed`, `TakenUpUnlessTorn`. They are properties
  of a list in which no two entries watch the same ref (`EntriesApart`) and, the
  first of them, no ref is mentioned twice in an entry (`MentionedOnce`):
  `Config.Validate` (globalconfig.go:99) forbids neither, and `watch_fires_twice`
  shows what becomes of the bound without the second. `MCWatch` assumes both of the
  lists the `watch` run takes, so TLC confirms them there.
* *Host*: `CacheHoldsPinned` (content-addressed, however many processes fetch
  and wherever they die), `CachedNeedsNoNetwork`, `ExitNamesCause` (a lost race,
  a half-made directory or another process's fetch never changes an exit code),
  `LatestTells` (what of the link survives its being removed and made in two
  steps whose errors are ignored: an older run's link stays only where an
  `os.Remove` failed, and it stays away only on account of a process between the two
  steps or of a failed `os.Symlink`, and then until a later run is ready), `NoSecretShown`, `MaskedAsWhole` (cutting the output into writes makes
  no difference, within the limits that the property names).

### Where the code and what is said of it differ

Six runs end in a violation; each checks one sentence of a doc or a comment.

1. `engine_container_left`: `Create` creates and starts; its removal is deferred
   only after both succeeded (engine.go:453-457), so a container whose start
   fails or is killed stays, although no removal failed: one was never tried.
   `StartedContainersRemoved` is what holds.
2. `engine_name_clash`: two job IDs that differ only in unacceptable characters
   get one container name (engine.go:346).
3. `watch_fires_twice`: a tag that matches two patterns of an entry is fired
   once for each (watch.go:98). With disjoint patterns `RefiresBounded` holds.
4. `watch_torn_state`: a pass killed between truncation and write leaves a state
   file that every later pass refuses (watch.go:298).
5. `verify_epoch`: a replay takes the time of the verification for
   `SOURCE_DATE_EPOCH` (verify.go:234), not the run's.
6. `verify_effect_only`: a run without artifacts attests its workflow file,
   which the comparison then reports as missing (verify.go:267).

Noted on the way, modelled but shown by no run: labels are not injective, and a
written job may have one's name, of which `Validate` says nothing. Then the copy made
last silently stays (matrix.go:48, 71): a matrix whose values hold `, y=` runs fewer
combinations than it has, and a written job `test (go=1)` takes the place of that
combination of `test`. If it needs `test` it comes to need itself, and `Build`
fails although engine.go:56 says that it cannot (the workflows of the `plan` run in which
`JobsApart` does not hold; the run's `FanOutExact` and `ExpansionStaysValid` claim
those parts for the others only). The error of `docker rm -f` is dropped
(engine.go:457): a container that ran steps may remain, and have a tree mounted while
that is hashed (`Stuck` in `StartedContainersRemoved` and `AttestsSettledTrees`); so
are that of removing `.latchet` (464), after which a job may export what an inherited
tree brought along (`OwnOutputsOnly`), and that of reading `$LATCHET_ENV` (506), which
loses outputs; the first two errors are printed nowhere. `os.Remove` and
`os.Symlink` of the `latest` link are best-effort by design (logstore.go:49-51). A
`key.yml` that cannot be read ends a run with 2, as a malformed one does
(fetch.go:144). A failed log directory leaves the
new run directory behind (engine.go:73; `WorkspaceAccounted`); the container
runtime's own exit codes are taken for the script's (runtime.go:189;
`InfraFailuresExit3`); with `--key` a manifest without a bundle is replayed with
no signature checked (verify.go:114), where README.md:274 has it checked first;
the workflow file is read twice, by `Run` and for its hash, and by `Verify` and
for its replay; the cycle report names the jobs that depend on a cycle, too,
where the comment at dag.go:15 speaks of those that participate in one
(`CyclesReported` states what is reported); when `git checkout` fails for want of
space the run exits 2, a bad pin, where fetch.go:18-20 has cache I/O exit 3
(`Checkout` has the outcome, and `ExitNamesCause` speaks of calls that met no
fault); a tag that moves between `ls-remote` and `clone` away from a commit that
then nothing holds is a bad pin, too; of a secret that contains another one and
is cut right after it the rest is shown, because the shorter one is replaced as
soon as it is complete (mask.go:82-86; `Tame` in `Masking` excludes just that
from `MaskedAsWhole`, while `NoSecretShown` holds without it).

## 5. Fairness

* *Scheduler*: weak fairness of the controller and of every `Release`, for the Go
  runtime schedules every goroutine that can run. A step may hang, so `RunJob`
  need not return - except once its context is cancelled, which kills the
  command: `WF(ctxDone /\ Finished(j))`. `DrainReturns` needs no more.
  `RunReturns` assumes in its own statement that every `RunJob` returns.
* *Engine*: weak fairness of every stage; as for `RunReturns`, steps end.
* *Watch*: cron starts pass after pass and some pass at work keeps going (weak,
  of all passes together: every single process need not be scheduled, for a
  behaviour has finitely many overlaps); a remote is
  reachable again and again, so a listing that is possible infinitely often
  succeeds at some time (strong, per entry). Without the latter nothing could
  be promised; pushes and faults have no fairness.
* `Verify`, `Plan` and `Host` state safety only: a fetch or a step may hang.

## 6. Proofs

### The scheduler

`tlapm` checks thirteen theorems about `Scheduler`, for every set of jobs, every
acyclic graph and every `MaxParallel`, from the assumptions the module names:
job IDs are numbers in alphabetical order and finitely many, the graph is acyclic
(`dag.Build` refused every other: that is `CyclesAreReported`), and
`MaxParallel` is an integer, zero and negative ones included.

`NeedsSucceeded` is not inductive: that a counter at zero means that all needs
succeeded depends on what the counter counts. The inductive invariant is

    IInv == TypeOK /\ Accounting /\ NeedsSucceeded

where `Accounting` says what everything stands for: `sem` is the number of
goroutines that are running or have sent but not released, `inFlight` the number
launched without a result, `done` holds exactly one completion for each of those
that sent, `indeg[j]` is the number of *entries* of j's list (not jobs: lists may
repeat) whose job has no result, and `ready` is what is idle, without a result
and at zero. `SchedulerTheorems` has one lemma per action; the step that carries
the weight is `AdvanceCounts`: recording a result and decrementing along the
dependents entries keeps the counters exact. `Bookkeeping` (why each job has the
result it has) is a second layer, inductive relative to `IInv`.

From these follow `TypeCorrect`, `StartsAfterNeeds`, `SlotWaits`,
`BoundedConcurrency`, `WorkConserved`, `SkipsExact` and the two action
properties. `ReturnsComplete` needs acyclicity: were a job left without a result
when nothing is in flight and nothing is ready, then so would be the one of
least rank among them, all of whose needs have results, which `Accounting`
puts into `ready`. `Refinement` proves that every step is a `JobRun` step or a
stutter, so what `Engine` assumes of the scheduler is proved of it.

`SequentialOrder` compares two computations of one order, the scheduler's, from
counters and results, and the reference's, from the graph alone. With one slot
nothing is in flight while jobs are dispatched, so what has been taken up is what
has a result (`TakenUp`), the queue is what is free after that, and taking its
smallest adds one place. After an error nothing is dispatched, and `Bookkeeping`
tells the jobs that were passed over from those that were taken up.

### The order, the plan and the steps

`DagTheorems` proves the three invariants of `Dag` for *every* map over finitely many
nodes: with cycles, with needs of oneself, with repeated entries. `IInv` says
what the counters count (`WalkInv`), what the end of the walk decided (`EndInv`)
and what a wave has behind it (`WavesInv`): a node is not in an earlier wave
because one of its needs was left, or in the last. That a refused map has a cycle
needs a cycle found: `CycleUpstream` takes, among the nodes with needs left, one
with the fewest nodes upstream, and if it is not upstream of itself, one of its
needs has fewer.

`PlanTheorems` proves the other four invariants of the `plan` run for every accepted
workflow: any number of jobs, needs with repetitions, parents, matrices of any size,
labels that may collide (`LabelsAssumption` only makes them IDs), lists of steps of any
length with calls of any bodies.

* `ExpansionOrigin`: in whatever order the matrix jobs are visited, each ID comes to one
  of the copies that have it, and a written job without a matrix keeps its own.
  `ExpansionIs`: the IDs of an expanded needs list are those of all combinations of the
  jobs it was written with; under `JobsApart` an ID tells its job (`IdsTellJob`). So a
  rank of the written jobs is one of the IDs (`ExpansionAcyclic`), for every job has at
  least one; with `ReportsCycles` that is `ExpansionIsValid`. Its second part needs
  neither: a parent has no matrix, so nothing can be copied over it.
  `ExpansionUpstream` maps one closure into the other, in both directions, and gives
  `FanOutIsExact`.
* `ChainDecides` says what the flag of `stepShouldRun` tells within a chain, and
  `ReferenceDecides` what the reference says, in the same words; `FlattenAt` says where
  a step is once calls are inlined. `OccurrenceAgrees` joins them: a chain that
  lies in the inlined list without a gap is decided as it was written. That there is
  no gap is what `validateSteps` guarantees, as a call closes a chain.
  `ChainsAreExact` follows.
* `ConditionsAreExact`: for every list of tokens and all values of the variables, the
  parser and the grammar say the same. The grammar takes a disjunction apart at
  its last `or`, the parser at its first one: `OrFirst` and `OrJoined` (and their
  `And` twins) lead from either to the other, by associativity and the length of the span.
  `ParserSound` then says that what a method finds is a meaning of the span it has
  passed, and `ParserReads` that it finds *every* meaning of a span that is not followed
  by a token which could continue it (`ReadsOr`: no `==`, `!=`, `&&`, `||`). At the end
  of the list nothing follows, so there is at most one meaning. `ParsersMatch`: whether
  and how far a list parses does not depend on the values, so what `Check` accepted,
  `Eval` can evaluate. All that is assumed of a condition is that it is a list.

The recursive functions of these modules (orders, closures, flattened lists, combinations,
the flag) are unfolded with the least counterexample instead of an induction: the set
of places at which an equation fails has no least element, so it is empty (`Recursion`
gives the function itself, `ParserExists` and `SpansExist` the two tables of `Cond`).

### The files that processes share

`HostTheorems` proves the six invariants of `Host`, the first four for every number of processes,
every list of references each of them resolves, every repository (names,
commits, histories, annotated tags) and every sequence of pushes, kills and
failures; the assumptions are that commits and tag objects are different things,
that an annotated tag peels to a commit, and that a reference by name has one of
the names. `StepsOfCache` first reduces a step of a host to a step of its cache.
The inductive invariant is

    IInv == CacheTypes /\ CacheInv /\ OfflineInv /\ ExitInv

* `CacheInv` makes `CacheHoldsPinned` inductive by saying what a temporary
  directory holds at each place of `fetch` (`TempAsFarAs`): after the checkout
  the commit's files, before the rename no `.git`. `CacheIsPinned` follows.
* `OfflineInv`: what was cached at the beginning still is (`CacheGrows`), and a
  call that comes to clone has missed in a cache that held at least that.
  `CachedIsOffline` follows.
* `ExitInv` follows a call through the time in which the repository stood still:
  the references behind it can be resolved, the pinned object is the one the
  reference names, and a clone brought all that is reachable. Then a checkout
  that fails refutes the reference in hand, and nothing that others put into the
  cache does (`ExitGrows`). `ExitsTell` follows.

`LatestIsRecent` has an invariant of its own, `LogInv`: a run makes its directory
before it removes the link and is not ready before it made it, so that once it
is past a removal that did not fail no run that was ready before it can become the
link's. `Missed(p)` is what may keep the link away: p is between the two steps, or its
`os.Symlink` failed and nobody who began after p was ready is ready yet; who does become
ready has found a link, made one, or is the next that is to blame.

The fifth is `NoSecretShown` (`SecretsStayHidden`), for every output, all secrets,
however they overlap or contain each other, every way in which the writes cut the output,
and every failed write. That an output is a finite sequence and the secrets are finitely
many is all that is assumed. The invariant of a writer whose job runs is `Safe`:

* positions stand in the buffer in their order, with no more room between two of them than
  for what was written between them (`Ordered`, `EndsBy`), so what follows each other in
  the output and is all in the buffer does so there (`Contiguous`);
* of every complete occurrence of a secret some position is neither shown nor in the buffer;
* what may become one is torn already, or in the buffer from its first symbol on: `holdLen`
  must have held it back, as it is the end of the buffer (`HoldsBack`).

`ReplacedIsScanned` is the argument about `bytes.ReplaceAll`: the scan goes on behind what it
replaced, so an occurrence it passes over has lost a symbol to one further left. A later
secret may find another one torn by an earlier, which is why each occurrence loses some
symbol (`ReplacedTears`), not all. Were the last item of the invariant dropped, a write
that completes a secret of which a part was flushed would show the rest.

The sixth, `MaskedAsWhole` (`OutputMaskedWhole`), is an equality of two lists, computed
in different ways: one by masking what was held back and what was just written, piece by
piece and secret by secret, the other from the output as a whole. Neither follows from the
other by induction over the data, so both are compared with a description that
computes nothing. `Shows(t, lo, hi, stars, gone)` says that `t` is what is left of the
positions `lo..hi` if those in `gone` are dropped and those in `stars` become a Star; two such
lists are equal (`ShowsUnique`), and one can be joined and cut (`ShowsConcat`, `ShowsSplit`).
`stars` and `gone` come from stretches, the occurrences of secrets as pairs of
positions: a Star stands where a stretch begins that no other one reaches from the left. Then

* `ScanShows`: one `bytes.ReplaceAll` adds exactly the occurrences of which nothing is hidden
  yet. `PassShows`: those are the stretches of that secret which are in no other one, because
  secrets do not overlap and the longer ones were tried first (`NoOverlap`, `OneMore`).
* `StaysSteady`, where tameness and the `Safe` of the previous theorem are used: when a write
  completes a secret nothing of it is hidden yet, and all of it that was written
  before is still in the buffer. The cut before that write is the one which lies in the secret;
  if a shorter one in it were complete already, a secret that contains another was cut.
* `Halves`, the invariant: there is a position before which the log shows what is left, and
  from which on the buffer does. `WriteHalves` keeps it, with the positions that end with the
  write now hidden as well and those before unchanged (`StillHidden`); `CloseShows` joins the two.
* `WholeShows`: the reference is what is left of all (`OutermostStart`, `FlattenShows`).

That secrets come longest first is used, and so is that no write was lost: a lost write leaves
a hole, and `MaskedAsWhole` does not speak of it.

### The engine

`EngineTheorems` proves every safety invariant of `Engine`, for every workflow,
number of jobs, steps and slots, every sharing of images and every failure, from
`EngineAssumption`: the graph is acyclic, a parent directory is one of the needs
(`Validate` refuses others), a name is a sequence of characters. The inductive
invariant is

    IInv == EngineTypes /\ JobsInv /\ RunInv /\ ImageInv
            /\ StartedContainersRemoved /\ OutputsInv /\ TakenInv

* `JobsInv` ties a job's place in `runOne` to what the scheduler believes of it
  (`Lifecycle`) and says what has to be there once it is past an operation
  (`Delivered`): `SeesNeedsOutputs` and `SeedsWholeParent` speak of the moment at
  which the steps begin, but rest on what the needs did long before.
* `OutputsInv`: what a job has set, finds in `$LATCHET_ENV` and exports is its own, unless
  its `.latchet` could not be removed (`OwnOutputs`, `ignored`).
* `TakenInv` says that what was taken over stands still: a need has returned, and
  nobody writes to its outputs or to its tree any more, so what a job read is what
  is there. `TreesReach` and `OutputsReach` follow.
* `ImageInv` gives the pull of an image to one job (`sync.Once`), counts it, and
  bars every place behind it to callers of an image that failed.
* `RunInv` says where the run is against where its jobs are: nothing is hashed or
  removed before `over`, and then no job is at work; what container still exists then
  had its removal fail, for no create or start did in a run that gets there
  (`TreesSettled`).

`FollowsContract` proves that a run of the engine is a behaviour of `JobRun`, so it
needs of the scheduler nothing that the `Refinement` theorem does not give.

### Watch

`WatchTheorems` proves the three properties about what is fired, for every
number of passes at once, every list of entries, and every sequence of pushes, kills
and failed saves, under the hypotheses on the lists that section 4 names.

* `IInv`, one conjunct per pass at work, for `OnlyChangesFire` and
  `SavedChangesFired`: what a pass knows beyond the file it loaded comes from the
  entries it decided (`KnowsDecided`), what is queued or was fired is the commit it
  now knows and had another baseline (`QueuesChanges`, `FiredChanges`), and no new
  commit is forgotten between the two (`NothingDropped`). Without `EntriesApart`
  the second entry would take the first one's result for its baseline.
* `CountInv` for `RefiresOnlyAfterFaults`. That the fires so far are within the bound
  is not inductive: a pass that is going to fire must be counted before it does. `Due`
  counts what the present state may still cause: one fire for each pass at work but
  one that has not yet fired this commit, and one more if the commit is new to the
  file or to one of them. `Accounted` bounds the fires *and* what is due by the
  arrivals, faults and overlaps: a fire moves one from `Due` to the count, a pass that
  starts beside another is an overlap, and a save that undoes another's can only bring
  back what that other pass's start had paid for.

### Provenance and verify

`VerifyTheorems` proves all four invariants of `Verify`, for every workflow
(deterministic or not), any number of jobs, files, images and keys, and a world that
edits the file, moves tags, pulls, removes and ticks without bound. The assumptions are
that "nothing" is no digest, no commit and no file, that graphs are acyclic, and
that the workflow file's name, a base name (provenance.go:152), is no
`<job>/<file>`. The inductive invariant has nine parts:

* `OrderInv`: the verification begins after the run has ended and left a manifest.
  `ManifestInv`, `PinInv`: what the manifest took over from the run, and the replay from
  the manifest, still is what both have, for neither is written again.
* `RecipeInv`, `ImageInv`: the workflow file and the local image store are read several
  times; what the first read saw the later ones see, as long as the disturbance that
  `disturbed` records has not happened. `ManifestTellsTheRun` follows.
* `JobInv`: how a job came to where it is, and what its tree is made from.
* `AgreeInv`: the replay takes the jobs of a run that succeeded to the same ends, in
  whatever order it takes them up. It compares the two runs job by job, through the needs
  each of them found settled, and so needs no induction over the graph.
* `OutcomeInv`: only the comparison ends a replay with 0 or 1.

`ExitZeroVouches` takes the verdict apart into the trees themselves; that a manifest that
attests the workflow file alone never gets exit 0 is one of its steps. `PinsSuffice` is the
theorem that says the manifest is enough: by `JobInv` each tree is a function of image and
key, by `ManifestInv` and `PinInv` the replay's are the run's, by `AgreeInv` the same jobs
ran, so the artifacts are equal.

### Only model-checked

Liveness and fairness (`RunReturns`, `DrainReturns`, `RunExits`, `TakenUpUnlessTorn`) are
outside the prover's reach. Every invariant of the passing runs is proved, as are the
action properties. The findings' runs are refutations, and TLC's traces are their proofs.

## 7. Plan

Done: `JobGraph`, `JobRun`, `Scheduler` with its proofs, `Dag`, `Cond`, `Plan`,
`Engine`, `Verify`, `Watch`, `KeyCache`, `Masking`, `Host`; the proofs of what
processes share, of the engine, of watch, of verify, and of the plan. To come, in this order:

1. `KeyCache` in place of `Verify`'s `tags` lookup, so that a replay may find its
   keys cached or gone.
2. The cache directories of the workspace, which runs share as they share the key
   cache, in `Host`; `OpenJob` with the files of a run.
3. Wider runs: a second step per job in `Engine`.

## 8. Not modelled

Parsing and formatting (YAML, JSON, flags, messages); the lexer of conditions
and how `ParseRef` takes a reference apart (character work: `Cond` starts from
tokens, `KeyCache` from references that are malformed or not); what makes a
`key.yml` valid (a commit has a valid key or not); environment merging and the
facts about git and the host (`envutil`, `builtinenv`: maps merged once and values
read once, which unit tests reach); `$VAR` substitution; cache directories; the
choice of the log directory and the files in it; redaction in provenance; the
steps of cosign; and the global configuration. `PROJECT.json` lists every part
with its reason.
