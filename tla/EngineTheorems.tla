--------------------------- MODULE EngineTheorems ---------------------------
(***************************************************************************)
(* What holds of a run of the engine, for every validated workflow, every  *)
(* number of jobs and slots, and every order in which their operations     *)
(* succeed, fail or are cut off.                                           *)
(***************************************************************************)
EXTENDS Engine, TLAPS

----------------------------------------------------------------------------
(* The inductive invariant. *)

Results == {"none", "success", "failed", "skipped", "error"}
Phases == {"pending", "running", "success", "failed", "skipped"}
Outputs == (SUBSET AllMarks) \cup {NoOuts}

Calls ==
  [stage : Stages, step : 0..(Steps + 1), seen : UNION {[S -> Outputs] : S \in SUBSET Jobs},
   outputs : SUBSET AllMarks, result : Results]

EngineTypes ==
  /\ wf \in Workflows
  /\ phase \in [Jobs -> Phases] /\ aborted \in BOOLEAN /\ over \in BOOLEAN
  /\ job \in [Jobs -> Calls]
  /\ tree \in [Jobs -> [files : SUBSET AllMarks, env : SUBSET AllMarks]]
  /\ outs \in [Jobs -> Outputs]
  /\ image \in [Images -> [once : {"new", "busy", "done"}, err : BOOLEAN]]
  /\ containers \subseteq Seq(NameChars)
  /\ place \in {"setup", "jobs", "attest", "cleanup", "exited"}
  /\ exit \in 0..3
  /\ root \in {"none", "made", "kept", "removed"}
  /\ pulls \in [Images -> Nat]
  /\ infra \in BOOLEAN

Ended == {"success", "failed", "skipped"}
Undecided == {"idle", "begin", "seed", "ensure", "pull", "create", "start", "meta", "steps"}
Unstepped == Undecided \ {"steps"}
Seeded == {"ensure", "pull", "create", "start", "meta", "steps", "remove"}

\* How far the scheduler's view of a job and the job itself may differ.
Lifecycle(j) ==
  /\ phase[j] = "pending" => At(j, "idle")
  /\ phase[j] = "running" => ~At(j, "idle")
  /\ phase[j] \in Ended => At(j, "idle") \/ At(j, "returned")
  /\ ~At(j, "idle") => \A n \in NeedSet(wf.needs, j) : phase[n] = "success"
  /\ job[j].stage \in Unstepped => job[j].step = 0
  /\ At(j, "steps") => job[j].step # 0
  /\ job[j].stage \in Undecided => job[j].result = "none"
  /\ job[j].stage \in {"remove", "publish"} => job[j].result \in {"success", "failed", "error"}
  /\ At(j, "returned") => job[j].result # "none"

\* Why a job has the phase it ended in.
Delivered(j) ==
  /\ phase[j] \in {"success", "failed"} => At(j, "returned") /\ job[j].result = phase[j]
  /\ phase[j] = "skipped" /\ At(j, "returned") =>
       job[j].result = "skipped" \/ (job[j].result = "error" /\ aborted)
  /\ phase[j] = "skipped" /\ At(j, "idle") /\ ~aborted =>
       \E n \in NeedSet(wf.needs, j) : phase[n] \in {"failed", "skipped"}

JobsInv == \A j \in Jobs : Lifecycle(j) /\ Delivered(j)

\* Where the run is, against where its jobs are.
RunInv ==
  /\ over => place # "setup" /\ \A j \in Jobs : phase[j] \in Ended
  /\ place = "setup" => \A j \in Jobs : phase[j] = "pending"
  /\ place \in {"setup", "jobs"} => exit = 0 /\ root # "removed"
  /\ place \in {"attest", "cleanup"} =>
       over /\ ~aborted /\ exit = ExitCode /\ root # "removed"
  /\ infra => \/ place = "exited" /\ ~over
              \/ \E j \in Jobs : job[j].result \in {"error", "failed"}
  /\ ExitTells

\* The pull of an image belongs to one job, and is counted when it is done.
ImageInv ==
  /\ \A i \in Images : pulls[i] = IF image[i].once = "done" THEN 1 ELSE 0
  /\ \A j \in Jobs : At(j, "pull") =>
       /\ image[wf.image[j]].once = "busy"
       /\ \A k \in Jobs : At(k, "pull") /\ wf.image[k] = wf.image[j] => k = j
  /\ \A j \in Jobs : InContainer(j) \/ At(j, "create") \/ At(j, "start") =>
       image[wf.image[j]].once = "done" /\ ~image[wf.image[j]].err

\* What a job exports is its own unless its .latchet could not be removed, and it
\* has exported before it counts.
OwnOutputs(j) ==
  /\ job[j].outputs \subseteq Marks(j)
  /\ At(j, "steps") => tree[j].env \subseteq Marks(j)
  /\ outs[j] # NoOuts => outs[j] \subseteq Marks(j)

OutputsInv ==
  \A j \in Jobs :
    /\ OwnOutputs(j) \/ <<j, "clear">> \in ignored
    /\ At(j, "returned") /\ job[j].result = "success" => outs[j] # NoOuts

\* What a job took over is still what its needs left.
TakenInv ==
  \A j \in Jobs :
    /\ At(j, "begin") \/ At(j, "idle") => DOMAIN job[j].seen = {}
    /\ job[j].seen = [n \in DOMAIN job[j].seen |-> outs[n]]
    /\ DOMAIN job[j].seen \subseteq NeedSet(wf.needs, j)
    /\ job[j].stage \in Seeded /\ wf.inherit[j] # NoJob =>
         tree[wf.inherit[j]].files \subseteq tree[j].files

IInv ==
  /\ EngineTypes /\ JobsInv /\ RunInv /\ ImageInv /\ StartedContainersRemoved
  /\ OutputsInv /\ TakenInv

----------------------------------------------------------------------------
(* What the assumptions and the scheduler's contract say of this run. *)

LEMMA WorkflowFacts ==
  ASSUME EngineTypes
  PROVE  /\ \A j \in Jobs : NeedSet(wf.needs, j) \subseteq Jobs
         /\ \A j \in Jobs : wf.image[j] \in Images
         /\ \A j \in Jobs : wf.inherit[j] # NoJob => wf.inherit[j] \in NeedSet(wf.needs, j)
         /\ \A j \in Jobs : ContainerName(j) \in Seq(NameChars)
         /\ NoOuts \notin SUBSET AllMarks
<1>1. /\ wf.needs \in [Jobs -> Seq(Jobs)] /\ wf.image \in [Jobs -> Images]
      /\ \A j \in Jobs :
           /\ wf.inherit[j] # NoJob => wf.inherit[j] \in NeedSet(wf.needs, j)
           /\ wf.id[j] \in Seq({wf.id[j][i] : i \in DOMAIN wf.id[j]})
      BY EngineAssumption DEF EngineTypes
<1>2. \A j \in Jobs : NeedSet(wf.needs, j) \subseteq Jobs
      BY <1>1 DEF NeedSet
<1>3. \A j \in Jobs : ContainerName(j) \in Seq(NameChars)
  <2> SUFFICES ASSUME NEW j \in Jobs PROVE ContainerName(j) \in Seq(NameChars)
      OBVIOUS
  <2> DEFINE id == wf.id[j]
             chars == {id[i] : i \in DOMAIN id}
  <2>1. id \in Seq(chars)
        BY <1>1
  <2> HIDE DEF chars
  <2>2. Len(id) \in Nat /\ DOMAIN id = 1..Len(id)
        BY <2>1
  <2>3. ContainerName(j) \in [1..Len(id) -> NameChars]
        BY <2>2, EngineAssumption DEF ContainerName
  <2> QED
      BY <2>2, <2>3
<1>4. AllMarks = Jobs \X (1..Steps)
      BY DEF AllMarks, Marks
<1> QED
    BY <1>1, <1>2, <1>3, <1>4, EngineAssumption

\* What each step of the contract does to the phases here.
LEMMA ContractSteps ==
  ASSUME NEW j \in Jobs
  PROVE  /\ Sched!Start(j) =>
              /\ ~aborted /\ ~over /\ phase[j] = "pending"
              /\ \A n \in NeedSet(wf.needs, j) : phase[n] = "success"
              /\ phase' = [phase EXCEPT ![j] = "running"]
              /\ UNCHANGED <<aborted, over>>
         /\ Sched!Finish(j) =>
              /\ phase[j] = "running" /\ \E s \in Ended : phase' = [phase EXCEPT ![j] = s]
              /\ UNCHANGED <<aborted, over>>
         /\ Sched!PassOver(j) =>
              /\ ~aborted /\ ~over /\ phase[j] = "pending"
              /\ \E n \in NeedSet(wf.needs, j) : phase[n] \in {"failed", "skipped"}
              /\ phase' = [phase EXCEPT ![j] = "skipped"]
              /\ UNCHANGED <<aborted, over>>
         /\ Sched!Abort(j) =>
              /\ phase[j] = "running" /\ phase' = [phase EXCEPT ![j] = "skipped"]
              /\ aborted' = TRUE /\ UNCHANGED over
BY DEF Sched!Start, Sched!Finish, Sched!PassOver, Sched!Abort, Sched!Running, Sched!Pending,
       Sched!Final, Sched!NeedSet, NeedSet, Ended

LEMMA Initially == Init => IInv
<1> SUFFICES ASSUME Init PROVE IInv
    OBVIOUS
<1>1. /\ wf \in Workflows /\ phase = [j \in Jobs |-> "pending"] /\ aborted = FALSE /\ over = FALSE
      /\ job = [j \in Jobs |-> [stage |-> "idle", step |-> 0, seen |-> <<>>,
                                outputs |-> {}, result |-> "none"]]
      BY DEF Init, Sched!Init
<1>2. <<>> \in [{} -> Outputs]
      OBVIOUS
<1>3. [stage |-> "idle", step |-> 0, seen |-> <<>>, outputs |-> {}, result |-> "none"] \in Calls
  <2>1. 0 \in 0..(Steps + 1) /\ {} \in SUBSET AllMarks
        BY EngineAssumption
  <2>2. <<>> \in UNION {[S -> Outputs] : S \in SUBSET Jobs}
        BY <1>2
  <2> QED
      BY <2>1, <2>2 DEF Calls, Stages, Results
<1>4. EngineTypes
  <2>1. job \in [Jobs -> Calls]
        BY <1>1, <1>3
  <2>2. /\ phase \in [Jobs -> Phases] /\ outs \in [Jobs -> Outputs]
        /\ tree \in [Jobs -> [files : SUBSET AllMarks, env : SUBSET AllMarks]]
        BY <1>1 DEF Init, Outputs, Phases
  <2>3. /\ image \in [Images -> [once : {"new", "busy", "done"}, err : BOOLEAN]]
        /\ pulls \in [Images -> Nat]
        BY DEF Init
  <2>4. /\ containers = {} /\ place = "setup" /\ exit = 0 /\ root = "none" /\ infra = FALSE
        BY DEF Init
  <2>5. aborted \in BOOLEAN /\ over \in BOOLEAN /\ infra \in BOOLEAN
        BY <1>1, <2>4
  <2>6. /\ containers \subseteq Seq(NameChars) /\ exit \in 0..3
        /\ place \in {"setup", "jobs", "attest", "cleanup", "exited"}
        /\ root \in {"none", "made", "kept", "removed"}
        BY <2>4
  <2> QED
      BY <1>1, <2>1, <2>2, <2>3, <2>5, <2>6 DEF EngineTypes
<1>5. JobsInv
      BY <1>1 DEF JobsInv, Lifecycle, Delivered, At, Ended, Undecided, Unstepped
<1>6. RunInv
      BY <1>1 DEF Init, RunInv, ExitTells
<1>7. ImageInv /\ StartedContainersRemoved
      BY <1>1 DEF Init, ImageInv, At, InContainer, StartedContainersRemoved
<1>8. OutputsInv
      BY <1>1 DEF Init, OutputsInv, OwnOutputs, At
<1>9. TakenInv
      BY <1>1, <1>2 DEF TakenInv, At, Seeded
<1> QED
    BY <1>4, <1>5, <1>6, <1>7, <1>8, <1>9 DEF IInv

----------------------------------------------------------------------------
(* What a step does to the call it belongs to. *)

OnlyCall(j) == job' \in [Jobs -> Calls] /\ \A k \in Jobs \ {j} : job'[k] = job[k]

Keeps(j) ==
  /\ job'[j].step = job[j].step /\ job'[j].seen = job[j].seen
  /\ job'[j].outputs = job[j].outputs

LEMMA CallFields ==
  ASSUME NEW c \in Calls
  PROVE  /\ c.stage \in Stages /\ c.step \in 0..(Steps + 1) /\ c.result \in Results
         /\ c.outputs \subseteq AllMarks
         /\ c = [stage |-> c.stage, step |-> c.step, seen |-> c.seen,
                 outputs |-> c.outputs, result |-> c.result]
<1> DEFINE Seens == UNION {[S -> Outputs] : S \in SUBSET Jobs}
<1>1. c \in [stage : Stages, step : 0..(Steps + 1), seen : Seens,
             outputs : SUBSET AllMarks, result : Results]
      BY DEF Calls
<1> HIDE DEF Seens
<1> QED
    BY <1>1

LEMMA CallMoves ==
  ASSUME job \in [Jobs -> Calls], NEW j \in Jobs
  PROVE  /\ \A s \in Stages : Go(j, s) =>
              /\ OnlyCall(j) /\ Keeps(j)
              /\ job'[j].stage = s /\ job'[j].result = job[j].result
         /\ \A s \in Stages, r \in Results : Ends(j, s, r) =>
              /\ OnlyCall(j) /\ Keeps(j)
              /\ job'[j].stage = s /\ job'[j].result = r
<1> DEFINE Seens == UNION {[S -> Outputs] : S \in SUBSET Jobs}
<1>1. Calls = [stage : Stages, step : 0..(Steps + 1), seen : Seens,
               outputs : SUBSET AllMarks, result : Results]
      BY DEF Calls
<1> HIDE DEF Seens
<1> QED
    BY <1>1 DEF Go, Ends, OnlyCall, Keeps

\* The four actions that write more than the stage and the result.
LEMMA LongMoves ==
  ASSUME EngineTypes, JobsInv, NEW j \in Jobs
  PROVE  /\ Begin(j) =>
              \/ /\ OnlyCall(j) /\ job'[j].stage = "seed" /\ job'[j].result = job[j].result
                 /\ job'[j].step = job[j].step /\ job'[j].outputs = job[j].outputs
                 /\ job'[j].seen = NeedsEnv(j) /\ UNCHANGED infra
              \/ Ends(j, "returned", "skipped") /\ UNCHANGED infra
              \/ Fails(j)
         /\ Meta(j) =>
              \/ /\ OnlyCall(j) /\ job'[j].stage = "steps" /\ job'[j].step # 0 /\ job'[j].result = job[j].result
                 /\ job'[j].seen = job[j].seen /\ job'[j].outputs = job[j].outputs
                 /\ UNCHANGED infra
              \/ Ends(j, "remove", "error") /\ infra' = TRUE
         /\ SkipStep(j) =>
              /\ OnlyCall(j) /\ job'[j].stage = "steps" /\ job'[j].step # 0 /\ job'[j].result = job[j].result
              /\ job'[j].seen = job[j].seen /\ job'[j].outputs = job[j].outputs
         /\ ExecSucceeds(j) =>
              /\ OnlyCall(j) /\ job'[j].stage = "steps" /\ job'[j].step # 0 /\ job'[j].result = job[j].result
              /\ job'[j].seen = job[j].seen
              /\ job'[j].outputs \subseteq job[j].outputs \cup tree'[j].env
              /\ \A k \in Jobs \ {j} : tree'[k] = tree[k]
              /\ tree' \in [Jobs -> [files : SUBSET AllMarks, env : SUBSET AllMarks]]
              /\ tree[j].files \subseteq tree'[j].files
              /\ tree'[j].env \subseteq tree[j].env \cup Marks(j)
<1> DEFINE Seens == UNION {[S -> Outputs] : S \in SUBSET Jobs}
<1>1. /\ job \in [Jobs -> Calls]
      /\ Calls = [stage : Stages, step : 0..(Steps + 1), seen : Seens,
                  outputs : SUBSET AllMarks, result : Results]
      BY DEF Calls, EngineTypes
<1>2. "steps" \in Stages /\ "seed" \in Stages /\ Steps \in Nat /\ 1 \in 0..(Steps + 1)
      BY EngineAssumption DEF Stages
<1>3. NeedsEnv(j) \in Seens
      BY WorkflowFacts DEF NeedsEnv, EngineTypes
<1> HIDE DEF Seens
<1>4. Stepping(j) => /\ job[j].stage = "steps" /\ job[j].step \in 1..Steps
                     /\ job[j].step + 1 \in 0..(Steps + 1) /\ job[j].step + 1 # 0
      BY <1>1, <1>2 DEF Stepping, At, JobsInv, Lifecycle
<1>5. ASSUME job' = [job EXCEPT ![j].stage = "seed", ![j].seen = NeedsEnv(j)]
      PROVE  /\ OnlyCall(j) /\ job'[j].stage = "seed" /\ job'[j].step = job[j].step
             /\ job'[j].seen = NeedsEnv(j)
             /\ job'[j].outputs = job[j].outputs /\ job'[j].result = job[j].result
      BY <1>1, <1>2, <1>3, <1>5 DEF OnlyCall
<1>6. ASSUME job' = [job EXCEPT ![j].stage = "steps", ![j].step = 1]
      PROVE  /\ OnlyCall(j) /\ job'[j].stage = "steps" /\ job'[j].step # 0 /\ job'[j].seen = job[j].seen
             /\ job'[j].outputs = job[j].outputs /\ job'[j].result = job[j].result
  <2>1. OnlyCall(j) /\ job'[j].step = 1
        BY <1>1, <1>2, <1>6 DEF OnlyCall
  <2>2. /\ job'[j].stage = "steps" /\ job'[j].seen = job[j].seen
        /\ job'[j].outputs = job[j].outputs /\ job'[j].result = job[j].result
        BY <1>1, <1>2, <1>6
  <2> QED
      BY <2>1, <2>2
<1>7. ASSUME SkipStep(j)
      PROVE  /\ OnlyCall(j) /\ job'[j].stage = "steps" /\ job'[j].step # 0 /\ job'[j].seen = job[j].seen
             /\ job'[j].outputs = job[j].outputs /\ job'[j].result = job[j].result
  <2>1. job' = [job EXCEPT ![j].step = @ + 1] /\ Stepping(j)
        BY <1>7 DEF SkipStep
  <2> QED
      BY <1>1, <1>4, <2>1 DEF OnlyCall
<1>8. ASSUME ExecSucceeds(j)
      PROVE  /\ OnlyCall(j) /\ job'[j].stage = "steps" /\ job'[j].step # 0 /\ job'[j].seen = job[j].seen
             /\ job'[j].outputs \subseteq job[j].outputs \cup tree'[j].env
             /\ job'[j].result = job[j].result
             /\ \A k \in Jobs \ {j} : tree'[k] = tree[k]
             /\ tree' \in [Jobs -> [files : SUBSET AllMarks, env : SUBSET AllMarks]]
             /\ tree[j].files \subseteq tree'[j].files
             /\ tree'[j].env \subseteq tree[j].env \cup Marks(j)
  <2>1. PICK sets \in BOOLEAN : Leaves(j, sets)
        BY <1>8 DEF ExecSucceeds
  <2>2. <<j, job[j].step>> \in Marks(j) /\ Marks(j) \subseteq AllMarks
        BY <1>4, <1>8 DEF ExecSucceeds, Stepping, Marks, AllMarks
  <2>3. /\ \A k \in Jobs \ {j} : tree'[k] = tree[k]
        /\ tree' \in [Jobs -> [files : SUBSET AllMarks, env : SUBSET AllMarks]]
        /\ tree[j].files \subseteq tree'[j].files
        /\ tree'[j].env \subseteq tree[j].env \cup Marks(j)
        BY <2>1, <2>2 DEF Leaves, EngineTypes
  <2>4. tree'[j].env \in SUBSET AllMarks
        BY <2>3
  <2>5. PICK read \in {tree'[j].env, {}} :
          job' = [job EXCEPT ![j].step = @ + 1, ![j].outputs = @ \cup read]
        BY <1>8 DEF ExecSucceeds
  <2>6. read \subseteq tree'[j].env /\ read \in SUBSET AllMarks /\ Stepping(j)
        BY <1>8, <2>4 DEF ExecSucceeds
  <2>7. job[j].outputs \cup read \in SUBSET AllMarks
        BY <1>1, <2>6
  <2>8. /\ OnlyCall(j) /\ job'[j].stage = "steps" /\ job'[j].step # 0 /\ job'[j].seen = job[j].seen
        /\ job'[j].outputs = job[j].outputs \cup read /\ job'[j].result = job[j].result
        BY <1>1, <1>4, <2>5, <2>6, <2>7 DEF OnlyCall
  <2> QED
      BY <2>3, <2>6, <2>8
<1> QED
    BY <1>5, <1>6, <1>7, <1>8 DEF Begin, Meta

\* A step of a job leaves alone whatever belongs to other jobs and to the run.
Frame(j) ==
  /\ OnlyCall(j)
  /\ UNCHANGED <<wf, phase, aborted, over, place, exit, root>>
  /\ \A k \in Jobs \ {j} : tree'[k] = tree[k] /\ outs'[k] = outs[k]

\* How it moves its job along.
Advances(j) ==
  /\ job[j].stage \notin {"idle", "returned"}
  /\ job'[j].stage \notin {"idle", "begin"}
  /\ job'[j].stage \in Unstepped => job'[j].step = 0
  /\ job'[j].stage = "steps" => job'[j].step # 0
  /\ job'[j].stage \in Undecided => job'[j].result = "none"
  /\ job'[j].stage \in {"remove", "publish"} => job'[j].result \in {"success", "failed", "error"}
  /\ job'[j].stage = "returned" => job'[j].result # "none"
  /\ job[j].result \in {"failed", "error"} => job'[j].result = job[j].result
  /\ infra' => infra \/ job'[j].result \in {"failed", "error"}

LEMMA StageNames ==
  /\ {"begin", "seed", "ensure", "pull", "create", "start", "meta", "steps", "remove",
      "publish", "returned"} \subseteq Stages
  /\ {"success", "failed", "skipped", "error"} \subseteq Results
BY DEF Stages, Results

\* A job goes on to another stage, or ends with a result.
LEMMA GoAdvances ==
  ASSUME EngineTypes, JobsInv, NEW j \in Jobs, NEW s \in Stages, Go(j, s), UNCHANGED infra,
         job[j].stage \notin {"idle", "returned"}, s \notin {"idle", "begin", "steps"},
         s \in Unstepped => job[j].stage \in Unstepped,
         s \notin Unstepped => job[j].stage \in {"remove", "publish"}
  PROVE  OnlyCall(j) /\ Advances(j)
<1>1. /\ OnlyCall(j) /\ job'[j].step = job[j].step
      /\ job'[j].stage = s /\ job'[j].result = job[j].result
      BY CallMoves DEF EngineTypes, Keeps
<1>2. /\ job[j].stage \in Unstepped => job[j].step = 0
      /\ job[j].stage \in Undecided => job[j].result = "none"
      /\ job[j].stage \in {"remove", "publish"} => job[j].result \in {"success", "failed", "error"}
      BY DEF JobsInv, Lifecycle
<1>3. job[j].stage \in Unstepped =>
        job[j].stage \in Undecided /\ s \notin {"remove", "publish", "returned"}
      BY DEF Unstepped, Undecided
<1> QED
    BY <1>1, <1>2, <1>3 DEF Advances, Unstepped, Undecided

LEMMA EndsAdvances ==
  ASSUME EngineTypes, JobsInv, NEW j \in Jobs, NEW s \in {"remove", "returned"},
         NEW r \in Results \ {"none"}, Ends(j, s, r), s = "remove" => r # "skipped",
         job[j].stage \in Undecided \ {"idle"}, infra' => infra \/ r \in {"failed", "error"}
  PROVE  OnlyCall(j) /\ Advances(j)
<1>1. OnlyCall(j) /\ job'[j].stage = s /\ job'[j].result = r
      BY CallMoves, StageNames DEF EngineTypes
<1>2. job[j].result = "none" /\ job[j].stage # "returned"
      BY DEF JobsInv, Lifecycle, Undecided
<1> QED
    BY <1>1, <1>2 DEF Advances, Unstepped, Undecided, Results

LEMMA FailsAdvances ==
  ASSUME EngineTypes, JobsInv, NEW j \in Jobs, Fails(j), job[j].stage \in Undecided \ {"idle"}
  PROVE  OnlyCall(j) /\ Advances(j) /\ infra' \in BOOLEAN
BY EndsAdvances, StageNames DEF Fails

LEMMA JobStepFrame ==
  ASSUME EngineTypes, JobsInv, NEW j \in Jobs, JobStep(j)
  PROVE  EngineTypes' /\ Frame(j) /\ Advances(j)
<1> DEFINE Trees == [files : SUBSET AllMarks, env : SUBSET AllMarks]
           Cells == [once : {"new", "busy", "done"}, err : BOOLEAN]
           Fixed == UNCHANGED <<wf, phase, aborted, over, place, exit, root>>
           OnlyTree == tree' \in [Jobs -> Trees] /\ \A k \in Jobs \ {j} : tree'[k] = tree[k]
<1>1. /\ job \in [Jobs -> Calls] /\ tree \in [Jobs -> Trees] /\ outs \in [Jobs -> Outputs]
      /\ image \in [Images -> Cells] /\ pulls \in [Images -> Nat]
      /\ containers \subseteq Seq(NameChars) /\ infra \in BOOLEAN
      BY DEF EngineTypes
<1>2. ASSUME Begin(j)
      PROVE  /\ OnlyCall(j) /\ Advances(j) /\ infra' \in BOOLEAN
             /\ Fixed /\ UNCHANGED <<tree, outs, image, containers, pulls>>
  <2>1. job[j].stage = "begin" /\ job[j].step = 0 /\ job[j].result = "none"
        BY <1>2 DEF Begin, At, JobsInv, Lifecycle, Undecided, Unstepped
  <2>2. Fixed /\ UNCHANGED <<tree, outs, image, containers, pulls>>
        BY <1>2 DEF Begin, scheduling, running
  <2>3. CASE OnlyCall(j) /\ job'[j].stage = "seed" /\ job'[j].result = job[j].result
             /\ job'[j].step = job[j].step /\ UNCHANGED infra
        BY <1>1, <2>1, <2>2, <2>3 DEF Advances, Unstepped, Undecided
  <2>4. CASE Ends(j, "returned", "skipped") /\ UNCHANGED infra
        BY <1>1, <2>1, <2>2, <2>4, EndsAdvances, StageNames DEF Undecided
  <2>5. CASE Fails(j)
        BY <2>1, <2>2, <2>5, FailsAdvances DEF Undecided
  <2> QED
      BY <1>2, <2>3, <2>4, <2>5, LongMoves
<1>3. ASSUME Seed(j)
      PROVE  /\ OnlyCall(j) /\ Advances(j) /\ infra' \in BOOLEAN
             /\ Fixed /\ UNCHANGED <<outs, image, containers, pulls>> /\ OnlyTree
  <2>1. wf.inherit[j] # NoJob => wf.inherit[j] \in Jobs
        BY WorkflowFacts
  <2>2. Fixed /\ UNCHANGED <<outs, image, containers, pulls>> /\ OnlyTree /\ job[j].stage = "seed"
        BY <1>1, <1>3, <2>1 DEF Seed, SeedTree, At, scheduling, running
  <2>3. (Go(j, "ensure") /\ UNCHANGED infra) \/ Fails(j)
        BY <1>3 DEF Seed
  <2> QED
      BY <1>1, <2>2, <2>3, GoAdvances, FailsAdvances, StageNames DEF Unstepped, Undecided
<1>4. ASSUME Ensure(j)
      PROVE  /\ OnlyCall(j) /\ Advances(j) /\ infra' \in BOOLEAN
             /\ Fixed /\ UNCHANGED <<tree, outs, containers, pulls>> /\ image' \in [Images -> Cells]
  <2>1. Fixed /\ UNCHANGED <<tree, outs, containers, pulls>> /\ job[j].stage = "ensure"
        BY <1>4 DEF Ensure, At, scheduling, running
  <2>2. image' \in [Images -> Cells]
    <3>1. CASE image' = [image EXCEPT ![wf.image[j]].once = "busy"]
          BY <1>1, <3>1, WorkflowFacts
    <3>2. CASE UNCHANGED image
          BY <1>1, <3>2
    <3> QED
        BY <1>4, <3>1, <3>2 DEF Ensure
  <2>3. (\E s \in {"pull", "create"} : Go(j, s) /\ UNCHANGED infra) \/ Fails(j)
        BY <1>4 DEF Ensure
  <2> QED
      BY <1>1, <2>1, <2>2, <2>3, GoAdvances, FailsAdvances, StageNames DEF Unstepped, Undecided
<1>5. ASSUME Pull(j)
      PROVE  /\ OnlyCall(j) /\ Advances(j) /\ infra' \in BOOLEAN
             /\ Fixed /\ UNCHANGED <<tree, outs, containers>>
             /\ image' \in [Images -> Cells] /\ pulls' \in [Images -> Nat]
  <2>1. Fixed /\ UNCHANGED <<tree, outs, containers>> /\ job[j].stage = "pull"
        BY <1>5 DEF Pull, At, scheduling, running
  <2>2. image' \in [Images -> Cells] /\ pulls' \in [Images -> Nat]
        BY <1>1, <1>5, WorkflowFacts DEF Pull, Pulled
  <2>3. (Go(j, "create") /\ UNCHANGED infra) \/ Fails(j)
        BY <1>5 DEF Pull
  <2> QED
      BY <1>1, <2>1, <2>2, <2>3, GoAdvances, FailsAdvances, StageNames DEF Unstepped, Undecided
<1>6. ASSUME Create(j) \/ Start(j)
      PROVE  /\ OnlyCall(j) /\ Advances(j) /\ infra' \in BOOLEAN
             /\ Fixed /\ UNCHANGED <<tree, outs, image, pulls>> /\ containers' \subseteq Seq(NameChars)
  <2>1. Fixed /\ UNCHANGED <<tree, outs, image, pulls>> /\ job[j].stage \in {"create", "start"}
        BY <1>6 DEF Create, Start, At, scheduling, running
  <2>2. containers' \subseteq Seq(NameChars)
        BY <1>1, <1>6, WorkflowFacts DEF Create, Start
  <2>3. (\E s \in {"start", "meta"} : Go(j, s) /\ UNCHANGED infra) \/ Fails(j)
        BY <1>6 DEF Create, Start
  <2> QED
      BY <1>1, <2>1, <2>2, <2>3, GoAdvances, FailsAdvances, StageNames DEF Unstepped, Undecided
<1>7. ASSUME Meta(j)
      PROVE  /\ OnlyCall(j) /\ Advances(j) /\ infra' \in BOOLEAN
             /\ Fixed /\ UNCHANGED <<outs, image, containers, pulls>> /\ OnlyTree
  <2>1. Fixed /\ UNCHANGED <<outs, image, containers, pulls>> /\ OnlyTree /\ job[j].stage = "meta"
        BY <1>1, <1>7 DEF Meta, ClearsMeta, At, scheduling, running
  <2>2. job[j].result = "none"
        BY <2>1 DEF JobsInv, Lifecycle, Undecided
  <2>3. CASE OnlyCall(j) /\ job'[j].stage = "steps" /\ job'[j].step # 0
             /\ job'[j].result = job[j].result /\ UNCHANGED infra
        BY <1>1, <2>1, <2>2, <2>3 DEF Advances, Unstepped, Undecided
  <2>4. CASE Ends(j, "remove", "error") /\ infra' = TRUE
        BY <2>1, <2>4, EndsAdvances, StageNames DEF Undecided
  <2> QED
      BY <1>7, <2>3, <2>4, LongMoves
<1>8. ASSUME SkipStep(j) \/ ExecSucceeds(j)
      PROVE  /\ OnlyCall(j) /\ Advances(j)
             /\ Fixed /\ UNCHANGED <<outs, image, containers, pulls, infra>> /\ OnlyTree
  <2>1. /\ Fixed /\ UNCHANGED <<outs, image, containers, pulls, infra>>
        /\ job[j].stage = "steps" /\ job[j].result = "none"
        BY <1>8
        DEF SkipStep, ExecSucceeds, Stepping, At, JobsInv, Lifecycle, Undecided, scheduling, running
  <2>2. OnlyTree
        BY <1>1, <1>8, LongMoves DEF SkipStep
  <2>3. OnlyCall(j) /\ job'[j].stage = "steps" /\ job'[j].step # 0
        /\ job'[j].result = job[j].result
        BY <1>8, LongMoves
  <2> QED
      BY <2>1, <2>2, <2>3 DEF Advances, Unstepped, Undecided
<1>9. ASSUME ExecExits(j)
      PROVE  /\ OnlyCall(j) /\ Advances(j) /\ infra' \in BOOLEAN
             /\ Fixed /\ UNCHANGED <<outs, image, containers, pulls>> /\ OnlyTree
  <2>1. /\ Fixed /\ UNCHANGED <<outs, image, containers, pulls>> /\ job[j].stage = "steps"
        /\ Ends(j, "remove", "failed") /\ infra' \in BOOLEAN
        BY <1>1, <1>9 DEF ExecExits, Leaves, Stepping, At, scheduling, running
  <2>2. job[j].step \in 1..Steps
        BY <1>1, <1>9, CallFields, EngineAssumption DEF ExecExits, Stepping, At, JobsInv, Lifecycle
  <2>3. <<j, job[j].step>> \in AllMarks
        BY <2>2 DEF AllMarks, Marks
  <2>4. OnlyTree
    <3>1. CASE Leaves(j, FALSE)
          BY <1>1, <2>3, <3>1 DEF Leaves
    <3>2. CASE UNCHANGED tree
          BY <1>1, <3>2
    <3> QED
        BY <1>9, <3>1, <3>2 DEF ExecExits
  <2> QED
      BY <2>1, <2>4, EndsAdvances, StageNames DEF Undecided
<1>10. ASSUME ExecErrs(j) \/ EndSteps(j)
      PROVE  /\ OnlyCall(j) /\ Advances(j) /\ infra' \in BOOLEAN
             /\ Fixed /\ UNCHANGED <<tree, outs, image, containers, pulls>>
  <2>1. /\ Fixed /\ UNCHANGED <<tree, outs, image, containers, pulls>> /\ job[j].stage = "steps"
        /\ \/ Ends(j, "remove", "error") /\ infra' = TRUE
           \/ Ends(j, "remove", "success") /\ UNCHANGED infra
        BY <1>10 DEF ExecErrs, EndSteps, Stepping, At, scheduling, running
  <2>2. CASE Ends(j, "remove", "error") /\ infra' = TRUE
        BY <2>1, <2>2, EndsAdvances, StageNames DEF Undecided
  <2>3. CASE Ends(j, "remove", "success") /\ UNCHANGED infra
        BY <1>1, <2>1, <2>3, EndsAdvances, StageNames DEF Undecided
  <2> QED
      BY <2>1, <2>2, <2>3
<1>11. ASSUME Remove(j)
      PROVE  /\ OnlyCall(j) /\ Advances(j) /\ containers' \subseteq Seq(NameChars)
             /\ Fixed /\ UNCHANGED <<tree, outs, image, pulls, infra>>
  <2>1. /\ Fixed /\ UNCHANGED <<tree, outs, image, pulls, infra>> /\ job[j].stage = "remove"
        /\ containers' \subseteq Seq(NameChars) /\ Go(j, "publish")
        BY <1>1, <1>11 DEF Remove, Removes, At, scheduling, running
  <2> QED
      BY <2>1, GoAdvances, StageNames DEF Unstepped, Undecided
<1>12. ASSUME Publish(j)
      PROVE  /\ OnlyCall(j) /\ Advances(j) /\ UNCHANGED <<tree, image, containers, pulls, infra>>
             /\ Fixed /\ outs' \in [Jobs -> Outputs] /\ \A k \in Jobs \ {j} : outs'[k] = outs[k]
  <2>1. /\ Fixed /\ UNCHANGED <<tree, image, containers, pulls, infra>> /\ job[j].stage = "publish"
        /\ Go(j, "returned")
        BY <1>12 DEF Publish, At, scheduling, running
  <2>2. outs' \in [Jobs -> Outputs] /\ \A k \in Jobs \ {j} : outs'[k] = outs[k]
        BY <1>1, <1>12, CallFields DEF Publish, Published, Outputs
  <2> QED
      BY <2>1, <2>2, GoAdvances, StageNames DEF Unstepped, Undecided
<1> HIDE DEF Trees, Cells
<1>13. /\ OnlyCall(j) /\ Advances(j) /\ Fixed /\ OnlyTree
       /\ outs' \in [Jobs -> Outputs] /\ \A k \in Jobs \ {j} : outs'[k] = outs[k]
       BY <1>1, <1>2, <1>3, <1>4, <1>5, <1>6, <1>7, <1>8, <1>9, <1>10, <1>11, <1>12 DEF JobStep
<1>14. /\ image' \in [Images -> Cells] /\ pulls' \in [Images -> Nat]
       /\ containers' \subseteq Seq(NameChars) /\ infra' \in BOOLEAN
       BY <1>1, <1>2, <1>3, <1>4, <1>5, <1>6, <1>7, <1>8, <1>9, <1>10, <1>11, <1>12 DEF JobStep
<1>15. EngineTypes'
       BY <1>13, <1>14 DEF EngineTypes, OnlyCall, Trees, Cells
<1> QED
    BY <1>13, <1>15 DEF Frame

----------------------------------------------------------------------------
(* What a step of a job preserves. *)

LEMMA AtWork ==
  ASSUME EngineTypes, JobsInv, RunInv, NEW j \in Jobs, job[j].stage \notin {"idle", "returned"}
  PROVE  /\ phase[j] = "running" /\ ~over /\ place \in {"jobs", "exited"}
         /\ \A n \in NeedSet(wf.needs, j) : phase[n] = "success" /\ At(n, "returned") /\ n # j
<1>1. phase[j] = "running"
      BY DEF EngineTypes, Phases, JobsInv, Lifecycle, At, Ended
<1>2. ~over /\ place \in {"jobs", "exited"}
      BY <1>1 DEF RunInv, Ended, EngineTypes
<1>3. \A n \in NeedSet(wf.needs, j) : n \in Jobs /\ phase[n] = "success"
      BY WorkflowFacts DEF JobsInv, Lifecycle, At
<1> QED
    BY <1>1, <1>2, <1>3 DEF JobsInv, Delivered

LEMMA JobStepJobs ==
  ASSUME IInv, NEW j \in Jobs, JobStep(j)
  PROVE  JobsInv' /\ RunInv'
<1>1. EngineTypes /\ JobsInv /\ RunInv /\ EngineTypes' /\ Frame(j) /\ Advances(j)
      BY JobStepFrame DEF IInv
<1>2. /\ job[j].stage \notin {"idle", "returned"} /\ phase[j] = "running" /\ ~over
      /\ place \in {"jobs", "exited"} /\ UNCHANGED <<wf, phase, aborted, over, place, exit, root>>
      /\ \A n \in NeedSet(wf.needs, j) : phase[n] = "success"
      BY <1>1, AtWork DEF Frame, Advances
<1>3. \A k \in Jobs \ {j} : Lifecycle(k)' /\ Delivered(k)'
      BY <1>1, <1>2 DEF JobsInv, Lifecycle, Delivered, Frame, OnlyCall, At
<1>4. Lifecycle(j)' /\ Delivered(j)'
      BY <1>1, <1>2 DEF Lifecycle, Delivered, Advances, At, Ended
<1>5. infra' => \/ place' = "exited" /\ ~over'
                \/ \E k \in Jobs : job'[k].result \in {"error", "failed"}
  <2>1. CASE job'[j].result \in {"error", "failed"}
        BY <2>1
  <2>2. CASE job'[j].result \notin {"error", "failed"}
        BY <1>1, <1>2, <2>2 DEF Advances, RunInv, Frame, OnlyCall
  <2> QED
      BY <2>1, <2>2
<1>6. RunInv'
      BY <1>1, <1>2, <1>5 DEF RunInv, ExitTells
<1> QED
    BY <1>3, <1>4, <1>6 DEF JobsInv

\* The stages in their order, the two that concern an image left out.
LEMMA StageMoves ==
  ASSUME EngineTypes, JobsInv, NEW j \in Jobs
  PROVE  /\ Begin(j) => job[j].stage = "begin" /\ job'[j].stage \in {"seed", "returned"}
         /\ Seed(j) => job[j].stage = "seed" /\ job'[j].stage \in {"ensure", "returned"}
         /\ Create(j) => job[j].stage = "create" /\ job'[j].stage \in {"start", "returned"}
         /\ Start(j) => job[j].stage = "start" /\ job'[j].stage \in {"meta", "returned"}
         /\ Meta(j) => job[j].stage = "meta" /\ job'[j].stage \in {"steps", "remove"}
         /\ SkipStep(j) \/ ExecSucceeds(j) => job[j].stage = "steps" /\ job'[j].stage = "steps"
         /\ ExecExits(j) \/ ExecErrs(j) \/ EndSteps(j) =>
              job[j].stage = "steps" /\ job'[j].stage = "remove"
         /\ Remove(j) => job[j].stage = "remove" /\ job'[j].stage = "publish"
         /\ Publish(j) => job[j].stage = "publish" /\ job'[j].stage = "returned"
<1>1. job \in [Jobs -> Calls]
      BY DEF EngineTypes
<1>2. ASSUME NEW s \in Stages, Go(j, s) PROVE job'[j].stage = s
      BY <1>1, <1>2, CallMoves
<1>3. ASSUME NEW s \in {"remove", "returned"}, NEW r \in {"success", "failed", "skipped", "error"},
             Ends(j, s, r)
      PROVE  job'[j].stage = s
      BY <1>1, <1>3, CallMoves, StageNames
<1>4. Fails(j) => job'[j].stage = "returned"
      BY <1>3 DEF Fails
<1>5. Begin(j) => job[j].stage = "begin" /\ job'[j].stage \in {"seed", "returned"}
      BY <1>3, <1>4, LongMoves DEF Begin, At
<1>6. Seed(j) => job[j].stage = "seed" /\ job'[j].stage \in {"ensure", "returned"}
      BY <1>2, <1>4, StageNames DEF Seed, At
<1>7. Create(j) => job[j].stage = "create" /\ job'[j].stage \in {"start", "returned"}
      BY <1>2, <1>4, StageNames DEF Create, At
<1>8. Start(j) => job[j].stage = "start" /\ job'[j].stage \in {"meta", "returned"}
      BY <1>2, <1>4, StageNames DEF Start, At
<1>9. Meta(j) => job[j].stage = "meta" /\ job'[j].stage \in {"steps", "remove"}
      BY <1>3, LongMoves DEF Meta, At
<1>10. SkipStep(j) \/ ExecSucceeds(j) => job[j].stage = "steps" /\ job'[j].stage = "steps"
      BY LongMoves DEF SkipStep, ExecSucceeds, Stepping, At
<1>11. ExecExits(j) \/ ExecErrs(j) \/ EndSteps(j) =>
         job[j].stage = "steps" /\ job'[j].stage = "remove"
      BY <1>3 DEF ExecExits, ExecErrs, EndSteps, Stepping, At
<1>12. Remove(j) => job[j].stage = "remove" /\ job'[j].stage = "publish"
      BY <1>2, StageNames DEF Remove, At
<1>13. Publish(j) => job[j].stage = "publish" /\ job'[j].stage = "returned"
      BY <1>2, StageNames DEF Publish, At
<1> QED
    BY <1>5, <1>6, <1>7, <1>8, <1>9, <1>10, <1>11, <1>12, <1>13

\* The pull of an image is counted once.
LEMMA JobStepImage ==
  ASSUME IInv, NEW j \in Jobs, JobStep(j)
  PROVE  ImageInv'
<1>1. /\ EngineTypes /\ ImageInv /\ wf' = wf
      /\ job' \in [Jobs -> Calls] /\ \A k \in Jobs \ {j} : job'[k] = job[k]
      BY JobStepFrame DEF IInv, Frame, OnlyCall
<1> DEFINE i == wf.image[j]
<1>2. i \in Images /\ \A k \in Jobs : wf.image[k] \in Images
      BY <1>1, WorkflowFacts
<1>3. CASE Ensure(j)
  <2>1. CASE /\ image[i].once = "new" /\ image' = [image EXCEPT ![i].once = "busy"]
             /\ Go(j, "pull") /\ UNCHANGED pulls
    <3>1. job'[j].stage = "pull"
          BY <1>1, <2>1, CallMoves, StageNames DEF EngineTypes
    <3>2. /\ image'[i].once = "busy" /\ \A h \in Images \ {i} : image'[h] = image[h]
          BY <1>1, <1>2, <2>1 DEF EngineTypes
    <3>3. \A k \in Jobs \ {j} : wf.image[k] = i => ~At(k, "pull")
          BY <1>1, <2>1 DEF ImageInv
    <3> QED
        BY <1>1, <1>2, <2>1, <3>1, <3>2, <3>3 DEF ImageInv, At, InContainer
  <2>2. CASE /\ image[i].once = "done" /\ image[i].err /\ Fails(j) /\ UNCHANGED <<image, pulls>>
    <3>1. job'[j].stage = "returned"
          BY <1>1, <2>2, CallMoves, StageNames DEF EngineTypes, Fails
    <3> QED
        BY <1>1, <2>2, <3>1 DEF ImageInv, At, InContainer
  <2>3. CASE /\ image[i].once = "done" /\ ~image[i].err /\ Go(j, "create") /\ UNCHANGED <<image, pulls>>
    <3>1. job'[j].stage = "create"
          BY <1>1, <2>3, CallMoves, StageNames DEF EngineTypes
    <3> QED
        BY <1>1, <2>3, <3>1 DEF ImageInv, At, InContainer
  <2> QED
      BY <1>3, <2>1, <2>2, <2>3 DEF Ensure, Passes
<1>4. CASE Pull(j)
  <2>1. PICK ok \in BOOLEAN :
          /\ image' = [image EXCEPT ![i] = Pulled(i, ok)]
          /\ pulls' = [pulls EXCEPT ![i] = @ + 1]
          /\ IF ok THEN Go(j, "create") ELSE Fails(j)
        BY <1>4 DEF Pull
  <2>2. IF ok THEN job'[j].stage = "create" ELSE job'[j].stage = "returned"
        BY <1>1, <2>1, CallMoves, StageNames DEF EngineTypes, Fails
  <2>3. /\ image[i].once = "busy" /\ pulls[i] = 0
        /\ \A k \in Jobs \ {j} : At(k, "pull") => wf.image[k] # i
        BY <1>1, <1>2, <1>4 DEF ImageInv, Pull
  <2>4. /\ image'[i].once = "done" /\ image'[i].err = ~ok /\ pulls'[i] = 1
        /\ \A h \in Images \ {i} : image'[h] = image[h] /\ pulls'[h] = pulls[h]
        BY <1>1, <1>2, <2>1, <2>3 DEF EngineTypes, Pulled
  <2>5. \A h \in Images : pulls'[h] = IF image'[h].once = "done" THEN 1 ELSE 0
        BY <1>1, <2>4 DEF ImageInv
  <2>6. \A k \in Jobs \ {j} : InContainer(k) \/ At(k, "create") \/ At(k, "start") => wf.image[k] # i
        BY <1>1, <2>3 DEF ImageInv
  <2>7. \A k \in Jobs : job'[k].stage = "pull" => k # j
        BY <2>2
  <2>8. \A k \in Jobs : job'[k].stage \in {"create", "start", "meta", "steps", "remove"} =>
          image'[wf.image[k]].once = "done" /\ ~image'[wf.image[k]].err
    <3> SUFFICES ASSUME NEW k \in Jobs,
                        job'[k].stage \in {"create", "start", "meta", "steps", "remove"}
                 PROVE  image'[wf.image[k]].once = "done" /\ ~image'[wf.image[k]].err
        OBVIOUS
    <3>1. CASE k = j
          BY <2>2, <2>4, <3>1
    <3>2. CASE k # j
          BY <1>1, <1>2, <2>4, <2>6, <3>2 DEF ImageInv, At, InContainer
    <3> QED
        BY <3>1, <3>2
  <2> QED
      BY <1>1, <1>2, <2>3, <2>4, <2>5, <2>7, <2>8 DEF ImageInv, At, InContainer
<1>5. CASE ~Ensure(j) /\ ~Pull(j)
  <2>1. UNCHANGED <<image, pulls>>
        BY <1>5 DEF JobStep, Begin, Seed, Create, Start, Meta, SkipStep, ExecSucceeds, ExecExits,
                    ExecErrs, EndSteps, Remove, Publish
  <2>2. /\ job'[j].stage \notin {"pull", "create"}
        /\ job'[j].stage \in {"start", "meta", "steps", "remove"} =>
             job[j].stage \in {"create", "start", "meta", "steps"}
        BY <1>5, StageMoves DEF JobStep, IInv
  <2> QED
      BY <1>1, <2>1, <2>2 DEF ImageInv, At, InContainer
<1> QED
    BY <1>3, <1>4, <1>5

\* A step of a job drops errors, and takes back none.
LEMMA IgnoredGrows ==
  ASSUME NEW j \in Jobs, JobStep(j)
  PROVE  ignored \subseteq ignored'
BY DEF JobStep, Begin, Seed, Ensure, Pull, Create, Start, Meta, SkipStep, ExecSucceeds, ExecExits,
       ExecErrs, EndSteps, Remove, Publish, Ignores

\* A job that may have a container.
Uses(j) ==
  \/ InContainer(j) \/ At(j, "start")
  \/ At(j, "returned") /\ job[j].result = "error" /\ job[j].step = 0

\* Only an operation of its own ends or begins a container's use.
LEMMA JobStepContainers ==
  ASSUME IInv, NEW j \in Jobs, JobStep(j)
  PROVE  StartedContainersRemoved'
<1>1. /\ EngineTypes /\ JobsInv /\ wf' = wf /\ job \in [Jobs -> Calls]
      /\ \A k \in Jobs \ {j} : job'[k] = job[k]
      BY JobStepFrame DEF IInv, Frame, OnlyCall, EngineTypes
<1>2. \A c \in containers : Stuck(c) \/ \E k \in Jobs : c = ContainerName(k) /\ Uses(k)
      BY DEF IInv, StartedContainersRemoved, Uses
<1>3. \A k \in Jobs : ContainerName(k)' = ContainerName(k)
      BY <1>1 DEF ContainerName
<1>4. \A k \in Jobs \ {j} : Uses(k)' <=> Uses(k)
      BY <1>1 DEF Uses, InContainer, At
<1>5. SUFFICES \A c \in containers' : Stuck(c)' \/ \E k \in Jobs : c = ContainerName(k) /\ Uses(k)'
      BY <1>3 DEF StartedContainersRemoved, Uses
<1>6. \A c : Stuck(c) => Stuck(c)'
      BY <1>3, IgnoredGrows DEF Stuck
<1>7. Fails(j) /\ job[j].stage \in {"create", "start"} => Uses(j)'
  <2> SUFFICES ASSUME Fails(j), job[j].stage \in {"create", "start"} PROVE Uses(j)'
      OBVIOUS
  <2>1. /\ job'[j].stage = "returned" /\ job'[j].result = "error" /\ job'[j].step = job[j].step
        BY <1>1, CallMoves, StageNames DEF Fails, Keeps
  <2>2. job[j].step = 0
        BY <1>1 DEF JobsInv, Lifecycle, Unstepped, Undecided
  <2> QED
      BY <2>1, <2>2 DEF Uses, At
<1>8. CASE Create(j)
  <2>1. containers' \subseteq containers \cup {ContainerName(j)} /\ ~Uses(j)
        BY <1>8 DEF Create, Uses, At, InContainer
  <2>2. containers' = containers \/ Uses(j)'
    <3>1. CASE Go(j, "start")
          BY <1>1, <3>1, CallMoves, StageNames DEF Uses, At
    <3>2. CASE Fails(j)
          BY <1>7, <1>8, <3>2 DEF Create, At
    <3> QED
        BY <1>8, <3>1, <3>2 DEF Create
  <2> QED
      BY <1>2, <1>4, <1>6, <2>1, <2>2
<1>9. CASE Remove(j)
  <2>1. CASE containers' = Removes(j)
    <3>1. containers' = containers \ {ContainerName(j)}
          BY <2>1 DEF Removes
    <3> QED
        BY <1>2, <1>4, <1>6, <3>1
  <2>2. CASE Ignores(j, "remove") /\ UNCHANGED containers
    <3>1. \A c : c = ContainerName(j) => Stuck(c)'
          BY <1>3, <2>2 DEF Ignores, Stuck
    <3> QED
        BY <1>2, <1>4, <1>6, <2>2, <3>1
  <2> QED
      BY <1>9, <2>1, <2>2 DEF Remove
<1>10. CASE ~Create(j) /\ ~Remove(j)
  <2>1. UNCHANGED containers
        BY <1>10 DEF JobStep, Begin, Seed, Ensure, Pull, Start, Meta, SkipStep, ExecSucceeds, ExecExits,
                    ExecErrs, EndSteps, Publish
  <2>2. Uses(j) => Uses(j)'
    <3>1. CASE Start(j)
      <4>1. Go(j, "meta") \/ Fails(j)
            BY <3>1 DEF Start
      <4>2. Go(j, "meta") => job'[j].stage = "meta"
            BY <1>1, CallMoves, StageNames
      <4> QED
          BY <1>7, <3>1, <4>1, <4>2 DEF Start, Uses, At, InContainer
    <3>2. CASE ~Start(j)
          BY <1>1, <1>10, <3>2, StageMoves
          DEF JobStep, Begin, Seed, Ensure, Pull, Publish, Uses, At, InContainer
    <3> QED
        BY <3>1, <3>2
  <2> QED
      BY <1>2, <1>4, <1>6, <2>1, <2>2
<1> QED
    BY <1>8, <1>9, <1>10

\* The operations that neither write an output nor publish.
LEMMA OtherMoves ==
  ASSUME EngineTypes, JobsInv, NEW j \in Jobs,
         \/ Begin(j) \/ Seed(j) \/ Ensure(j) \/ Pull(j) \/ Create(j) \/ Start(j)
         \/ ExecExits(j) \/ ExecErrs(j) \/ EndSteps(j) \/ Remove(j)
  PROVE  /\ outs' = outs /\ job'[j].stage # "steps" /\ job'[j].outputs = job[j].outputs
         /\ job'[j].stage = "returned" => job'[j].result # "success"
<1>1. job \in [Jobs -> Calls]
      BY DEF EngineTypes
<1>2. outs' = outs
      BY DEF Begin, Seed, Ensure, Pull, Create, Start, ExecExits, ExecErrs, EndSteps, Remove
<1>3. \/ /\ job'[j].stage = "seed" /\ job'[j].outputs = job[j].outputs
      \/ \E s \in Stages \ {"steps", "returned"} : Go(j, s)
      \/ \E r \in Results : Ends(j, "remove", r)
      \/ \E r \in Results \ {"success"} : Ends(j, "returned", r)
      BY LongMoves, StageNames
      DEF Seed, Ensure, Pull, Create, Start, ExecExits, ExecErrs, EndSteps, Remove, Fails
<1> QED
    BY <1>1, <1>2, <1>3, CallMoves, StageNames DEF Keeps

LEMMA JobStepOutputs ==
  ASSUME IInv, NEW j \in Jobs, JobStep(j)
  PROVE  OutputsInv'
<1>1. /\ EngineTypes /\ JobsInv /\ OutputsInv /\ job \in [Jobs -> Calls] /\ Frame(j) /\ Advances(j)
      /\ outs \in [Jobs -> Outputs] /\ NoOuts \notin SUBSET AllMarks
      BY JobStepFrame, WorkflowFacts DEF IInv, EngineTypes
<1> DEFINE Cleared(k) == <<k, "clear">> \notin ignored
           Own(k) ==
             /\ OwnOutputs(k) \/ ~Cleared(k)
             /\ At(k, "returned") /\ job[k].result = "success" => outs[k] # NoOuts
<1>2. \A k \in Jobs : Own(k)
      BY <1>1 DEF OutputsInv
<1>3. \A k \in Jobs : Cleared(k)' => Cleared(k)
      BY IgnoredGrows
<1>4. \A k \in Jobs \ {j} : Own(k)'
  <2> SUFFICES ASSUME NEW k \in Jobs \ {j} PROVE Own(k)'
      OBVIOUS
  <2>1. job'[k] = job[k] /\ tree'[k] = tree[k] /\ outs'[k] = outs[k]
        BY <1>1 DEF Frame, OnlyCall
  <2>2. OwnOutputs(k)' <=> OwnOutputs(k)
        BY <2>1 DEF OwnOutputs, At
  <2> QED
      BY <1>2, <1>3, <2>1, <2>2 DEF At
<1>5. CASE Meta(j)
  <2>1. job'[j].outputs = job[j].outputs /\ job'[j].stage # "returned"
        BY <1>1, <1>5, LongMoves, CallMoves, StageMoves, StageNames DEF Keeps
  <2>2. Cleared(j)' => tree'[j].env = {}
        BY <1>1, <1>5 DEF Meta, ClearsMeta, EngineTypes, Ignores
  <2>3. outs' = outs
        BY <1>5 DEF Meta
  <2>4. Own(j)'
        BY <1>2, <1>3, <2>1, <2>2, <2>3 DEF At, OwnOutputs
  <2> QED
      BY <1>4, <2>4 DEF OutputsInv
<1>6. CASE SkipStep(j) \/ ExecSucceeds(j)
  <2>1. /\ At(j, "steps") /\ outs' = outs /\ job'[j].stage = "steps"
        BY <1>1, <1>6, StageMoves DEF SkipStep, ExecSucceeds, At
  <2>2. tree'[j].env \subseteq tree[j].env \cup Marks(j)
        BY <1>1, <1>6, LongMoves DEF SkipStep
  <2>3. job'[j].outputs \subseteq job[j].outputs \cup tree'[j].env
        BY <1>1, <1>6, LongMoves
  <2>4. Own(j)'
        BY <1>2, <1>3, <2>1, <2>2, <2>3 DEF At, OwnOutputs
  <2> QED
      BY <1>4, <2>4 DEF OutputsInv
<1>7. CASE Publish(j)
  <2>1. /\ job'[j].outputs = job[j].outputs /\ job'[j].result = job[j].result
        /\ job'[j].stage = "returned"
        BY <1>1, <1>7, CallMoves, StageNames DEF Publish, Keeps
  <2>2. outs'[j] = IF job[j].result = "success" THEN job[j].outputs ELSE outs[j]
        BY <1>1, <1>7 DEF Publish, Published
  <2>3. job[j].outputs # NoOuts
        BY <1>1, CallFields
  <2>4. Own(j)'
        BY <1>2, <1>3, <2>1, <2>2, <2>3 DEF At, OwnOutputs
  <2> QED
      BY <1>4, <2>4 DEF OutputsInv
<1>8. CASE ~Meta(j) /\ ~SkipStep(j) /\ ~ExecSucceeds(j) /\ ~Publish(j)
  <2>1. outs' = outs /\ job'[j].stage # "steps" /\ job'[j].outputs = job[j].outputs
        BY <1>1, <1>8, OtherMoves DEF JobStep
  <2>2. job'[j].stage = "returned" => job'[j].result # "success"
        BY <1>1, <1>8, OtherMoves DEF JobStep
  <2>3. Own(j)'
        BY <1>2, <1>3, <2>1, <2>2 DEF At, OwnOutputs
  <2> QED
      BY <1>4, <2>3 DEF OutputsInv
<1> QED
    BY <1>5, <1>6, <1>7, <1>8

\* A job reads its needs' outputs once, and its own directory only fills.
LEMMA SeenMoves ==
  ASSUME EngineTypes, JobsInv, NEW j \in Jobs, JobStep(j)
  PROVE  job'[j].seen = job[j].seen \/ (Begin(j) /\ job'[j].seen = NeedsEnv(j))
<1>1. job \in [Jobs -> Calls]
      BY DEF EngineTypes
<1>2. CASE Begin(j)
      BY <1>1, <1>2, LongMoves, CallMoves, StageNames DEF Fails, Keeps
<1>3. CASE Meta(j) \/ SkipStep(j) \/ ExecSucceeds(j)
      BY <1>1, <1>3, LongMoves, CallMoves, StageNames DEF Keeps
<1>4. CASE ~Begin(j) /\ ~Meta(j) /\ ~SkipStep(j) /\ ~ExecSucceeds(j)
  <2>1. \/ \E s \in Stages : Go(j, s)
        \/ \E s \in Stages, r \in Results : Ends(j, s, r)
        BY <1>4, StageNames
        DEF JobStep, Seed, Ensure, Pull, Create, Start, ExecExits, ExecErrs, EndSteps, Remove,
            Publish, Fails
  <2> QED
      BY <1>1, <2>1, CallMoves DEF Keeps
<1> QED
    BY <1>2, <1>3, <1>4

LEMMA FilesGrow ==
  ASSUME EngineTypes, JobsInv, NEW j \in Jobs, JobStep(j), ~Seed(j)
  PROVE  tree[j].files \subseteq tree'[j].files
<1>1. tree \in [Jobs -> [files : SUBSET AllMarks, env : SUBSET AllMarks]]
      BY DEF EngineTypes
<1>2. CASE Meta(j)
      BY <1>1, <1>2 DEF Meta, ClearsMeta
<1>3. CASE ExecExits(j)
  <2>1. CASE Leaves(j, FALSE)
        BY <1>1, <2>1 DEF Leaves
  <2> QED
      BY <1>3, <2>1 DEF ExecExits
<1>4. CASE ExecSucceeds(j)
      BY <1>4, LongMoves
<1>5. CASE ~Meta(j) /\ ~ExecExits(j) /\ ~ExecSucceeds(j)
      BY <1>5 DEF JobStep, Begin, Ensure, Pull, Create, Start, SkipStep, ExecErrs, EndSteps, Remove,
                  Publish
<1> QED
    BY <1>2, <1>3, <1>4, <1>5

\* What a job took over, and what it took it from, stay as they were.
LEMMA JobStepTaken ==
  ASSUME IInv, NEW j \in Jobs, JobStep(j)
  PROVE  TakenInv'
<1>1. /\ EngineTypes /\ JobsInv /\ RunInv /\ TakenInv /\ job \in [Jobs -> Calls]
      /\ Frame(j) /\ Advances(j) /\ wf' = wf
      BY JobStepFrame DEF IInv, EngineTypes, Frame
<1>2. /\ job[j].stage \notin {"idle", "returned"} /\ phase[j] = "running"
      /\ \A n \in NeedSet(wf.needs, j) : n \in Jobs \ {j} /\ phase[n] = "success"
      BY <1>1, AtWork, WorkflowFacts DEF Advances
<1>3. /\ \A k \in Jobs : NeedSet(wf.needs, k) \subseteq Jobs
      /\ \A k \in Jobs : wf.inherit[k] # NoJob => wf.inherit[k] \in NeedSet(wf.needs, k)
      BY <1>1, WorkflowFacts
<1> DEFINE Seen(k) ==
             /\ At(k, "begin") \/ At(k, "idle") => DOMAIN job[k].seen = {}
             /\ job[k].seen = [n \in DOMAIN job[k].seen |-> outs[n]]
             /\ DOMAIN job[k].seen \subseteq NeedSet(wf.needs, k)
           Files(k) ==
             job[k].stage \in Seeded /\ wf.inherit[k] # NoJob =>
               tree[wf.inherit[k]].files \subseteq tree[k].files
<1>4. \A k \in Jobs : Seen(k) /\ Files(k)
      BY <1>1 DEF TakenInv
<1>5. SUFFICES \A k \in Jobs : Seen(k)' /\ Files(k)'
      BY DEF TakenInv
<1>6. ASSUME NEW k \in Jobs \ {j} PROVE Seen(k)' /\ Files(k)'
  <2>1. job'[k] = job[k] /\ tree'[k] = tree[k]
        BY <1>1 DEF Frame, OnlyCall
  <2>2. ~At(k, "idle") => j \notin NeedSet(wf.needs, k)
        BY <1>1, <1>2 DEF JobsInv, Lifecycle
  <2>3. \A n \in DOMAIN job[k].seen : outs'[n] = outs[n]
        BY <1>1, <1>3, <1>4, <2>2 DEF Frame
  <2>4. Seen(k)'
        BY <1>1, <1>4, <2>1, <2>3 DEF At
  <2>5. job[k].stage \in Seeded /\ wf.inherit[k] # NoJob =>
          tree'[wf.inherit[k]] = tree[wf.inherit[k]]
        BY <1>1, <1>3, <2>2 DEF Frame, Seeded, At
  <2> QED
      BY <1>1, <1>4, <2>1, <2>4, <2>5
<1>7. \A n \in NeedSet(wf.needs, j) : outs'[n] = outs[n] /\ tree'[n] = tree[n]
      BY <1>1, <1>2 DEF Frame
<1>8. Seen(j)'
  <2>1. job'[j].stage \notin {"idle", "begin"}
        BY <1>1 DEF Advances
  <2>2. CASE job'[j].seen = job[j].seen
    <3>1. ASSUME NEW D, D \subseteq NeedSet(wf.needs, j)
          PROVE  [n \in D |-> outs[n]] = [n \in D |-> outs'[n]]
          BY <1>7, <3>1
    <3>2. job[j].seen = [n \in DOMAIN job[j].seen |-> outs'[n]]
          BY <1>4, <3>1
    <3> QED
        BY <1>1, <1>4, <2>1, <2>2, <3>2 DEF At
  <2>3. CASE Begin(j) /\ job'[j].seen = NeedsEnv(j)
    <3>1. /\ job'[j].seen = [n \in NeedSet(wf.needs, j) |-> outs'[n]]
          /\ DOMAIN job'[j].seen = NeedSet(wf.needs, j)
          BY <1>7, <2>3 DEF NeedsEnv
    <3> QED
        BY <1>1, <2>1, <3>1 DEF At
  <2> QED
      BY <1>1, <2>2, <2>3, SeenMoves
<1>9. Files(j)'
  <2>1. CASE Seed(j)
    <3>1. CASE Fails(j)
          BY <1>1, <3>1, CallMoves, StageNames DEF Fails, Seeded
    <3>2. CASE tree' = IF wf.inherit[j] = NoJob THEN tree ELSE [tree EXCEPT ![j] = SeedTree(wf.inherit[j])]
          BY <1>1, <1>2, <1>3, <1>7, <3>2 DEF SeedTree, EngineTypes
    <3> QED
        BY <2>1, <3>1, <3>2 DEF Seed
  <2>2. CASE ~Seed(j)
    <3>1. job'[j].stage \in Seeded => job[j].stage \in Seeded
          BY <1>1, <2>2, StageMoves DEF JobStep, Seeded, Ensure, Pull, At
    <3>2. tree[j].files \subseteq tree'[j].files
          BY <1>1, <2>2, FilesGrow
    <3> QED
        BY <1>1, <1>3, <1>4, <1>7, <3>1, <3>2
  <2> QED
      BY <2>1, <2>2
<1> QED
    BY <1>6, <1>8, <1>9

----------------------------------------------------------------------------
(* What a step of the scheduler or of the run preserves. *)

LEMMA JobsAlone ==
  ASSUME IInv, UNCHANGED <<wf, job, tree, outs, image, containers, pulls, ignored>>
  PROVE  ImageInv' /\ StartedContainersRemoved' /\ OutputsInv' /\ TakenInv'
<1>1. ImageInv'
      BY DEF IInv, ImageInv, At, InContainer
<1>2. StartedContainersRemoved'
      BY ZenonT(60) DEF IInv, StartedContainersRemoved, Stuck, At, InContainer, ContainerName
<1>3. OutputsInv'
      BY DEF IInv, OutputsInv, OwnOutputs, At
<1>4. TakenInv'
      BY DEF IInv, TakenInv, At
<1> QED
    BY <1>1, <1>2, <1>3, <1>4

LEMMA LaunchKeeps ==
  ASSUME IInv, NEW j \in Jobs, Launch(j)
  PROVE  IInv'
<1>1. /\ ~aborted /\ ~over /\ phase[j] = "pending" /\ phase' = [phase EXCEPT ![j] = "running"]
      /\ \A n \in NeedSet(wf.needs, j) : phase[n] = "success"
      /\ UNCHANGED <<wf, aborted, over, tree, outs, image, containers, place, exit, root, pulls, infra, ignored>>
      /\ place = "jobs" /\ Go(j, "begin")
      BY ContractSteps DEF Launch, running
<1>2. /\ EngineTypes /\ JobsInv /\ job \in [Jobs -> Calls] /\ phase \in [Jobs -> Phases]
      BY DEF IInv, EngineTypes
<1>3. /\ OnlyCall(j) /\ Keeps(j) /\ job'[j].stage = "begin" /\ job'[j].result = job[j].result
      /\ job[j].stage = "idle" /\ job[j].step = 0 /\ job[j].result = "none"
      BY <1>1, <1>2, CallMoves, StageNames DEF JobsInv, Lifecycle, At, Unstepped, Undecided
<1>4. EngineTypes'
  <2>1. phase' \in [Jobs -> Phases] /\ job' \in [Jobs -> Calls]
        BY <1>1, <1>2, <1>3 DEF Phases, OnlyCall
  <2> QED
      BY <1>1, <1>2, <2>1 DEF EngineTypes
<1>5. JobsInv'
  <2>1. \A k \in Jobs \ {j} : phase'[k] = phase[k] /\ job'[k] = job[k]
        BY <1>1, <1>2, <1>3 DEF OnlyCall
  <2>2. \A k \in Jobs : \A n \in NeedSet(wf.needs, k) :
          n \in Jobs /\ (phase[n] # "pending" => phase'[n] = phase[n])
        BY <1>1, <1>2, WorkflowFacts, <2>1
  <2>3. ASSUME NEW k \in Jobs \ {j} PROVE Lifecycle(k)' /\ Delivered(k)'
        BY <1>1, <1>2, <2>1, <2>2 DEF JobsInv, Lifecycle, Delivered, At
  <2>4. phase'[j] = "running" /\ \A n \in NeedSet(wf.needs, j) : phase'[n] = "success"
        BY <1>1, <1>2, <2>2
  <2>5. Lifecycle(j)' /\ Delivered(j)'
        BY <1>1, <1>3, <2>4 DEF Lifecycle, Delivered, At, Ended, Unstepped, Undecided, Keeps
  <2> QED
      BY <2>3, <2>5 DEF JobsInv
<1>6. RunInv'
  <2>1. \A k \in Jobs : job'[k].result = job[k].result
        BY <1>3 DEF OnlyCall
  <2> QED
      BY <1>1, <2>1 DEF IInv, RunInv, ExitTells
<1>7. ImageInv'
      BY <1>1, <1>3 DEF IInv, ImageInv, OnlyCall, At, InContainer
<1>8. StartedContainersRemoved'
  <2>1. \A k \in Jobs : Uses(k) => Uses(k)'
        BY <1>3 DEF OnlyCall, At, InContainer, Uses
  <2>2. \A k \in Jobs : ContainerName(k)' = ContainerName(k)
        BY <1>1 DEF ContainerName
  <2>3. \A c : Stuck(c) => Stuck(c)'
        BY <1>1, <2>2 DEF Stuck
  <2>4. \A c \in containers : Stuck(c) \/ \E k \in Jobs : c = ContainerName(k) /\ Uses(k)
        BY DEF IInv, StartedContainersRemoved, Uses
  <2>5. containers' = containers
        BY <1>1
  <2>6. \A c \in containers' : Stuck(c)' \/ \E k \in Jobs : c = ContainerName(k)' /\ Uses(k)'
        BY <2>1, <2>2, <2>3, <2>4, <2>5
  <2> QED
      BY <2>6 DEF StartedContainersRemoved, Uses
<1>9. OutputsInv'
      BY <1>1, <1>3 DEF IInv, OutputsInv, OwnOutputs, OnlyCall, Keeps, At
<1>10. TakenInv'
      BY <1>1, <1>3 DEF IInv, TakenInv, OnlyCall, Keeps, At, Seeded
<1> QED
    BY <1>4, <1>5, <1>6, <1>7, <1>8, <1>9, <1>10 DEF IInv

LEMMA DeliverKeeps ==
  ASSUME IInv, NEW j \in Jobs, Deliver(j)
  PROVE  IInv'
<1>1. /\ EngineTypes /\ JobsInv /\ RunInv /\ phase \in [Jobs -> Phases]
      /\ UNCHANGED <<wf, job, tree, outs, image, containers, place, exit, root, pulls, infra, ignored, over>>
      /\ phase[j] = "running" /\ job[j].stage = "returned"
      BY ContractSteps DEF IInv, EngineTypes, Deliver, Returns, At, running
<1>2. /\ \E s \in Ended : phase' = [phase EXCEPT ![j] = s]
      /\ aborted' \in BOOLEAN /\ (aborted => aborted')
      /\ \/ job[j].result = "error" /\ aborted' /\ phase'[j] = "skipped"
         \/ phase'[j] = job[j].result
      BY <1>1, ContractSteps DEF Deliver, EngineTypes, Ended
<1>3. /\ phase' \in [Jobs -> Phases] /\ phase'[j] \in Ended
      /\ \A k \in Jobs \ {j} : phase'[k] = phase[k]
      BY <1>1, <1>2 DEF Phases, Ended
<1>4. EngineTypes'
      BY <1>1, <1>2, <1>3 DEF EngineTypes
<1>5. \A k \in Jobs : \A n \in NeedSet(wf.needs, k) :
        n \in Jobs /\ (phase[n] # "running" => phase'[n] = phase[n])
      BY <1>1, <1>3, WorkflowFacts
<1>6. ASSUME NEW k \in Jobs \ {j} PROVE Lifecycle(k)' /\ Delivered(k)'
      BY <1>1, <1>2, <1>3, <1>5 DEF JobsInv, Lifecycle, Delivered, At
<1>7. Lifecycle(j)' /\ Delivered(j)'
      BY <1>1, <1>2, <1>3, <1>5 DEF JobsInv, Lifecycle, Delivered, At, Ended
<1>8. RunInv'
      BY <1>1, <1>3 DEF RunInv, ExitTells, Ended
<1> QED
    BY <1>1, <1>4, <1>6, <1>7, <1>8, JobsAlone DEF IInv, JobsInv

LEMMA PassOverKeeps ==
  ASSUME IInv, NEW j \in Jobs, PassOver(j)
  PROVE  IInv'
<1>1. /\ EngineTypes /\ JobsInv /\ RunInv /\ phase \in [Jobs -> Phases] /\ place = "jobs"
      /\ UNCHANGED <<wf, job, tree, outs, image, containers, place, exit, root, pulls, infra, ignored>>
      /\ UNCHANGED <<aborted, over>> /\ ~over
      /\ phase[j] = "pending" /\ phase' = [phase EXCEPT ![j] = "skipped"]
      /\ \E n \in NeedSet(wf.needs, j) : phase[n] \in {"failed", "skipped"}
      BY ContractSteps DEF IInv, EngineTypes, PassOver, running
<1>2. /\ phase' \in [Jobs -> Phases] /\ phase'[j] = "skipped"
      /\ \A k \in Jobs \ {j} : phase'[k] = phase[k]
      BY <1>1 DEF Phases
<1>3. EngineTypes'
      BY <1>1, <1>2 DEF EngineTypes
<1>4. \A k \in Jobs : \A n \in NeedSet(wf.needs, k) :
        n \in Jobs /\ (phase[n] # "pending" => phase'[n] = phase[n])
      BY <1>1, <1>2, WorkflowFacts
<1>5. ASSUME NEW k \in Jobs \ {j} PROVE Lifecycle(k)' /\ Delivered(k)'
      BY <1>1, <1>2, <1>4 DEF JobsInv, Lifecycle, Delivered, At
<1>6. Lifecycle(j)' /\ Delivered(j)'
      BY <1>1, <1>2, <1>4 DEF JobsInv, Lifecycle, Delivered, At, Ended
<1>7. RunInv'
      BY <1>1, <1>2 DEF RunInv, ExitTells
<1> QED
    BY <1>1, <1>3, <1>5, <1>6, <1>7, JobsAlone DEF IInv, JobsInv

LEMMA ReturnKeeps ==
  ASSUME IInv, SchedulerReturns
  PROVE  IInv'
<1>1. /\ EngineTypes /\ JobsInv /\ RunInv /\ phase \in [Jobs -> Phases] /\ place = "jobs"
      /\ UNCHANGED <<wf, job, tree, outs, image, containers, place, exit, root, pulls, infra, ignored>>
      BY DEF IInv, EngineTypes, SchedulerReturns, running
<1>2. /\ UNCHANGED aborted /\ ~over /\ over' = TRUE
      /\ \A k \in Jobs : phase[k] # "running"
      /\ aborted \/ \A k \in Jobs : phase[k] # "pending"
      /\ phase' = [k \in Jobs |-> IF phase[k] = "pending" THEN "skipped" ELSE phase[k]]
  <2>1. Sched!Return
        BY DEF SchedulerReturns
  <2> QED
      BY <2>1 DEF Sched!Return, Sched!Running, Sched!Pending
<1>3. /\ phase' \in [Jobs -> Phases]
      /\ \A k \in Jobs : phase'[k] \in Ended
      /\ \A k \in Jobs : phase[k] # "pending" => phase'[k] = phase[k]
      /\ \A k \in Jobs : phase[k] = "pending" => phase'[k] = "skipped" /\ aborted
      BY <1>1, <1>2 DEF Phases, Ended
<1>4. EngineTypes'
      BY <1>1, <1>2, <1>3 DEF EngineTypes
<1>5. \A k \in Jobs : \A n \in NeedSet(wf.needs, k) :
        n \in Jobs /\ (phase[n] # "pending" => phase'[n] = phase[n])
      BY <1>1, <1>2, <1>3, WorkflowFacts
<1>6. ASSUME NEW k \in Jobs PROVE Lifecycle(k)' /\ Delivered(k)'
  <2>1. CASE phase[k] = "pending"
        BY <1>1, <1>2, <1>3, <1>5, <2>1 DEF JobsInv, Lifecycle, Delivered, At, Ended
  <2>2. CASE phase[k] # "pending"
        BY <1>1, <1>2, <1>3, <1>5, <2>2 DEF JobsInv, Lifecycle, Delivered, At, Ended
  <2> QED
      BY <2>1, <2>2
<1>7. RunInv'
      BY <1>1, <1>2, <1>3 DEF RunInv, ExitTells
<1> QED
    BY <1>1, <1>4, <1>6, <1>7, JobsAlone DEF IInv, JobsInv

LEMMA SetupKeeps ==
  ASSUME IInv, Setup
  PROVE  IInv'
<1>1. /\ EngineTypes /\ JobsInv /\ RunInv /\ place = "setup" /\ exit = 0
      /\ UNCHANGED <<wf, phase, aborted, over, job, tree, outs, image, containers, pulls, ignored>>
      BY DEF IInv, RunInv, Setup, scheduling
<1>2. ~over /\ ~infra
  <2>1. ~over
        BY <1>1 DEF RunInv
  <2>2. \A k \in Jobs : job[k].result \notin {"error", "failed"}
        BY <1>1 DEF RunInv, JobsInv, Lifecycle, At, Undecided
  <2> QED
      BY <1>1, <2>1, <2>2 DEF RunInv
<1>3. \/ place' = "jobs" /\ root' = "made" /\ exit' = 0 /\ infra' = infra
      \/ /\ place' = "exited" /\ exit' \in {2, 3} /\ root' \in {"none", "made", root}
         /\ infra' \in BOOLEAN
      BY <1>1 DEF Setup, EngineTypes
<1>4. EngineTypes'
      BY <1>1, <1>3 DEF EngineTypes
<1>5. JobsInv'
      BY <1>1 DEF JobsInv, Lifecycle, Delivered, At
<1>6. RunInv'
      BY <1>1, <1>2, <1>3 DEF RunInv, ExitTells
<1> QED
    BY <1>1, <1>4, <1>5, <1>6, JobsAlone DEF IInv

\* An error that was met shows in the phases once every job has ended.
LEMMA InfraShows ==
  ASSUME IInv, over, ~aborted, \A j \in Jobs : phase[j] # "failed"
  PROVE  infra => place = "exited" /\ ~over
<1>1. ASSUME NEW j \in Jobs PROVE job[j].result \notin {"error", "failed"}
  <2>1. phase[j] \in {"success", "skipped"}
        BY DEF IInv, RunInv, Ended
  <2>2. CASE At(j, "idle")
        BY <2>2 DEF IInv, JobsInv, Lifecycle, At, Undecided
  <2>3. CASE At(j, "returned")
        BY <2>1, <2>3 DEF IInv, JobsInv, Delivered
  <2> QED
      BY <2>1, <2>2, <2>3 DEF IInv, JobsInv, Lifecycle, Ended
<1> QED
    BY <1>1 DEF IInv, RunInv

\* What a job that did not run was skipped for, in a run without failures.
LEMMA SkipsExplained ==
  ASSUME IInv, over, ~aborted, \A k \in Jobs : phase[k] # "failed", NEW j \in Jobs
  PROVE  \/ phase[j] = "success" \/ job[j].result = "skipped"
         \/ At(j, "idle") /\ \E n \in NeedSet(wf.needs, j) : phase[n] = "skipped"
<1>1. phase[j] \in {"success", "skipped"} /\ (At(j, "idle") \/ At(j, "returned"))
      BY DEF IInv, RunInv, JobsInv, Lifecycle, Ended
<1>2. \A n \in NeedSet(wf.needs, j) : phase[n] # "failed"
      BY WorkflowFacts DEF IInv
<1> QED
    BY <1>1, <1>2 DEF IInv, JobsInv, Delivered

LEMMA ConcludeKeeps ==
  ASSUME IInv, Conclude
  PROVE  IInv'
<1>1. /\ EngineTypes /\ JobsInv /\ RunInv /\ place = "jobs" /\ over /\ exit = 0 /\ root # "removed"
      /\ UNCHANGED <<wf, phase, aborted, over, job, tree, outs, image, containers, pulls, infra, ignored>>
      BY DEF IInv, RunInv, Conclude, scheduling
<1>2. IF aborted THEN place' = "exited" /\ exit' = 3 /\ root' = "kept"
      ELSE place' = "attest" /\ exit' = ExitCode /\ root' = root
      BY DEF Conclude
<1>3. EngineTypes'
      BY <1>1, <1>2 DEF EngineTypes, ExitCode
<1>4. JobsInv'
      BY <1>1 DEF JobsInv, Lifecycle, Delivered, At
<1>5. infra' => \E k \in Jobs : job'[k].result \in {"error", "failed"}
      BY <1>1 DEF RunInv
<1>6. RunInv'
      BY <1>1, <1>2, <1>5 DEF RunInv, ExitTells, ExitCode
<1> QED
    BY <1>1, <1>3, <1>4, <1>6, JobsAlone DEF IInv

LEMMA AttestKeeps ==
  ASSUME IInv, Attest
  PROVE  IInv'
<1>1. /\ EngineTypes /\ JobsInv /\ RunInv /\ place = "attest" /\ place' = "cleanup"
      /\ UNCHANGED <<wf, phase, aborted, over, job, tree, outs, image, containers, pulls, infra, ignored>>
      /\ UNCHANGED <<exit, root>>
      BY DEF IInv, Attest, scheduling
<1>2. EngineTypes' /\ JobsInv'
      BY <1>1 DEF EngineTypes, JobsInv, Lifecycle, Delivered, At
<1>3. RunInv'
      BY <1>1 DEF RunInv, ExitTells, ExitCode
<1> QED
    BY <1>1, <1>2, <1>3, JobsAlone DEF IInv

LEMMA CleanupKeeps ==
  ASSUME IInv, Cleanup
  PROVE  IInv'
<1>1. /\ EngineTypes /\ JobsInv /\ RunInv /\ place = "cleanup" /\ place' = "exited"
      /\ UNCHANGED <<wf, phase, aborted, over, job, tree, outs, image, containers, pulls, infra, ignored>>
      /\ UNCHANGED exit /\ root' \in {"removed", "kept"} /\ (root' = "removed" => exit = 0)
      BY DEF IInv, Cleanup, scheduling
<1>2. over /\ ~aborted /\ exit = ExitCode
      BY <1>1 DEF RunInv
<1>3. EngineTypes' /\ JobsInv'
      BY <1>1 DEF EngineTypes, JobsInv, Lifecycle, Delivered, At
<1>4. exit = 0 => \A j \in Jobs : phase[j] # "failed"
      BY <1>2 DEF ExitCode
<1>5. exit = 0 => ~infra
      BY <1>1, <1>2, <1>4, InfraShows
<1>6. exit = 0 => \A j \in Jobs :
        \/ phase[j] = "success" \/ job[j].result = "skipped"
        \/ At(j, "idle") /\ \E n \in NeedSet(wf.needs, j) : phase[n] = "skipped"
      BY <1>2, <1>4, SkipsExplained
<1>7. ExitTells'
      BY <1>1, <1>2, <1>5, <1>6 DEF ExitTells, ExitCode, At
<1>8. RunInv'
      BY <1>1, <1>2, <1>7 DEF RunInv
<1> QED
    BY <1>1, <1>3, <1>8, JobsAlone DEF IInv

----------------------------------------------------------------------------
(* The theorems. *)

LEMMA Inductive == IInv /\ [Next]_vars => IInv'
<1> SUFFICES ASSUME IInv, [Next]_vars PROVE IInv'
    OBVIOUS
<1>1. ASSUME NEW j \in Jobs, JobStep(j) PROVE IInv'
      BY <1>1, JobStepFrame, JobStepJobs, JobStepImage, JobStepContainers, JobStepOutputs,
         JobStepTaken DEF IInv
<1>2. CASE UNCHANGED vars
  <2>1. UNCHANGED <<wf, phase, aborted, over, job, tree, outs, image, containers, pulls, ignored, place, exit,
                    root, infra>>
        BY <1>2 DEF vars, scheduling, running
  <2>2. EngineTypes' /\ JobsInv'
        BY <2>1 DEF IInv, EngineTypes, JobsInv, Lifecycle, Delivered, At
  <2>3. RunInv'
        BY <2>1 DEF IInv, RunInv, ExitTells, ExitCode, At
  <2> QED
      BY <2>1, <2>2, <2>3, JobsAlone DEF IInv
<1> QED
    BY <1>1, <1>2, SetupKeeps, ReturnKeeps, ConcludeKeeps, AttestKeeps, CleanupKeeps, LaunchKeeps,
       DeliverKeeps, PassOverKeeps DEF Next

LEMMA Invariance == Spec => []IInv
BY Initially, Inductive, PTL DEF Spec

\* Whatever the jobs do, the runtime gets only names it accepts, and every part
\* of the run's state has the values its code distinguishes (containerName,
\* exit codes 0 to 3).
THEOREM TypeCorrect == Spec => []TypeOK
<1>1. IInv => TypeOK
  <2> SUFFICES ASSUME IInv PROVE TypeOK
      OBVIOUS
  <2>1. \A j \in Jobs : job[j] \in Calls
        BY DEF IInv, EngineTypes
  <2> QED
      BY <2>1, CallFields DEF IInv, EngineTypes, TypeOK, Results
<1> QED
    BY <1>1, Invariance, PTL

\* A dependent reads the complete outputs of all its needs (runOne, jobOutputs),
\* in every interleaving of the jobs in flight.
THEOREM OutputsReach == Spec => []SeesNeedsOutputs
<1>1. IInv => SeesNeedsOutputs
  <2> SUFFICES ASSUME IInv, NEW j \in Jobs, ~At(j, "idle"), NEW n \in DOMAIN job[j].seen
               PROVE  job[j].seen[n] = outs[n] /\ outs[n] # NoOuts
      BY DEF SeesNeedsOutputs, At
  <2>1. job[j].seen[n] = outs[n] /\ n \in NeedSet(wf.needs, j) /\ n \in Jobs
        BY WorkflowFacts DEF IInv, TakenInv
  <2>2. phase[n] = "success"
        BY <2>1 DEF IInv, JobsInv, Lifecycle
  <2>3. At(n, "returned") /\ job[n].result = "success"
        BY <2>1, <2>2 DEF IInv, JobsInv, Delivered
  <2> QED
      BY <2>1, <2>3 DEF IInv, OutputsInv
<1> QED
    BY <1>1, Invariance, PTL

\* With inherit:, a job's steps start from the parent's whole and final tree
\* (Seed), whatever other jobs do at the time.
THEOREM TreesReach == Spec => []SeedsWholeParent
<1>1. IInv => SeedsWholeParent
  <2> SUFFICES ASSUME IInv, NEW j \in Jobs, wf.inherit[j] # NoJob, InContainer(j)
               PROVE  /\ tree[wf.inherit[j]].files \subseteq tree[j].files
                      /\ job[wf.inherit[j]].result = "success"
      BY DEF SeedsWholeParent
  <2>1. wf.inherit[j] \in NeedSet(wf.needs, j) /\ wf.inherit[j] \in Jobs
        BY WorkflowFacts DEF IInv
  <2>2. phase[wf.inherit[j]] = "success"
        BY <2>1 DEF IInv, JobsInv, Lifecycle, InContainer, At
  <2> QED
      BY <2>1, <2>2 DEF IInv, JobsInv, Delivered, TakenInv, InContainer, Seeded
<1> QED
    BY <1>1, Invariance, PTL

\* What a job exports its own steps have set: RemoveAll takes what the parent
\* left in the tree, or has failed.
THEOREM ExportsOwn == Spec => []OwnOutputsOnly
<1>1. IInv => OwnOutputsOnly
      BY DEF IInv, OutputsInv, OwnOutputs, OwnOutputsOnly
<1> QED
    BY <1>1, Invariance, PTL

\* However many jobs ask for an image at once, it is pulled once, and none goes
\* on before the pull succeeded (imageCache.ensure).
THEOREM PulledOnce == Spec => []ImageReady
<1>1. IInv => ImageReady
      BY DEF IInv, ImageInv, ImageReady
<1> QED
    BY <1>1, Invariance, PTL

\* The removal of a container that ran a step was tried before its job returned
\* (the deferred rt.Remove): what may be left is a container whose create or start
\* failed, or whose removal did.
THEOREM ContainersEnd == Spec => []StartedContainersRemoved
BY Invariance, PTL DEF IInv

\* emitProvenance hashes, and Cleanup removes, trees in which no job is at work
\* and that only a container whose removal failed has still mounted.
THEOREM TreesSettled == Spec => []AttestsSettledTrees
<1>1. IInv => AttestsSettledTrees
  <2> SUFFICES ASSUME IInv, place \in {"attest", "cleanup"}
               PROVE  /\ \A c \in containers : Stuck(c)
                      /\ \A j \in Jobs : job[j].stage \in {"idle", "returned"}
      BY DEF AttestsSettledTrees
  <2>1. over /\ ~aborted /\ \A j \in Jobs : phase[j] \in Ended
        BY DEF IInv, RunInv
  <2>2. \A j \in Jobs : job[j].stage \in {"idle", "returned"}
        BY <2>1 DEF IInv, JobsInv, Lifecycle, At
  <2>3. ASSUME NEW j \in Jobs, At(j, "returned") PROVE job[j].result # "error"
        BY <2>1, <2>3 DEF IInv, JobsInv, Delivered, Ended
  <2>4. \A c \in containers : Stuck(c)
        BY <2>2, <2>3 DEF IInv, StartedContainersRemoved, InContainer, At
  <2> QED
      BY <2>2, <2>4
<1> QED
    BY <1>1, Invariance, PTL

\* The exit code tells what became of the jobs (Run's return values).
THEOREM ExitCodesTell == Spec => []ExitTells
BY Invariance, PTL DEF IInv, RunInv

\* A run of the engine is, for the scheduler, a run as JobRun promises one: the
\* contract that Scheduler implements is all that the engine uses of it.
THEOREM FollowsContract == Spec => Sched!Spec
<1>1. Init => Sched!Init
      BY DEF Init
<1>2. IInv /\ [Next]_vars => [Sched!Next]_(Sched!vars)
  <2> SUFFICES ASSUME IInv, [Next]_vars PROVE Sched!Next \/ UNCHANGED Sched!vars
      OBVIOUS
  <2>1. ASSUME NEW j \in Jobs, JobStep(j) PROVE UNCHANGED Sched!vars
        BY <2>1, JobStepFrame DEF IInv, Frame, Sched!vars
  <2>2. ASSUME NEW j \in Jobs, Launch(j) \/ PassOver(j) PROVE Sched!Next
        BY <2>2 DEF Launch, PassOver, Sched!Next
  <2>3. ASSUME NEW j \in Jobs, Deliver(j) PROVE Sched!Next
    <3>1. Sched!Abort(j) \/ Sched!Finish(j)
          BY <2>3 DEF Deliver
    <3> QED
        BY <3>1 DEF Sched!Next
  <2>4. CASE SchedulerReturns
        BY <2>4 DEF SchedulerReturns, Sched!Next
  <2>5. CASE Setup \/ Conclude \/ Attest \/ Cleanup \/ UNCHANGED vars
        BY <2>5 DEF Setup, Conclude, Attest, Cleanup, vars, scheduling, Sched!vars
  <2> QED
      BY <2>1, <2>2, <2>3, <2>4, <2>5 DEF Next
<1> QED
    BY <1>1, <1>2, Invariance, PTL DEF Spec, Sched!Spec
=============================================================================
