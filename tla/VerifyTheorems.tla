--------------------------- MODULE VerifyTheorems ---------------------------
(***************************************************************************)
(* What a manifest and a verification say of the run they are about, for   *)
(* every workflow, whatever moves between the run and its replay, and      *)
(* wherever either of them is cut short.                                   *)
(***************************************************************************)
EXTENDS Verify, TLAPS

----------------------------------------------------------------------------
(* The inductive invariant. *)

Resolved == Digests \cup {NoDigest}
Fetched == Commits \cup {NoCommit}
Contents == [image : Resolved, key : Fetched, epoch : Nat, clock : Nat]
Trees == UNION {[S -> Contents] : S \in SUBSET Files}
Places == {"idle", "recipe", "load", "jobs", "done"}
Stages == {"waiting", "ensured"} \cup Settled
Ran == {"success", "failed"}

Executions ==
  [pc : Places, wf : Workflows \cup {NoFile}, keys : [Keys -> Fetched],
   pin : [Images -> Resolved], ensured : SUBSET Images, digest : [Images -> Resolved],
   epoch : Nat, stage : [Jobs -> Stages], tree : [Jobs -> Trees],
   from : [Jobs -> Resolved], unread : SUBSET Jobs, exit : {-1, 0, 1, 2, 3}]

VerifyTypes ==
  /\ file \in Workflows \cup {NoFile}
  /\ registry \in [Images -> Digests] /\ local \in [Images -> Resolved]
  /\ tags \in [Keys -> Commits] /\ head \in Heads \cup {NoHead} /\ now \in Nat
  /\ side \in [Sides -> Executions]
  /\ manifest # NoManifest => /\ manifest.recipe \in Workflows
                              /\ manifest.images \in [Images -> Resolved]
                              /\ manifest.keys \in [Keys -> Fetched]
  /\ strict \in BOOLEAN
  /\ disturbed \in [Sides -> SUBSET {"recipe", "image"}]

run == side["run"]
verify == side["verify"]

\* The verification begins when the run is over and has left a manifest.
OrderInv ==
  /\ run.pc \in {"idle", "jobs", "done"} /\ run.pin = ImagesAsIs
  /\ \A s \in Sides : side[s].pc = "jobs" => side[s].wf # NoFile
  /\ manifest # NoManifest => run.pc = "done" /\ run.wf # NoFile
  /\ verify.pc # "idle" => manifest # NoManifest
  /\ verify.pc \in {"idle", "recipe", "load"} => verify.wf = NoFile
  /\ \A s \in Sides : side[s].wf = NoFile => \A j \in Jobs : side[s].stage[j] = "waiting"
  /\ \A s \in Sides : side[s].exit = -1 <=> side[s].pc # "done"

\* How a job came to where it is, and what its tree is made from.
JobInv(x, j) ==
  /\ x.stage[j] \notin Ran => x.tree[j] = <<>>
  /\ x.wf # NoFile =>
       /\ x.stage[j] = "skipped" =>
            \/ j \in x.wf.off
            \/ \E n \in NeedSet(x.wf.needs, j) : x.stage[n] \in Settled \ {"success"}
       /\ x.stage[j] \in {"ensured"} \cup Ran =>
            j \notin x.wf.off /\ \A n \in NeedSet(x.wf.needs, j) : x.stage[n] = "success"
       /\ x.stage[j] = "failed" => j \in x.wf.flaky
       /\ x.stage[j] = "success" /\ j \notin x.wf.flaky /\ x.wf.reads[j] = {} =>
            x.tree[j] = [f \in x.wf.files[j] |->
                           [image |-> x.from[j],
                            key |-> IF x.wf.uses[j] = NoKey THEN NoCommit
                                    ELSE x.keys[x.wf.uses[j]],
                            epoch |-> 0, clock |-> 0]]
       /\ LET pinned == x.pin[x.wf.image[j]]
          IN  x.stage[j] \in Ran /\ pinned # NoDigest => x.from[j] = pinned

JobsInv == \A s \in Sides, j \in Jobs : JobInv(side[s], j)

\* The store holds what the run ensured, and what it resolved as long as
\* nobody else pulls.
ImageInv ==
  /\ \A i \in Images :
       /\ run.digest[i] # NoDigest => i \in run.ensured
       /\ run.pc = "jobs" /\ i \in run.ensured => local[i] # NoDigest
       /\ run.pc = "jobs" /\ "image" \notin disturbed["run"] =>
            run.digest[i] \in {local[i], NoDigest}
  /\ run.wf # NoFile =>
       \A j \in Jobs : LET i == run.wf.image[j]
                       IN  /\ run.stage[j] \in {"ensured"} \cup Ran => i \in run.ensured
                           /\ run.stage[j] \in Ran <=> run.from[j] # NoDigest
                           /\ run.pc = "jobs" /\ "image" \notin disturbed["run"] =>
                                run.from[j] \in {local[i], NoDigest}
                           /\ "image" \notin disturbed["run"] =>
                                \/ NoDigest \in {run.from[j], run.digest[i]}
                                \/ run.from[j] = run.digest[i]

\* The file is read more than once: what was read before an edit is known.
RecipeInv ==
  /\ run.pc = "jobs" /\ "recipe" \notin disturbed["run"] => file = run.wf
  /\ verify.pc = "load" /\ "recipe" \notin disturbed["verify"] => file = manifest.recipe
  /\ verify.wf # NoFile /\ "recipe" \notin disturbed["verify"] => verify.wf = manifest.recipe

\* What the manifest took over from the run.
ManifestInv ==
  manifest # NoManifest =>
    /\ "recipe" \notin disturbed["run"] => manifest.recipe = run.wf
    /\ manifest.subjects = Attested(manifest.recipe, Subjects(run.tree, run.unread))
    /\ manifest.images = run.digest /\ manifest.keys = run.keys
    /\ \A j \in Jobs : run.stage[j] \in Settled
    /\ run.exit = IF AnyFailed("run") THEN 1 ELSE 0

\* What the replay took over from the manifest.
PinInv ==
  /\ run.wf # NoFile => \A k \in KeysOf(run.wf) : run.keys[k] # NoCommit
  /\ verify.wf # NoFile =>
       /\ verify.pin = manifest.images
       /\ \A k \in KeysOf(verify.wf) :
            manifest.keys[k] # NoCommit => verify.keys[k] = manifest.keys[k]

\* The replay of a run that succeeded takes the same jobs to the same ends.
SameEnds(j) ==
  /\ verify.stage[j] \in {"ensured"} \cup Ran => run.stage[j] = "success"
  /\ verify.stage[j] = "skipped" => run.stage[j] # "success"

AgreeInv ==
  verify.wf # NoFile /\ verify.wf = run.wf /\ run.wf.flaky = {} /\ run.exit = 0 =>
    \A j \in Jobs : SameEnds(j)

\* Only the comparison ends a replay with 0 or 1.
OutcomeInv ==
  /\ verify.exit = 0 => verify.wf # NoFile
  /\ verify.exit \in {0, 1} /\ verify.wf # NoFile =>
       /\ \A j \in Jobs : verify.stage[j] \in Settled
       /\ verify.exit =
            IF Verified(manifest.subjects, Subjects(verify.tree, verify.unread),
                        AnyFailed("verify"), strict) THEN 0 ELSE 1

IInv == /\ VerifyTypes /\ OrderInv /\ JobsInv /\ ImageInv /\ RecipeInv
        /\ ManifestInv /\ PinInv /\ AgreeInv /\ OutcomeInv

----------------------------------------------------------------------------
(* What each step changes, and that it keeps the types. *)

Only(s) ==
  /\ \A t \in Sides \ {s} : side'[t] = side[t]
  /\ UNCHANGED <<file, registry, tags, head, now, disturbed>>

\* A step of job j: the side keeps its plan, and every other job its place.
JobStep(s, j) ==
  /\ Only(s) /\ UNCHANGED <<manifest, strict>>
  /\ side[s].pc = "jobs" /\ side'[s].pc = "jobs" /\ side'[s].wf = side[s].wf
  /\ side'[s].keys = side[s].keys /\ side'[s].pin = side[s].pin
  /\ side'[s].unread = side[s].unread /\ side'[s].exit = side[s].exit
  /\ \A k \in Jobs \ {j} : /\ side'[s].stage[k] = side[s].stage[k]
                           /\ side'[s].tree[k] = side[s].tree[k]
                           /\ side'[s].from[k] = side[s].from[k]

LEMMA UnusedType == Unused \in Executions
<1>1. <<>> \in Trees
      <2>1. <<>> \in [{} -> Contents] /\ {} \in SUBSET Files
            OBVIOUS
      <2> QED
          BY <2>1 DEF Trees
<1>2. /\ [k \in Keys |-> NoCommit] \in [Keys -> Fetched]
      /\ [i \in Images |-> NoDigest] \in [Images -> Resolved]
      /\ [j \in Jobs |-> NoDigest] \in [Jobs -> Resolved]
      BY DEF Fetched, Resolved
<1>3. [j \in Jobs |-> "waiting"] \in [Jobs -> Stages] /\ "idle" \in Places
      BY DEF Stages, Places
<1>4. [j \in Jobs |-> <<>>] \in [Jobs -> Trees]
      BY <1>1
<1> HIDE DEF Trees, Stages, Places, Fetched, Resolved
<1> QED
    BY <1>2, <1>3, <1>4 DEF Unused, Executions

LEMMA BecomeGives ==
  ASSUME VerifyTypes, NEW s \in Sides, NEW new \in Executions, Become(s, new)
  PROVE  /\ side'[s] = new /\ \A t \in Sides \ {s} : side'[t] = side[t]
         /\ side' \in [Sides -> Executions]
BY Zenon DEF VerifyTypes, Become

\* What a workflow names.
LEMMA WorkflowGives ==
  ASSUME NEW w \in Workflows
  PROVE  /\ w # NoFile
         /\ \A j \in Jobs : /\ NeedSet(w.needs, j) \subseteq Jobs /\ w.image[j] \in Images
                            /\ w.uses[j] \in Keys \cup {NoKey}
                            /\ w.files[j] \subseteq Files
BY VerifyAssumption DEF NeedSet

LEMMA SkipGives ==
  ASSUME VerifyTypes, NEW s \in Sides, NEW j \in Jobs, SkipJob(s, j)
  PROVE  /\ VerifyTypes' /\ JobStep(s, j) /\ UNCHANGED local /\ Ready(s, j) /\ ~Runs(s, j)
         /\ side'[s].stage[j] = "skipped"
         /\ side'[s].tree = side[s].tree /\ side'[s].from = side[s].from
         /\ side'[s].ensured = side[s].ensured /\ side'[s].digest = side[s].digest
<1> DEFINE x == side[s]
           stage == [x.stage EXCEPT ![j] = "skipped"]
           new == [x EXCEPT !.stage = stage]
<1>1. x \in Executions /\ x.stage \in [Jobs -> Stages]
      BY DEF VerifyTypes, Executions
<1>2. stage \in [Jobs -> Stages]
      BY <1>1 DEF Stages, Settled
<1>3. /\ stage[j] = "skipped" /\ \A k \in Jobs \ {j} : stage[k] = x.stage[k]
      BY <1>1
<1>4. Become(s, new)
      BY DEF SkipJob
<1> HIDE DEF stage, Trees, Stages, Places, Fetched, Resolved
<1>5. new \in Executions
      BY <1>1, <1>2, SMTT(30) DEF Executions
<1>6. /\ new.stage = stage /\ new.pc = x.pc /\ new.wf = x.wf /\ new.keys = x.keys
      /\ new.pin = x.pin /\ new.unread = x.unread /\ new.exit = x.exit /\ new.tree = x.tree
      /\ new.from = x.from /\ new.ensured = x.ensured /\ new.digest = x.digest
      BY <1>1 DEF Executions
<1> HIDE DEF new
<1>7. /\ side'[s] = new /\ side' \in [Sides -> Executions]
      /\ \A t \in Sides \ {s} : side'[t] = side[t]
      BY <1>4, <1>5, BecomeGives
<1>8. UNCHANGED <<file, registry, local, tags, head, now, manifest, strict, disturbed>>
      BY DEF SkipJob, world
<1>9. Ready(s, j) /\ ~Runs(s, j) /\ x.pc = "jobs"
      BY DEF SkipJob, Ready, Is
<1>10. VerifyTypes'
       BY <1>7, <1>8 DEF VerifyTypes
<1> QED
    BY <1>3, <1>6, <1>7, <1>8, <1>9, <1>10 DEF JobStep, Only

LEMMA EnsureGives ==
  ASSUME VerifyTypes, NEW s \in Sides, NEW j \in Jobs, Ensure(s, j), side[s].wf # NoFile
  PROVE  /\ VerifyTypes' /\ JobStep(s, j) /\ Ready(s, j) /\ Runs(s, j)
         /\ side'[s].stage[j] = "ensured"
         /\ side'[s].tree = side[s].tree /\ side'[s].from = side[s].from
         /\ side'[s].ensured = side[s].ensured \cup {side[s].wf.image[j]}
         /\ side[s].wf.image[j] \in Images
         /\ \/ /\ UNCHANGED local /\ side'[s].digest = side[s].digest
               /\ \/ side[s].wf.image[j] \in side[s].ensured
                  \/ side[s].pin[side[s].wf.image[j]] # NoDigest
            \/ /\ side[s].wf.image[j] \notin side[s].ensured
               /\ local'[side[s].wf.image[j]] # NoDigest
               /\ \A i \in Images : local[i] # NoDigest => local'[i] = local[i]
               /\ \A i \in Images \ {side[s].wf.image[j]} : side'[s].digest[i] = side[s].digest[i]
               /\ side'[s].digest[side[s].wf.image[j]] \in {local'[side[s].wf.image[j]], NoDigest}
<1> DEFINE x == side[s]
           i == x.wf.image[j]
           stage == [x.stage EXCEPT ![j] = "ensured"]
           New(digest) == [x EXCEPT !.stage = stage, !.ensured = @ \cup {i}, !.digest = digest]
<1>1. /\ x \in Executions /\ x.stage \in [Jobs -> Stages] /\ x.wf \in Workflows
      /\ x.digest \in [Images -> Resolved] /\ x.ensured \subseteq Images
      /\ local \in [Images -> Resolved] /\ registry \in [Images -> Digests]
      BY DEF VerifyTypes, Executions
<1>2. i \in Images
      BY <1>1, WorkflowGives
<1>3. /\ stage \in [Jobs -> Stages] /\ x.ensured \cup {i} \in SUBSET Images
      /\ stage[j] = "ensured" /\ \A k \in Jobs \ {j} : stage[k] = x.stage[k]
      BY <1>1, <1>2 DEF Stages
<1>4. /\ UNCHANGED <<file, registry, tags, head, now, manifest, strict, disturbed>>
      /\ Ready(s, j) /\ Runs(s, j) /\ x.pc = "jobs"
      BY SMTT(30) DEF Ensure, Ready, Is
<1>5. PICK digest \in [Images -> Resolved] :
        /\ Become(s, New(digest)) /\ local' \in [Images -> Resolved]
        /\ \/ UNCHANGED local /\ digest = x.digest /\ (i \in x.ensured \/ x.pin[i] # NoDigest)
           \/ /\ i \notin x.ensured /\ local'[i] # NoDigest
              /\ \A k \in Images : local[k] # NoDigest => local'[k] = local[k]
              /\ \A k \in Images \ {i} : digest[k] = x.digest[k]
              /\ digest[i] \in {local'[i], NoDigest}
      <2>1. CASE i \in x.ensured \/ x.pin[i] # NoDigest
            <3>1. /\ Become(s, [x EXCEPT !.stage[j] = "ensured", !.ensured = @ \cup {i}])
                  /\ UNCHANGED local
                  BY <2>1 DEF Ensure
            <3>2. [x EXCEPT !.stage[j] = "ensured", !.ensured = @ \cup {i}] = New(x.digest)
                  BY <1>1 DEF Executions
            <3> QED
                BY <3>1, <3>2, <2>1, <1>1
      <2>2. CASE ~(i \in x.ensured \/ x.pin[i] # NoDigest)
            <3>1. /\ local' = IF local[i] = NoDigest THEN [local EXCEPT ![i] = registry[i]] ELSE local
                  /\ \E d \in {Digest(local', i), NoDigest} :
                       Become(s, [x EXCEPT !.stage[j] = "ensured", !.ensured = @ \cup {i},
                                           !.digest[i] = d])
                  BY <2>2 DEF Ensure
            <3>2. PICK d \in {local'[i], NoDigest} :
                    Become(s, [x EXCEPT !.stage[j] = "ensured", !.ensured = @ \cup {i},
                                        !.digest[i] = d])
                  BY <3>1 DEF Digest
            <3>3. registry[i] \in Resolved /\ registry[i] # NoDigest
                  BY <1>1, <1>2, VerifyAssumption DEF Resolved
            <3>4. /\ local' \in [Images -> Resolved] /\ local'[i] # NoDigest
                  /\ \A k \in Images : local[k] # NoDigest => local'[k] = local[k]
                  BY <1>1, <1>2, <3>1, <3>3
            <3>5. d \in Resolved
                  BY <1>2, <3>4 DEF Resolved
            <3>6. [x.digest EXCEPT ![i] = d] \in [Images -> Resolved]
                  BY <1>1, <3>5
            <3>7. [x EXCEPT !.stage[j] = "ensured", !.ensured = @ \cup {i}, !.digest[i] = d]
                    = New([x.digest EXCEPT ![i] = d])
                  BY <1>1 DEF Executions
            <3>8. /\ [x.digest EXCEPT ![i] = d][i] = d
                  /\ \A k \in Images \ {i} : [x.digest EXCEPT ![i] = d][k] = x.digest[k]
                  BY <1>1, <1>2
            <3> DEFINE digest == [x.digest EXCEPT ![i] = d]
            <3>9. Become(s, New(digest))
                  BY <3>2, <3>7
            <3> HIDE DEF digest, New
            <3>10. digest \in [Images -> Resolved] /\ digest[i] \in {local'[i], NoDigest}
                   BY <3>6, <3>8 DEF digest
            <3>11. \A k \in Images \ {i} : digest[k] = x.digest[k]
                   BY <3>8 DEF digest
            <3> QED
                BY <2>2, <3>4, <3>9, <3>10, <3>11
      <2> QED
          BY <2>1, <2>2, ZenonT(60)
<1> HIDE DEF stage, Trees, Stages, Places, Fetched, Resolved, i
<1>6. New(digest) \in Executions
      BY <1>1, <1>3, <1>5 DEF Executions
<1>7. LET new == New(digest)
      IN  /\ new.stage = stage /\ new.pc = x.pc /\ new.wf = x.wf /\ new.keys = x.keys
          /\ new.pin = x.pin /\ new.unread = x.unread /\ new.exit = x.exit /\ new.tree = x.tree
          /\ new.from = x.from /\ new.ensured = x.ensured \cup {i} /\ new.digest = digest
      BY <1>1 DEF Executions
<1> HIDE DEF New
<1>8. /\ side'[s] = New(digest) /\ side' \in [Sides -> Executions]
      /\ \A t \in Sides \ {s} : side'[t] = side[t]
      BY <1>5, <1>6, BecomeGives
<1>9. VerifyTypes'
      BY <1>4, <1>5, <1>8 DEF VerifyTypes
<1>10. JobStep(s, j)
       BY <1>3, <1>4, <1>7, <1>8 DEF JobStep, Only
<1> QED
    BY <1>2, <1>3, <1>4, <1>5, <1>7, <1>8, <1>9, <1>10 DEF i

LEMMA ContentType ==
  ASSUME VerifyTypes, NEW s \in Sides, NEW j \in Jobs, side[s].wf # NoFile
  PROVE  /\ Base(s, j) \in Resolved /\ Content(s, j) \in Contents
<1>1. /\ side[s].wf \in Workflows /\ side[s].pin \in [Images -> Resolved]
      /\ local \in [Images -> Resolved] /\ side[s].keys \in [Keys -> Fetched]
      /\ side[s].epoch \in Nat /\ now \in Nat
      BY DEF VerifyTypes, Executions
<1>2. side[s].wf.image[j] \in Images /\ side[s].wf.uses[j] \in Keys \cup {NoKey}
      BY <1>1, WorkflowGives
<1>3. Base(s, j) \in Resolved
      BY <1>1, <1>2 DEF Base
<1>4. (IF side[s].wf.uses[j] = NoKey THEN NoCommit
       ELSE side[s].keys[side[s].wf.uses[j]]) \in Fetched
      BY <1>1, <1>2 DEF Fetched
<1>5. /\ (IF "epoch" \in side[s].wf.reads[j] THEN side[s].epoch ELSE 0) \in Nat
      /\ (IF "clock" \in side[s].wf.reads[j] THEN now ELSE 0) \in Nat
      BY <1>1
<1> QED
    BY <1>3, <1>4, <1>5 DEF Content, Contents

LEMMA ExecuteGives ==
  ASSUME VerifyTypes, NEW s \in Sides, NEW j \in Jobs, Execute(s, j), side[s].wf # NoFile
  PROVE  /\ VerifyTypes' /\ JobStep(s, j) /\ UNCHANGED local
         /\ side[s].stage[j] = "ensured" /\ side'[s].stage[j] \in Ran
         /\ side'[s].from[j] = Base(s, j)
         /\ j \notin side[s].wf.flaky =>
              /\ side'[s].stage[j] = "success"
              /\ side'[s].tree[j] = [f \in side[s].wf.files[j] |-> Content(s, j)]
         /\ side'[s].ensured = side[s].ensured /\ side'[s].digest = side[s].digest
<1> DEFINE x == side[s]
           Stage(status) == [x.stage EXCEPT ![j] = status]
           From == [x.from EXCEPT ![j] = Base(s, j)]
           Tree(fs) == [x.tree EXCEPT ![j] = [f \in fs |-> Content(s, j)]]
           New(status, fs) == [x EXCEPT !.stage = Stage(status), !.from = From, !.tree = Tree(fs)]
<1>1. /\ x \in Executions /\ x.stage \in [Jobs -> Stages] /\ x.wf \in Workflows
      /\ x.from \in [Jobs -> Resolved] /\ x.tree \in [Jobs -> Trees]
      BY DEF VerifyTypes, Executions
<1>2. x.wf.files[j] \subseteq Files
      BY <1>1, WorkflowGives, SMTT(30)
<1>3. PICK status \in Ran, fs \in SUBSET x.wf.files[j] :
        /\ Become(s, New(status, fs))
        /\ j \notin x.wf.flaky => status = "success" /\ fs = x.wf.files[j]
      <2>1. \A status, fs :
              [x EXCEPT !.stage[j] = status, !.from[j] = Base(s, j),
                        !.tree[j] = [f \in fs |-> Content(s, j)]] = New(status, fs)
            BY <1>1, SMTT(30) DEF Executions
      <2>2. CASE j \in x.wf.flaky
            <3>1. \E status \in {"success", "failed"}, fs \in SUBSET x.wf.files[j] :
                    Become(s, [x EXCEPT !.stage[j] = status, !.from[j] = Base(s, j),
                                        !.tree[j] = [f \in fs |-> Content(s, j)]])
                  BY <2>2, ZenonT(60) DEF Execute
            <3> QED
                BY <2>1, <2>2, <3>1, ZenonT(60) DEF Ran
      <2>3. CASE j \notin x.wf.flaky
            <3>1. Become(s, [x EXCEPT !.stage[j] = "success", !.from[j] = Base(s, j),
                                      !.tree[j] = [f \in x.wf.files[j] |-> Content(s, j)]])
                  BY <2>3 DEF Execute
            <3> QED
                BY <2>1, <2>3, <3>1 DEF Ran
      <2> QED
          BY <2>2, <2>3
<1>4. /\ Stage(status) \in [Jobs -> Stages] /\ Stage(status)[j] = status
      /\ \A k \in Jobs \ {j} : Stage(status)[k] = x.stage[k]
      BY <1>1 DEF Ran, Stages, Settled
<1>5. /\ From \in [Jobs -> Resolved] /\ From[j] = Base(s, j)
      /\ \A k \in Jobs \ {j} : From[k] = x.from[k]
      BY <1>1, ContentType
<1>6. /\ Tree(fs) \in [Jobs -> Trees] /\ Tree(fs)[j] = [f \in fs |-> Content(s, j)]
      /\ \A k \in Jobs \ {j} : Tree(fs)[k] = x.tree[k]
      <2>1. [f \in fs |-> Content(s, j)] \in [fs -> Contents]
            BY ContentType
      <2>2. [f \in fs |-> Content(s, j)] \in Trees
            BY <1>2, <2>1 DEF Trees
      <2> HIDE DEF Trees
      <2> QED
          BY <1>1, <2>2
<1> HIDE DEF Stage, From, Tree, Trees, Stages, Places, Fetched, Resolved
<1>7. New(status, fs) \in Executions
      BY <1>1, <1>4, <1>5, <1>6 DEF Executions
<1>8. LET new == New(status, fs)
      IN  /\ new.stage = Stage(status) /\ new.pc = x.pc /\ new.wf = x.wf /\ new.keys = x.keys
          /\ new.pin = x.pin /\ new.unread = x.unread /\ new.exit = x.exit
          /\ new.tree = Tree(fs) /\ new.from = From
          /\ new.ensured = x.ensured /\ new.digest = x.digest
      BY <1>1 DEF Executions
<1> HIDE DEF New
<1>9. /\ side'[s] = New(status, fs) /\ side' \in [Sides -> Executions]
      /\ \A t \in Sides \ {s} : side'[t] = side[t]
      BY <1>3, <1>7, BecomeGives
<1>10. /\ UNCHANGED <<file, registry, local, tags, head, now, manifest, strict, disturbed>>
       /\ x.pc = "jobs" /\ x.stage[j] = "ensured"
       BY DEF Execute, world, Is
<1>11. VerifyTypes'
       BY <1>9, <1>10 DEF VerifyTypes
<1>12. JobStep(s, j)
       BY <1>4, <1>5, <1>6, <1>8, <1>9, <1>10 DEF JobStep, Only
<1> QED
    BY <1>3, <1>4, <1>5, <1>6, <1>8, <1>9, <1>10, <1>11, <1>12

\* A step that leaves the side's jobs alone.
SameJobs(s) ==
  /\ side'[s].wf = side[s].wf /\ side'[s].keys = side[s].keys /\ side'[s].pin = side[s].pin
  /\ side'[s].ensured = side[s].ensured /\ side'[s].digest = side[s].digest
  /\ side'[s].stage = side[s].stage /\ side'[s].tree = side[s].tree
  /\ side'[s].from = side[s].from

Ends(s, code, unread) ==
  Become(s, [side[s] EXCEPT !.pc = "done", !.unread = unread, !.exit = code])

LEMMA EndGives ==
  ASSUME VerifyTypes, NEW s \in Sides, NEW code \in {0, 1, 2, 3}, NEW unread \in SUBSET Jobs,
         Ends(s, code, unread)
  PROVE  /\ side' \in [Sides -> Executions] /\ \A t \in Sides \ {s} : side'[t] = side[t]
         /\ SameJobs(s) /\ side'[s].pc = "done" /\ side'[s].exit = code
         /\ side'[s].unread = unread
<1> DEFINE x == side[s]
           new == [x EXCEPT !.pc = "done", !.unread = unread, !.exit = code]
<1>1. x \in Executions
      BY DEF VerifyTypes
<1>2. "done" \in Places
      BY DEF Places
<1> HIDE DEF Trees, Stages, Places, Fetched, Resolved
<1>3. new \in Executions
      BY <1>1, <1>2 DEF Executions
<1>4. /\ new.pc = "done" /\ new.unread = unread /\ new.exit = code
      /\ new.wf = x.wf /\ new.keys = x.keys /\ new.pin = x.pin /\ new.ensured = x.ensured
      /\ new.digest = x.digest /\ new.stage = x.stage /\ new.tree = x.tree /\ new.from = x.from
      BY <1>1 DEF Executions
<1> HIDE DEF new
<1>5. /\ side'[s] = new /\ side' \in [Sides -> Executions]
      /\ \A t \in Sides \ {s} : side'[t] = side[t]
      BY <1>3, BecomeGives DEF new, Ends
<1> QED
    BY <1>4, <1>5 DEF SameJobs

LEMMA ExitGives ==
  ASSUME VerifyTypes, NEW s \in Sides, NEW code \in {0, 1, 2, 3}, Exit(s, code)
  PROVE  /\ side' \in [Sides -> Executions] /\ \A t \in Sides \ {s} : side'[t] = side[t]
         /\ SameJobs(s) /\ side'[s].pc = "done" /\ side'[s].exit = code
<1>1. side[s] \in Executions
      BY DEF VerifyTypes
<1>2. side[s].unread \in SUBSET Jobs
      BY <1>1 DEF Executions
<1>3. [side[s] EXCEPT !.pc = "done", !.exit = code]
        = [side[s] EXCEPT !.pc = "done", !.unread = side[s].unread, !.exit = code]
      <2> HIDE DEF Trees, Stages, Places, Fetched, Resolved
      <2> QED
          BY <1>1 DEF Executions
<1>4. Ends(s, code, side[s].unread)
      BY <1>3 DEF Exit, Ends
<1> QED
    BY <1>2, <1>4, EndGives

LEMMA AbortsGives ==
  ASSUME VerifyTypes, NEW s \in Sides, Aborts(s)
  PROVE  /\ VerifyTypes' /\ Only(s) /\ UNCHANGED <<local, manifest, strict>>
         /\ SameJobs(s) /\ side[s].pc = "jobs" /\ side'[s].pc = "done" /\ side'[s].exit = 3
<1>1. Exit(s, 3) /\ side[s].pc = "jobs"
      BY DEF Aborts, Is
<1>2. UNCHANGED <<world, manifest, strict, disturbed>>
      BY DEF Aborts
<1>3. /\ side' \in [Sides -> Executions] /\ \A t \in Sides \ {s} : side'[t] = side[t]
      /\ SameJobs(s) /\ side'[s].pc = "done" /\ side'[s].exit = 3
      BY <1>1, ExitGives
<1> QED
    BY <1>1, <1>2, <1>3 DEF VerifyTypes, Only, world

LEMMA StartRunGives ==
  ASSUME VerifyTypes, StartRun
  PROVE  /\ VerifyTypes' /\ Only("run") /\ UNCHANGED <<local, manifest, strict>>
         /\ run.pc = "idle"
         /\ \/ /\ run'.pc = "jobs" /\ run'.wf = file /\ file # NoFile /\ run'.exit = -1
               /\ run'.keys = KeysAsIs(file)
               /\ run'.pin = ImagesAsIs /\ run'.digest = ImagesAsIs /\ run'.ensured = {}
               /\ \A j \in Jobs : /\ run'.stage[j] = "waiting" /\ run'.tree[j] = <<>>
                                  /\ run'.from[j] = NoDigest
            \/ SameJobs("run") /\ run'.pc = "done" /\ run'.exit = 3
<1> DEFINE epoch == IF head = NoHead THEN now ELSE head
           new == [Unused EXCEPT !.pc = "jobs", !.wf = file, !.keys = KeysAsIs(file),
                                 !.epoch = epoch]
<1>1. /\ Is("run", "idle") /\ file # NoFile /\ (Become("run", new) \/ Exit("run", 3))
      /\ UNCHANGED <<world, manifest, strict, disturbed>>
      BY DEF StartRun, KeysAsIs
<1>2. "run" \in Sides
      BY DEF Sides
<1>3. UNCHANGED <<file, registry, local, tags, head, now, manifest, strict, disturbed>>
      BY <1>1 DEF world
<1>4. CASE Become("run", new)
      <2>1. /\ epoch \in Nat /\ KeysAsIs(file) \in [Keys -> Fetched] /\ "jobs" \in Places
            /\ file \in Workflows \cup {NoFile}
            BY VerifyAssumption DEF VerifyTypes, Fetched, KeysAsIs, Places
      <2> HIDE DEF Trees, Stages, Places, Fetched, Resolved, epoch, KeysAsIs
      <2>2. new \in Executions
            BY <2>1, UnusedType DEF Executions
      <2>3. /\ new.pc = "jobs" /\ new.wf = file /\ new.keys = KeysAsIs(file) /\ new.exit = -1
            /\ new.pin = ImagesAsIs /\ new.digest = ImagesAsIs /\ new.ensured = {}
            /\ \A j \in Jobs : /\ new.stage[j] = "waiting" /\ new.tree[j] = <<>>
                               /\ new.from[j] = NoDigest
            BY DEF Unused, ImagesAsIs
      <2> HIDE DEF new
      <2>4. /\ side'["run"] = new /\ side' \in [Sides -> Executions]
            /\ \A t \in Sides \ {"run"} : side'[t] = side[t]
            BY <1>2, <1>4, <2>2, BecomeGives
      <2> QED
          BY <1>1, <1>3, <2>3, <2>4 DEF VerifyTypes, Only, run, Is
<1>5. CASE Exit("run", 3)
      <2>1. /\ side' \in [Sides -> Executions] /\ \A t \in Sides \ {"run"} : side'[t] = side[t]
            /\ SameJobs("run") /\ side'["run"].pc = "done" /\ side'["run"].exit = 3
            BY <1>2, <1>5, ExitGives
      <2> QED
          BY <1>1, <1>3, <2>1 DEF VerifyTypes, Only, run, Is
<1> QED
    BY <1>1, <1>4, <1>5

LEMMA AttestGives ==
  ASSUME VerifyTypes, Attest
  PROVE  /\ VerifyTypes' /\ Only("run") /\ UNCHANGED <<local, strict>>
         /\ Over("run") /\ SameJobs("run") /\ run'.pc = "done"
         /\ run'.exit = IF AnyFailed("run") THEN 1 ELSE 0
         /\ manifest' # NoManifest =>
              /\ manifest'.recipe = file /\ file # NoFile
              /\ manifest'.subjects = Attested(file, Subjects(run.tree, run'.unread))
              /\ manifest'.images = run.digest /\ manifest'.keys = run.keys
<1> DEFINE code == IF AnyFailed("run") THEN 1 ELSE 0
<1>1. "run" \in Sides /\ code \in {0, 1, 2, 3}
      BY DEF Sides
<1>2. PICK unread \in SUBSET Left("run"), signed \in BOOLEAN :
        /\ Ends("run", code, unread)
        /\ \/ manifest' = NoManifest
           \/ /\ file # NoFile
              /\ manifest' = [recipe |-> file, signed |-> signed,
                              subjects |-> Attested(file, Subjects(side["run"].tree, unread)),
                              images |-> side["run"].digest, keys |-> side["run"].keys]
      BY DEF Attest, Ends
<1>3. unread \in SUBSET Jobs
      BY DEF Left
<1> HIDE DEF code
<1>4. /\ side' \in [Sides -> Executions] /\ \A t \in Sides \ {"run"} : side'[t] = side[t]
      /\ SameJobs("run") /\ side'["run"].pc = "done" /\ side'["run"].exit = code
      /\ side'["run"].unread = unread
      BY <1>1, <1>2, <1>3, EndGives
<1>5. manifest' # NoManifest =>
        /\ manifest'.recipe = file /\ file # NoFile
        /\ manifest'.subjects = Attested(file, Subjects(run.tree, run'.unread))
        /\ manifest'.images = run.digest /\ manifest'.keys = run.keys
      BY <1>2, <1>4 DEF run
<1>6. UNCHANGED <<file, registry, local, tags, head, now, strict, disturbed>> /\ Over("run")
      BY DEF Attest, world
<1>7. side["run"].digest \in [Images -> Resolved] /\ side["run"].keys \in [Keys -> Fetched]
      BY <1>1 DEF VerifyTypes, Executions
<1>8. VerifyTypes'
      BY <1>4, <1>5, <1>6, <1>7 DEF VerifyTypes, run
<1> QED
    BY <1>4, <1>5, <1>6, <1>8 DEF Only, run, code

LEMMA StartVerifyGives ==
  ASSUME VerifyTypes, StartVerify
  PROVE  /\ VerifyTypes' /\ Only("verify") /\ UNCHANGED <<local, manifest>>
         /\ verify.pc = "idle" /\ manifest # NoManifest
         /\ \/ SameJobs("verify") /\ verify'.pc = "done" /\ verify'.exit = 1
            \/ /\ verify'.pc = "recipe" /\ verify'.wf = NoFile /\ verify'.exit = -1
               /\ \A j \in Jobs : verify'.stage[j] = "waiting" /\ verify'.tree[j] = <<>>
<1> DEFINE new == [Unused EXCEPT !.pc = "recipe"]
<1>1. /\ Is("verify", "idle") /\ manifest # NoManifest /\ strict' \in BOOLEAN
      /\ Exit("verify", 1) \/ Become("verify", new)
      /\ UNCHANGED <<world, manifest, disturbed>>
      BY DEF StartVerify
<1>2. "verify" \in Sides
      BY DEF Sides
<1>3. UNCHANGED <<file, registry, local, tags, head, now, manifest, disturbed>>
      BY <1>1 DEF world
<1>4. CASE Become("verify", new)
      <2>1. "recipe" \in Places
            BY DEF Places
      <2> HIDE DEF Trees, Stages, Places, Fetched, Resolved
      <2>2. new \in Executions
            BY <2>1, UnusedType DEF Executions
      <2>3. /\ new.pc = "recipe" /\ new.wf = NoFile /\ new.exit = -1
            /\ \A j \in Jobs : new.stage[j] = "waiting" /\ new.tree[j] = <<>>
            BY DEF Unused
      <2> HIDE DEF new
      <2>4. /\ side'["verify"] = new /\ side' \in [Sides -> Executions]
            /\ \A t \in Sides \ {"verify"} : side'[t] = side[t]
            BY <1>2, <1>4, <2>2, BecomeGives
      <2> QED
          BY <1>1, <1>3, <2>3, <2>4 DEF VerifyTypes, Only, verify, Is
<1>5. CASE Exit("verify", 1)
      <2>1. /\ side' \in [Sides -> Executions] /\ \A t \in Sides \ {"verify"} : side'[t] = side[t]
            /\ SameJobs("verify") /\ side'["verify"].pc = "done" /\ side'["verify"].exit = 1
            BY <1>2, <1>5, ExitGives
      <2> QED
          BY <1>1, <1>3, <2>1 DEF VerifyTypes, Only, verify, Is
<1> QED
    BY <1>1, <1>4, <1>5

LEMMA CheckRecipeGives ==
  ASSUME VerifyTypes, CheckRecipe
  PROVE  /\ VerifyTypes' /\ Only("verify") /\ UNCHANGED <<local, manifest, strict>>
         /\ verify.pc = "recipe" /\ SameJobs("verify")
         /\ \/ verify'.pc = "done" /\ verify'.exit \in {1, 2}
            \/ verify'.pc = "load" /\ verify'.exit = verify.exit /\ file = manifest.recipe
<1> DEFINE x == side["verify"]
           new == [x EXCEPT !.pc = "load"]
<1>1. "verify" \in Sides /\ x \in Executions
      BY DEF Sides, VerifyTypes
<1>2. /\ \/ \E code \in {1, 2} : Exit("verify", code)
         \/ file = manifest.recipe /\ Become("verify", new)
      /\ UNCHANGED <<file, registry, local, tags, head, now, manifest, strict, disturbed>>
      /\ x.pc = "recipe"
      BY DEF CheckRecipe, world, Is
<1>3. CASE \E code \in {1, 2} : Exit("verify", code)
      <2>1. /\ side' \in [Sides -> Executions] /\ \A t \in Sides \ {"verify"} : side'[t] = side[t]
            /\ SameJobs("verify") /\ side'["verify"].pc = "done" /\ side'["verify"].exit \in {1, 2}
            BY <1>1, <1>3, ExitGives
      <2> QED
          BY <1>2, <2>1 DEF VerifyTypes, Only, verify
<1>4. CASE file = manifest.recipe /\ Become("verify", new)
      <2>1. "load" \in Places
            BY DEF Places
      <2> HIDE DEF Trees, Stages, Places, Fetched, Resolved
      <2>2. new \in Executions
            BY <1>1, <2>1 DEF Executions
      <2>3. /\ new.pc = "load" /\ new.exit = x.exit
            /\ new.wf = x.wf /\ new.keys = x.keys /\ new.pin = x.pin /\ new.ensured = x.ensured
            /\ new.digest = x.digest /\ new.stage = x.stage /\ new.tree = x.tree
            /\ new.from = x.from
            BY <1>1 DEF Executions
      <2> HIDE DEF new
      <2>4. /\ side'["verify"] = new /\ side' \in [Sides -> Executions]
            /\ \A t \in Sides \ {"verify"} : side'[t] = side[t]
            BY <1>1, <1>4, <2>2, BecomeGives
      <2> QED
          BY <1>2, <1>4, <2>3, <2>4 DEF VerifyTypes, Only, verify, SameJobs
<1> QED
    BY <1>2, <1>3, <1>4

LEMMA LoadRecipeGives ==
  ASSUME VerifyTypes, manifest # NoManifest, LoadRecipe
  PROVE  /\ VerifyTypes' /\ Only("verify") /\ UNCHANGED <<local, manifest, strict>>
         /\ verify.pc = "load"
         /\ \/ SameJobs("verify") /\ verify'.pc = "done" /\ verify'.exit \in {2, 3}
            \/ /\ verify'.pc = "jobs" /\ verify'.exit = verify.exit
               /\ verify'.wf = file /\ file # NoFile
               /\ verify'.keys = PinnedKeys(file) /\ verify'.pin = manifest.images
               /\ verify'.stage = verify.stage /\ verify'.tree = verify.tree
<1> DEFINE x == side["verify"]
           new == [x EXCEPT !.pc = "jobs", !.wf = file, !.keys = PinnedKeys(file),
                            !.pin = PinnedImages, !.epoch = now]
<1>1. "verify" \in Sides /\ x \in Executions
      BY DEF Sides, VerifyTypes
<1>2. /\ \/ \E code \in {2, 3} : Exit("verify", code)
         \/ file # NoFile /\ Become("verify", new)
      /\ UNCHANGED <<file, registry, local, tags, head, now, manifest, strict, disturbed>>
      /\ x.pc = "load"
      BY DEF LoadRecipe, world, Is
<1>3. CASE \E code \in {2, 3} : Exit("verify", code)
      <2>1. /\ side' \in [Sides -> Executions] /\ \A t \in Sides \ {"verify"} : side'[t] = side[t]
            /\ SameJobs("verify") /\ side'["verify"].pc = "done" /\ side'["verify"].exit \in {2, 3}
            BY <1>1, <1>3, ExitGives
      <2> QED
          BY <1>2, <2>1 DEF VerifyTypes, Only, verify
<1>4. CASE file # NoFile /\ Become("verify", new)
      <2>1. /\ "jobs" \in Places /\ file \in Workflows \cup {NoFile} /\ now \in Nat
            /\ PinnedImages \in [Images -> Resolved] /\ PinnedKeys(file) \in [Keys -> Fetched]
            BY DEF Places, VerifyTypes, PinnedImages, PinnedKeys, Fetched
      <2> HIDE DEF Trees, Stages, Places, Fetched, Resolved, PinnedKeys, PinnedImages
      <2>2. new \in Executions
            BY <1>1, <2>1 DEF Executions
      <2>3. /\ new.pc = "jobs" /\ new.exit = x.exit /\ new.wf = file
            /\ new.keys = PinnedKeys(file) /\ new.pin = PinnedImages
            /\ new.stage = x.stage /\ new.tree = x.tree
            BY <1>1 DEF Executions
      <2> HIDE DEF new
      <2>4. /\ side'["verify"] = new /\ side' \in [Sides -> Executions]
            /\ \A t \in Sides \ {"verify"} : side'[t] = side[t]
            BY <1>1, <1>4, <2>2, BecomeGives
      <2> QED
          BY <1>2, <1>4, <2>3, <2>4 DEF VerifyTypes, Only, verify, PinnedImages
<1> QED
    BY <1>2, <1>3, <1>4

LEMMA CompareGives ==
  ASSUME VerifyTypes, Compare
  PROVE  /\ VerifyTypes' /\ Only("verify") /\ UNCHANGED <<local, manifest, strict>>
         /\ Over("verify") /\ SameJobs("verify") /\ verify'.pc = "done"
         /\ verify'.exit =
              IF Verified(manifest.subjects, Subjects(verify.tree, verify'.unread),
                          AnyFailed("verify"), strict) THEN 0 ELSE 1
<1> DEFINE Code(unread) == IF Verified(manifest.subjects, Subjects(side["verify"].tree, unread),
                                       AnyFailed("verify"), strict) THEN 0 ELSE 1
<1>1. "verify" \in Sides /\ \A unread : Code(unread) \in {0, 1, 2, 3}
      BY DEF Sides
<1>2. PICK unread \in SUBSET Left("verify") :
        Ends("verify", Code(unread), unread)
      BY DEF Compare, Ends
<1>3. unread \in SUBSET Jobs
      BY DEF Left
<1>4. UNCHANGED <<file, registry, local, tags, head, now, manifest, strict, disturbed>>
      /\ Over("verify")
      BY DEF Compare, world
<1> HIDE DEF Code
<1>5. /\ side' \in [Sides -> Executions] /\ \A t \in Sides \ {"verify"} : side'[t] = side[t]
      /\ SameJobs("verify") /\ side'["verify"].pc = "done" /\ side'["verify"].exit = Code(unread)
      /\ side'["verify"].unread = unread
      BY <1>1, <1>2, <1>3, EndGives
<1>6. VerifyTypes'
      BY <1>4, <1>5 DEF VerifyTypes
<1> QED
    BY <1>4, <1>5, <1>6 DEF Only, verify, Code

WorldMoves ==
  \/ EditFile \/ Tick \/ \E i \in Images : MoveImage(i) \/ PullLocally(i) \/ Prune(i)
  \/ \E k \in Keys : MoveTag(k)

\* The world disturbs whoever is at work, and takes no image from him.
LEMMA WorldGives ==
  ASSUME VerifyTypes, WorldMoves
  PROVE  /\ VerifyTypes' /\ UNCHANGED <<side, manifest, strict>>
         /\ \A s \in Sides :
              /\ disturbed[s] \subseteq disturbed'[s]
              /\ AtWork(s) => /\ "recipe" \notin disturbed'[s] => file' = file
                              /\ "image" \notin disturbed'[s] => local' = local
                              /\ \A i \in Images : local[i] # NoDigest => local'[i] # NoDigest
<1>1. /\ file \in Workflows \cup {NoFile}
      /\ registry \in [Images -> Digests] /\ local \in [Images -> Resolved]
      /\ tags \in [Keys -> Commits] /\ now \in Nat
      /\ disturbed \in [Sides -> SUBSET {"recipe", "image"}]
      BY DEF VerifyTypes
<1>2. ASSUME NEW what \in {"recipe", "image"}, Disturbs(what)
      PROVE  /\ disturbed' \in [Sides -> SUBSET {"recipe", "image"}]
             /\ \A s \in Sides : /\ disturbed[s] \subseteq disturbed'[s]
                                 /\ AtWork(s) => what \in disturbed'[s]
      BY <1>1, <1>2 DEF Disturbs
<1>3. \A i \in Images : registry[i] \in Resolved /\ registry[i] # NoDigest
      BY <1>1, VerifyAssumption DEF Resolved
<1>4. CASE EditFile
      <2>1. /\ file' \in Workflows \cup {NoFile} /\ Disturbs("recipe")
            /\ UNCHANGED <<registry, local, tags, now, head, side, manifest, strict>>
            BY <1>4 DEF EditFile, Moves
      <2> QED
          BY <1>2, <2>1 DEF VerifyTypes
<1>5. CASE Tick
      <2>1. /\ now' = now + 1
            /\ UNCHANGED <<file, registry, local, tags, disturbed, head, side, manifest, strict>>
            BY <1>5 DEF Tick, Moves
      <2> QED
          BY <1>1, <2>1 DEF VerifyTypes
<1>6. ASSUME NEW i \in Images, MoveImage(i)
      PROVE  /\ registry' \in [Images -> Digests]
             /\ UNCHANGED <<file, local, tags, now, disturbed, head, side, manifest, strict>>
      BY <1>1, <1>6 DEF MoveImage, Moves
<1>7. ASSUME NEW k \in Keys, MoveTag(k)
      PROVE  /\ tags' \in [Keys -> Commits]
             /\ UNCHANGED <<file, local, registry, now, disturbed, head, side, manifest, strict>>
      BY <1>1, <1>7 DEF MoveTag, Moves
<1>8. ASSUME NEW i \in Images, PullLocally(i)
      PROVE  /\ local' \in [Images -> Resolved] /\ Disturbs("image")
             /\ \A k \in Images : local[k] # NoDigest => local'[k] # NoDigest
             /\ UNCHANGED <<file, registry, tags, now, head, side, manifest, strict>>
      BY <1>1, <1>3, <1>8 DEF PullLocally, Moves
<1>9. ASSUME NEW i \in Images, Prune(i)
      PROVE  /\ local' \in [Images -> Resolved] /\ \A s \in Sides : ~AtWork(s)
             /\ UNCHANGED <<file, registry, tags, now, disturbed, head, side, manifest, strict>>
      BY <1>1, <1>9 DEF Prune, Moves, Resolved
<1>10. CASE \E i \in Images : MoveImage(i)
       BY <1>6, <1>10 DEF VerifyTypes
<1>11. CASE \E k \in Keys : MoveTag(k)
       BY <1>7, <1>11 DEF VerifyTypes
<1>12. CASE \E i \in Images : PullLocally(i)
       <2>1. /\ local' \in [Images -> Resolved] /\ Disturbs("image")
             /\ \A k \in Images : local[k] # NoDigest => local'[k] # NoDigest
             /\ UNCHANGED <<file, registry, tags, now, head, side, manifest, strict>>
             BY <1>8, <1>12
       <2> QED
           BY <1>2, <2>1 DEF VerifyTypes
<1>13. CASE \E i \in Images : Prune(i)
       BY <1>9, <1>13 DEF VerifyTypes
<1> QED
    BY <1>4, <1>5, <1>10, <1>11, <1>12, <1>13 DEF WorldMoves

----------------------------------------------------------------------------
(* The jobs of either side. *)

LEMMA TwoSides ==
  /\ "run" \in Sides /\ "verify" \in Sides /\ \A s \in Sides : s = "run" \/ s = "verify"
  /\ Only("run") => verify' = verify
  /\ Only("verify") => run' = run
BY DEF Sides, Only, run, verify

LEMMA RunFirst ==
  ASSUME OrderInv
  PROVE  /\ run.pc # "done" => manifest = NoManifest /\ verify.pc = "idle" /\ verify.wf = NoFile
         /\ verify.wf # NoFile => verify.pc \notin {"idle", "recipe", "load"}
BY SMTT(30) DEF OrderInv

\* A side whose jobs did not move.
LEMMA SameJobInv ==
  ASSUME NEW s \in Sides, SameJobs(s), NEW j \in Jobs, JobInv(side[s], j)
  PROVE  JobInv(side'[s], j)
BY DEF SameJobs, JobInv

LEMMA SameJobsInv ==
  ASSUME JobsInv, NEW s \in Sides, SameJobs(s), Only(s)
  PROVE  JobsInv'
<1> SUFFICES ASSUME NEW t \in Sides, NEW j \in Jobs
             PROVE  JobInv(side'[t], j)
    BY DEF JobsInv
<1>1. JobInv(side[t], j)
      BY DEF JobsInv
<1>2. CASE t = s
      BY <1>1, <1>2, SameJobInv
<1>3. CASE t # s
      BY <1>1, <1>3 DEF Only
<1> QED
    BY <1>2, <1>3

\* What an unsettled job does leaves every other job as it came to be.
LEMMA OtherJob ==
  ASSUME VerifyTypes, NEW s \in Sides, NEW j \in Jobs, JobStep(s, j),
         side[s].stage[j] \notin Settled, NEW k \in Jobs, k # j, JobInv(side[s], k)
  PROVE  JobInv(side'[s], k)
<1> DEFINE x == side[s]
           y == side'[s]
<1>1. /\ y.wf = x.wf /\ y.keys = x.keys /\ y.pin = x.pin /\ y.stage[k] = x.stage[k]
      /\ y.tree[k] = x.tree[k] /\ y.from[k] = x.from[k]
      BY DEF JobStep
<1>2. x.wf # NoFile => \A n \in NeedSet(x.wf.needs, k) :
                         x.stage[n] \in Settled => y.stage[n] = x.stage[n]
      BY WorkflowGives, SMTT(30) DEF JobStep, VerifyTypes, Executions
<1> HIDE DEF x, y
<1>3. JobInv(x, k) => JobInv(y, k)
      BY <1>1, <1>2, SMTT(30) DEF JobInv, Settled
<1> QED
    BY <1>3 DEF x, y

LEMMA JobStepGives ==
  ASSUME VerifyTypes, OrderInv, NEW s \in Sides, NEW j \in Jobs,
         SkipJob(s, j) \/ Ensure(s, j) \/ Execute(s, j)
  PROVE  /\ VerifyTypes' /\ JobStep(s, j) /\ side[s].stage[j] \notin Settled
         /\ side[s].wf # NoFile /\ side[s].wf \in Workflows
<1>1. side[s].wf # NoFile /\ side[s].wf \in Workflows
      BY ZenonT(60) DEF OrderInv, SkipJob, Ensure, Execute, Ready, Is, VerifyTypes, Executions
<1>2. side[s].stage[j] \notin Settled
      BY DEF SkipJob, Ensure, Execute, Ready, Settled
<1> QED
    BY <1>1, <1>2, SkipGives, EnsureGives, ExecuteGives

LEMMA JobInvByStep ==
  ASSUME VerifyTypes, JobsInv, OrderInv, NEW s \in Sides, NEW j \in Jobs,
         SkipJob(s, j) \/ Ensure(s, j) \/ Execute(s, j)
  PROVE  JobInv(side'[s], j)
<1> DEFINE x == side[s]
           y == side'[s]
<1>1. JobInv(x, j) /\ x.wf \in Workflows /\ x.wf # NoFile
      BY DEF JobsInv, OrderInv, SkipJob, Ensure, Execute, Ready, Is, VerifyTypes, Executions
<1>2. /\ NeedSet(x.wf.needs, j) \subseteq Jobs /\ x.stage \in [Jobs -> Stages]
      BY <1>1, WorkflowGives DEF VerifyTypes, Executions
<1>3. /\ y.wf = x.wf /\ y.keys = x.keys /\ y.pin = x.pin
      /\ \A k \in Jobs \ {j} : y.stage[k] = x.stage[k]
      BY JobStepGives DEF JobStep
<1>4. CASE SkipJob(s, j)
      <2>1. /\ x.stage[j] = "waiting" /\ y.stage[j] = "skipped" /\ y.tree[j] = x.tree[j]
            /\ \A n \in NeedSet(x.wf.needs, j) : x.stage[n] \in Settled
            /\ j \in x.wf.off \/ \E n \in NeedSet(x.wf.needs, j) : x.stage[n] # "success"
            BY <1>4, SkipGives DEF Ready, Runs
      <2>2. \A n \in NeedSet(x.wf.needs, j) : y.stage[n] = x.stage[n]
            BY <1>2, <1>3, <2>1 DEF Settled
      <2> HIDE DEF x, y
      <2> QED
          BY <1>1, <1>3, <2>1, <2>2 DEF JobInv, Ran, x, y
<1>5. CASE Ensure(s, j)
      <2>1. /\ x.stage[j] = "waiting" /\ y.stage[j] = "ensured" /\ y.tree[j] = x.tree[j]
            /\ j \notin x.wf.off /\ \A n \in NeedSet(x.wf.needs, j) : x.stage[n] = "success"
            BY <1>1, <1>5, EnsureGives DEF Ready, Runs
      <2>2. \A n \in NeedSet(x.wf.needs, j) : y.stage[n] = "success"
            BY <1>2, <1>3, <2>1, SMTT(30)
      <2> HIDE DEF x, y
      <2> QED
          BY <1>1, <1>3, <2>1, <2>2 DEF JobInv, Ran, x, y
<1>6. CASE Execute(s, j)
      <2>1. /\ x.stage[j] = "ensured" /\ y.stage[j] \in Ran /\ y.from[j] = Base(s, j)
            /\ j \notin x.wf.flaky =>
                 y.stage[j] = "success" /\ y.tree[j] = [f \in x.wf.files[j] |-> Content(s, j)]
            BY <1>1, <1>6, ExecuteGives
      <2>2. j \notin x.wf.off /\ \A n \in NeedSet(x.wf.needs, j) : x.stage[n] = "success"
            BY <1>1, <2>1 DEF JobInv
      <2>3. \A n \in NeedSet(x.wf.needs, j) : y.stage[n] = "success"
            BY <1>2, <1>3, <2>1, <2>2
      <2>4. x.pin[x.wf.image[j]] # NoDigest => Base(s, j) = x.pin[x.wf.image[j]]
            BY DEF Base
      <2>5. x.wf.reads[j] = {} =>
              Content(s, j) = [image |-> y.from[j],
                               key |-> IF x.wf.uses[j] = NoKey THEN NoCommit
                                       ELSE x.keys[x.wf.uses[j]],
                               epoch |-> 0, clock |-> 0]
            BY <2>1 DEF Content
      <2> DEFINE content == Content(s, j)
                 base == Base(s, j)
      <2> HIDE DEF x, y, content, base
      <2>6. y.stage[j] \in Ran /\ "success" # "failed" /\ Ran = {"success", "failed"}
            BY <2>1 DEF x, y, Ran
      <2> QED
          BY <1>1, <1>3, <2>1, <2>2, <2>3, <2>4, <2>5, <2>6 DEF JobInv, x, y
<1> QED
    BY <1>4, <1>5, <1>6, SMTT(30)

LEMMA JobStepJobs ==
  ASSUME VerifyTypes, OrderInv, JobsInv, NEW s \in Sides, NEW j \in Jobs,
         SkipJob(s, j) \/ Ensure(s, j) \/ Execute(s, j)
  PROVE  JobsInv'
<1> SUFFICES ASSUME NEW t \in Sides, NEW k \in Jobs
             PROVE  JobInv(side'[t], k)
    BY DEF JobsInv
<1>1. JobInv(side[t], k)
      BY DEF JobsInv
<1>2. CASE t # s
      BY <1>1, <1>2, JobStepGives DEF JobStep, Only
<1>3. CASE t = s /\ k # j
      BY <1>1, <1>3, JobStepGives, OtherJob
<1>4. CASE t = s /\ k = j
      BY <1>4, JobInvByStep
<1> QED
    BY <1>2, <1>3, <1>4

\* What a step of a job leaves of the rest.
LEMMA JobStepRest ==
  ASSUME VerifyTypes, OrderInv, RecipeInv, ManifestInv, PinInv, OutcomeInv,
         NEW s \in Sides, NEW j \in Jobs, SkipJob(s, j) \/ Ensure(s, j) \/ Execute(s, j)
  PROVE  OrderInv' /\ RecipeInv' /\ ManifestInv' /\ PinInv' /\ OutcomeInv'
<1>1. /\ JobStep(s, j) /\ Only(s) /\ UNCHANGED <<manifest, strict, file, disturbed>>
      /\ side[s].pc = "jobs" /\ side[s].wf # NoFile
      BY JobStepGives DEF JobStep, Only
<1>2. \A t \in Sides : /\ side'[t].pc = side[t].pc /\ side'[t].wf = side[t].wf
                       /\ side'[t].keys = side[t].keys /\ side'[t].pin = side[t].pin
                       /\ side'[t].exit = side[t].exit /\ side'[t].unread = side[t].unread
      BY <1>1 DEF JobStep, Only
<1>3. /\ run'.pc = run.pc /\ run'.wf = run.wf /\ run'.keys = run.keys /\ run'.pin = run.pin
      /\ verify'.pc = verify.pc /\ verify'.wf = verify.wf /\ verify'.keys = verify.keys
      /\ verify'.pin = verify.pin /\ verify'.exit = verify.exit
      BY <1>2, TwoSides DEF run, verify
<1>4. \A t \in Sides : side[t].wf = NoFile => side'[t] = side[t]
      BY <1>1 DEF Only
<1>5. OrderInv'
      BY <1>1, <1>2, <1>3, <1>4 DEF OrderInv
<1>6. RecipeInv'
      BY <1>1, <1>3 DEF RecipeInv
<1>7. PinInv'
      BY <1>1, <1>3 DEF PinInv
<1>8. CASE s = "run"
      <2>1. manifest' = NoManifest /\ verify' = verify
            BY <1>1, <1>8, TwoSides, RunFirst DEF run
      <2>2. OutcomeInv'
            BY <2>1, <1>1 DEF OutcomeInv, AnyFailed, verify
      <2> QED
          BY <2>1, <2>2, <1>5, <1>6, <1>7 DEF ManifestInv
<1>9. CASE s = "verify"
      <2>1. run' = run /\ verify'.exit = -1
            BY <1>1, <1>3, <1>9, TwoSides DEF OrderInv, verify
      <2>2. AnyFailed("run")' <=> AnyFailed("run")
            BY <2>1 DEF AnyFailed, run
      <2>3. ManifestInv'
            BY <2>1, <2>2, <1>1 DEF ManifestInv
      <2> QED
          BY <2>1, <2>3, <1>5, <1>6, <1>7 DEF OutcomeInv
<1> QED
    BY <1>8, <1>9, TwoSides

\* A job of the run finds its image in the store.
LEMMA JobStepImages ==
  ASSUME VerifyTypes, OrderInv, ImageInv, NEW s \in Sides, NEW j \in Jobs,
         SkipJob(s, j) \/ Ensure(s, j) \/ Execute(s, j)
  PROVE  ImageInv'
<1>1. /\ JobStep(s, j) /\ Only(s) /\ UNCHANGED disturbed
      /\ side[s].pc = "jobs" /\ side[s].stage[j] \notin Settled
      /\ side[s].wf # NoFile /\ side[s].wf \in Workflows
      BY JobStepGives DEF JobStep, Only
<1>2. CASE s = "verify"
      <2>1. run' = run /\ run.pc = "done"
            BY <1>1, <1>2, TwoSides, RunFirst DEF verify
      <2> QED
          BY <2>1, <1>1 DEF ImageInv
<1>3. CASE s = "run"
      <2> DEFINE i == run.wf.image[j]
      <2>1. /\ run.pc = "jobs" /\ run'.pc = "jobs" /\ run'.wf = run.wf /\ run.wf # NoFile
            /\ \A k \in Jobs \ {j} : run'.stage[k] = run.stage[k] /\ run'.from[k] = run.from[k]
            /\ run.stage[j] \notin Ran /\ \A k \in Images : run.pin[k] = NoDigest
            /\ \A k \in Jobs : run.wf.image[k] \in Images
            BY <1>1, <1>3, WorkflowGives DEF run, JobStep, Ran, Settled, OrderInv, ImagesAsIs
      <2>2. CASE SkipJob("run", j)
            <3>1. /\ local' = local /\ run'.stage[j] = "skipped" /\ run'.from = run.from
                  /\ run'.ensured = run.ensured /\ run'.digest = run.digest
                  BY <2>2, SkipGives, TwoSides DEF run
            <3>2. \A k \in Jobs : run'.stage[k] \in {"ensured"} \cup Ran => run.stage[k] = run'.stage[k]
                  BY <2>1, <3>1 DEF Ran
            <3>3. \A k \in Jobs : run'.stage[k] \in Ran <=> run.stage[k] \in Ran
                  BY <2>1, <3>1 DEF Ran
            <3> QED
                BY <2>1, <3>1, <3>2, <3>3, <1>1 DEF ImageInv
      <2>3. CASE Ensure("run", j)
            <3>1. /\ run'.stage[j] = "ensured" /\ run'.from = run.from
                  /\ run'.ensured = run.ensured \cup {i} /\ i \in Images
                  /\ \/ /\ UNCHANGED local /\ run'.digest = run.digest /\ i \in run.ensured
                     \/ /\ i \notin run.ensured /\ local'[i] # NoDigest
                        /\ \A k \in Images : local[k] # NoDigest => local'[k] = local[k]
                        /\ \A k \in Images \ {i} : run'.digest[k] = run.digest[k]
                        /\ run'.digest[i] \in {local'[i], NoDigest}
                  BY <2>1, <2>3, EnsureGives, TwoSides DEF run
            <3>2. \A k \in Jobs : /\ run'.stage[k] \in Ran <=> run.stage[k] \in Ran
                                  /\ k # j => run'.stage[k] = run.stage[k]
                  BY <2>1, <3>1, SMTT(30) DEF Ran
            <3>3. CASE UNCHANGED local /\ run'.digest = run.digest /\ i \in run.ensured
                  <4>1. run'.ensured = run.ensured
                        BY <3>1, <3>3
                  <4> QED
                      BY <1>1, <2>1, <3>1, <3>2, <3>3, <4>1 DEF ImageInv
            <3>4. CASE /\ i \notin run.ensured /\ local'[i] # NoDigest
                       /\ \A k \in Images : local[k] # NoDigest => local'[k] = local[k]
                       /\ \A k \in Images \ {i} : run'.digest[k] = run.digest[k]
                       /\ run'.digest[i] \in {local'[i], NoDigest}
                  <4>1. ASSUME NEW k \in Images
                        PROVE  /\ run'.digest[k] # NoDigest => k \in run'.ensured
                               /\ k \in run'.ensured => local'[k] # NoDigest
                               /\ "image" \notin disturbed["run"] =>
                                    run'.digest[k] \in {local'[k], NoDigest}
                        <5>1. CASE k = i
                              BY <5>1, <3>1, <3>4
                        <5>2. CASE k # i
                              BY <5>2, <2>1, <3>1, <3>4 DEF ImageInv
                        <5> QED
                            BY <5>1, <5>2
                  <4>2. ASSUME NEW k \in Jobs
                        PROVE  LET m == run.wf.image[k]
                               IN /\ run'.stage[k] \in {"ensured"} \cup Ran => m \in run'.ensured
                                  /\ run'.stage[k] \in Ran <=> run'.from[k] # NoDigest
                                  /\ "image" \notin disturbed["run"] =>
                                       run'.from[k] \in {local'[m], NoDigest}
                        <5> DEFINE m == run.wf.image[k]
                        <5>1. m \in Images
                              BY <2>1
                        <5>2. run.stage[k] \in Ran <=> run.from[k] # NoDigest
                              BY <2>1 DEF ImageInv
                        <5>3. run.from[k] # NoDigest => m \in run.ensured
                              BY <2>1, <5>2 DEF ImageInv
                        <5>4. m \in run.ensured => local[m] # NoDigest
                              BY <2>1, <5>1 DEF ImageInv
                        <5>5. "image" \notin disturbed["run"] =>
                                run.from[k] \in {local'[m], NoDigest}
                              BY <2>1, <5>1, <5>3, <5>4, <3>4 DEF ImageInv
                        <5>6. run'.stage[k] \in {"ensured"} \cup Ran => m \in run'.ensured
                              BY <2>1, <3>1, <3>2 DEF ImageInv
                        <5> QED
                            BY <5>2, <5>5, <5>6, <3>1, <3>2
                  <4>3. ASSUME NEW k \in Jobs, "image" \notin disturbed["run"]
                        PROVE  \/ NoDigest \in {run'.from[k], run'.digest[run.wf.image[k]]}
                               \/ run'.from[k] = run'.digest[run.wf.image[k]]
                        BY <2>1, <4>1, <4>2, <4>3
                  <4> QED
                      BY <1>1, <2>1, <4>1, <4>2, <4>3 DEF ImageInv
            <3> QED
                BY <3>1, <3>3, <3>4, SMTT(30)
      <2>4. CASE Execute("run", j)
            <3>1. /\ local' = local /\ run.stage[j] = "ensured" /\ run'.stage[j] \in Ran
                  /\ run'.from[j] = Base("run", j)
                  /\ run'.ensured = run.ensured /\ run'.digest = run.digest
                  BY <2>1, <2>4, ExecuteGives, TwoSides, ZenonT(60) DEF run
            <3>2. i \in run.ensured /\ local[i] # NoDigest /\ run'.from[j] = local[i]
                  BY <2>1, <3>1 DEF ImageInv, Base, run
            <3>3. ASSUME NEW k \in Jobs
                  PROVE  LET m == run.wf.image[k]
                         IN /\ run'.stage[k] \in {"ensured"} \cup Ran => m \in run.ensured
                            /\ run'.stage[k] \in Ran <=> run'.from[k] # NoDigest
                            /\ "image" \notin disturbed["run"] =>
                                 /\ run'.from[k] \in {local[m], NoDigest}
                                 /\ \/ NoDigest \in {run'.from[k], run.digest[m]}
                                    \/ run'.from[k] = run.digest[m]
                  <4>1. CASE k = j
                        BY <4>1, <2>1, <3>1, <3>2 DEF ImageInv
                  <4>2. CASE k # j
                        BY <4>2, <2>1 DEF ImageInv
                  <4> QED
                      BY <4>1, <4>2
            <3>4. \A k \in Images : /\ run.digest[k] # NoDigest => k \in run.ensured
                                    /\ k \in run.ensured => local[k] # NoDigest
                                    /\ "image" \notin disturbed["run"] =>
                                         run.digest[k] \in {local[k], NoDigest}
                  BY <2>1 DEF ImageInv
            <3> QED
                BY <1>1, <2>1, <3>1, <3>3, <3>4 DEF ImageInv
      <2> QED
          BY <1>3, <2>2, <2>3, <2>4
<1> QED
    BY <1>2, <1>3, TwoSides

\* The replay takes a job up when its needs ended as they did in the run.
LEMMA JobStepAgree ==
  ASSUME VerifyTypes, OrderInv, JobsInv, ManifestInv, AgreeInv, NEW s \in Sides, NEW j \in Jobs,
         SkipJob(s, j) \/ Ensure(s, j) \/ Execute(s, j)
  PROVE  AgreeInv'
<1>1. /\ JobStep(s, j) /\ Only(s) /\ side[s].pc = "jobs" /\ side[s].stage[j] \notin Settled
      /\ side[s].wf # NoFile /\ side[s].wf \in Workflows
      BY JobStepGives DEF JobStep, Only
<1>2. CASE s = "run"
      BY <1>1, <1>2, TwoSides, RunFirst DEF AgreeInv, run
<1>3. CASE s = "verify"
      <2>1. run' = run /\ verify'.wf = verify.wf
            BY <1>1, <1>3, TwoSides DEF JobStep, verify
      <2> SUFFICES ASSUME verify.wf = run.wf, run.wf.flaky = {}, run.exit = 0, NEW k \in Jobs
                   PROVE  SameEnds(k)'
          BY <2>1 DEF AgreeInv
      <2>2. verify.wf # NoFile /\ \A n \in Jobs : SameEnds(n)
            BY <1>1, <1>3 DEF AgreeInv, verify
      <2>3. manifest # NoManifest
            BY <1>1, <1>3 DEF OrderInv, verify
      <2>4. \A n \in Jobs : run.stage[n] \in {"success", "skipped"}
            <3>1. ~AnyFailed("run")
                  BY <2>3 DEF ManifestInv
            <3> QED
                BY <3>1, <2>3 DEF ManifestInv, AnyFailed, run, Settled
      <2>5. NeedSet(run.wf.needs, j) \subseteq Jobs
            BY <1>1, <1>3, WorkflowGives DEF verify
      <2>6. CASE k # j
            <3>1. verify'.stage[k] = verify.stage[k]
                  BY <1>1, <1>3, <2>6 DEF JobStep, verify
            <3> QED
                BY <3>1, <2>1, <2>2 DEF SameEnds
      <2>7. CASE k = j /\ SkipJob("verify", j)
            <3>1. /\ verify'.stage[j] = "skipped"
                  /\ \A n \in NeedSet(run.wf.needs, j) : verify.stage[n] \in Settled
                  /\ \/ j \in run.wf.off
                     \/ \E n \in NeedSet(run.wf.needs, j) : verify.stage[n] # "success"
                  BY <2>7, SkipGives, TwoSides DEF Ready, Runs, verify
            <3>2. run.stage[j] # "success"
                  <4> SUFFICES ASSUME run.stage[j] = "success" PROVE FALSE
                      OBVIOUS
                  <4>1. JobInv(run, j)
                        BY TwoSides DEF JobsInv, run
                  <4>2. j \notin run.wf.off /\ \A n \in NeedSet(run.wf.needs, j) : run.stage[n] = "success"
                        BY <4>1, <2>2 DEF JobInv, Ran
                  <4>3. PICK n \in NeedSet(run.wf.needs, j) :
                          verify.stage[n] \in Settled /\ verify.stage[n] # "success"
                        BY <3>1, <4>2
                  <4>4. verify.stage[n] # "failed"
                        <5>1. JobInv(verify, n)
                              BY <2>5, TwoSides DEF JobsInv, verify
                        <5> QED
                            BY <5>1, <2>2 DEF JobInv
                  <4>5. verify.stage[n] = "skipped"
                        BY <4>3, <4>4 DEF Settled
                  <4> QED
                      BY <4>2, <4>5, <2>2, <2>5 DEF SameEnds
            <3> QED
                BY <3>1, <3>2, <2>1, <2>7 DEF SameEnds, Ran
      <2>8. CASE k = j /\ Ensure("verify", j)
            <3>1. /\ verify'.stage[j] = "ensured" /\ j \notin run.wf.off
                  /\ \A n \in NeedSet(run.wf.needs, j) : verify.stage[n] = "success"
                  BY <2>2, <2>8, EnsureGives, TwoSides DEF Runs, verify
            <3>2. \A n \in NeedSet(run.wf.needs, j) : run.stage[n] = "success"
                  BY <3>1, <2>2, <2>5 DEF SameEnds, Ran
            <3>3. JobInv(run, j)
                  BY TwoSides DEF JobsInv, run
            <3>4. run.stage[j] # "skipped"
                  BY <3>1, <3>2, <3>3, <2>2 DEF JobInv
            <3> QED
                BY <3>1, <3>4, <2>1, <2>4, <2>8 DEF SameEnds
      <2>9. CASE k = j /\ Execute("verify", j)
            <3>1. verify.stage[j] = "ensured" /\ verify'.stage[j] \in Ran
                  BY <2>2, <2>9, ExecuteGives, TwoSides DEF verify
            <3> QED
                BY <3>1, <2>1, <2>2, <2>9 DEF SameEnds, Ran
      <2> QED
          BY <1>3, <2>6, <2>7, <2>8, <2>9
<1> QED
    BY <1>2, <1>3, TwoSides

----------------------------------------------------------------------------
(* The steps of a side as a whole. *)

Rest == /\ OrderInv /\ JobsInv /\ ImageInv /\ RecipeInv
        /\ ManifestInv /\ PinInv /\ AgreeInv /\ OutcomeInv

LEMMA AbortsKeeps ==
  ASSUME VerifyTypes, Rest, NEW s \in Sides, Aborts(s)
  PROVE  Rest'
<1>1. /\ Only(s) /\ UNCHANGED <<local, manifest, strict, file, disturbed>>
      /\ SameJobs(s) /\ side[s].pc = "jobs" /\ side'[s].pc = "done" /\ side'[s].exit = 3
      BY AbortsGives DEF Only
<1>2. /\ OrderInv /\ JobsInv /\ ImageInv /\ RecipeInv
      /\ ManifestInv /\ PinInv /\ AgreeInv /\ OutcomeInv
      BY DEF Rest
<1>3. JobsInv'
      BY <1>1, <1>2, SameJobsInv
<1>4. \A t \in Sides : /\ side'[t].wf = side[t].wf /\ side'[t].keys = side[t].keys
                       /\ side'[t].pin = side[t].pin /\ side'[t].stage = side[t].stage
                       /\ side'[t].digest = side[t].digest /\ side'[t].ensured = side[t].ensured
                       /\ side'[t].from = side[t].from
                       /\ t # s => side'[t] = side[t]
      BY <1>1 DEF SameJobs, Only
<1>5. /\ run'.wf = run.wf /\ run'.keys = run.keys /\ run'.pin = run.pin /\ run'.stage = run.stage
      /\ run'.digest = run.digest /\ run'.ensured = run.ensured /\ run'.from = run.from
      /\ verify'.wf = verify.wf /\ verify'.keys = verify.keys /\ verify'.pin = verify.pin
      /\ verify'.stage = verify.stage
      BY <1>4, TwoSides DEF run, verify
<1>6. PinInv'
      BY <1>1, <1>2, <1>5 DEF PinInv
<1>7. CASE s = "run"
      <2>1. /\ verify' = verify /\ manifest = NoManifest /\ verify.wf = NoFile /\ verify.pc = "idle"
            /\ run'.pc = "done"
            BY <1>1, <1>2, <1>7, TwoSides, RunFirst DEF run
      <2>2. OrderInv'
            BY <1>1, <1>2, <1>4, <1>5, <1>7, <2>1 DEF OrderInv
      <2>3. ImageInv'
            BY <1>1, <1>2, <1>5, <2>1 DEF ImageInv
      <2>4. OutcomeInv' /\ AgreeInv' /\ ManifestInv'
            BY <1>1, <1>2, <2>1 DEF OutcomeInv, AgreeInv, ManifestInv
      <2>5. RecipeInv'
            BY <1>1, <1>2, <2>1 DEF RecipeInv
      <2> QED
          BY <1>3, <1>6, <2>2, <2>3, <2>4, <2>5 DEF Rest
<1>8. CASE s = "verify"
      <2>1. /\ run' = run /\ verify'.pc = "done" /\ verify'.exit = 3 /\ verify.pc = "jobs"
            BY <1>1, <1>8, TwoSides DEF verify
      <2>2. OrderInv'
            BY <1>1, <1>2, <1>4, <1>5, <1>8, <2>1 DEF OrderInv
      <2>3. ImageInv' /\ RecipeInv'
            BY <1>1, <1>2, <1>5, <2>1 DEF ImageInv, RecipeInv
      <2>4. OutcomeInv' /\ AgreeInv'
            BY <1>1, <1>2, <1>5, <2>1 DEF OutcomeInv, AgreeInv, SameEnds
      <2>5. ManifestInv'
            BY <1>1, <1>2, <2>1 DEF ManifestInv, AnyFailed, run
      <2> QED
          BY <1>3, <1>6, <2>2, <2>3, <2>4, <2>5 DEF Rest
<1> QED
    BY <1>7, <1>8, TwoSides

LEMMA StartRunKeeps ==
  ASSUME VerifyTypes, Rest, StartRun
  PROVE  Rest'
<1>1. /\ Only("run") /\ UNCHANGED <<local, manifest, strict, file, disturbed>>
      /\ verify' = verify /\ run.pc = "idle"
      BY StartRunGives, TwoSides DEF Only
<1>2. /\ OrderInv /\ JobsInv /\ ImageInv /\ RecipeInv
      /\ ManifestInv /\ PinInv /\ AgreeInv /\ OutcomeInv
      BY DEF Rest
<1>3. manifest = NoManifest /\ verify.pc = "idle" /\ verify.wf = NoFile
      BY <1>1, <1>2, RunFirst
<1>4. OutcomeInv' /\ AgreeInv' /\ ManifestInv'
      BY <1>1, <1>2, <1>3 DEF OutcomeInv, AgreeInv, ManifestInv
<1>5. CASE /\ run'.pc = "jobs" /\ run'.wf = file /\ file # NoFile /\ run'.exit = -1
           /\ run'.keys = KeysAsIs(file)
           /\ run'.pin = ImagesAsIs /\ run'.digest = ImagesAsIs /\ run'.ensured = {}
           /\ \A j \in Jobs : /\ run'.stage[j] = "waiting" /\ run'.tree[j] = <<>>
                              /\ run'.from[j] = NoDigest
      <2>1. JobsInv'
            <3> SUFFICES ASSUME NEW t \in Sides, NEW j \in Jobs PROVE JobInv(side'[t], j)
                BY DEF JobsInv
            <3>1. CASE t = "run"
                  BY <1>5, <3>1 DEF JobInv, Ran, run
            <3>2. CASE t # "run"
                  BY <1>1, <1>2, <3>2 DEF JobsInv, Only
            <3> QED
                BY <3>1, <3>2
      <2>2. OrderInv'
            <3>1. \A t \in Sides : t # "run" => side'[t] = side[t]
                  BY <1>1 DEF Only
            <3> QED
                BY <1>1, <1>2, <1>3, <1>5, <3>1 DEF OrderInv, run
      <2>3. file \in Workflows /\ \A j \in Jobs : file.image[j] \in Images
            BY <1>5, WorkflowGives DEF VerifyTypes
      <2>4. ImageInv'
            <3>1. \A i \in Images : run'.digest[i] = NoDigest
                  BY <1>5 DEF ImagesAsIs
            <3> QED
                BY <1>5, <2>3, <3>1 DEF ImageInv, Ran
      <2>5. RecipeInv'
            BY <1>1, <1>2, <1>3, <1>5 DEF RecipeInv
      <2>6. PinInv'
            <3>1. \A k \in KeysOf(file) : k \in Keys /\ tags[k] # NoCommit
                  <4>1. KeysOf(file) \subseteq Keys
                        BY <2>3, WorkflowGives DEF KeysOf
                  <4> QED
                      BY <4>1, VerifyAssumption DEF VerifyTypes
            <3>2. \A k \in KeysOf(file) : run'.keys[k] # NoCommit
                  BY <1>5, <3>1 DEF KeysAsIs
            <3> QED
                BY <1>1, <1>2, <1>3, <1>5, <3>2 DEF PinInv
      <2> QED
          BY <1>4, <2>1, <2>2, <2>4, <2>5, <2>6 DEF Rest
<1>6. CASE SameJobs("run") /\ run'.pc = "done" /\ run'.exit = 3
      <2>1. JobsInv'
            BY <1>1, <1>2, <1>6, TwoSides, SameJobsInv
      <2>2. /\ run'.wf = run.wf /\ run'.keys = run.keys /\ run'.pin = run.pin
            /\ run'.stage = run.stage /\ run'.digest = run.digest
            /\ run'.ensured = run.ensured /\ run'.from = run.from
            BY <1>6 DEF SameJobs, run
      <2>3. OrderInv'
            <3>1. \A t \in Sides : t # "run" => side'[t] = side[t]
                  BY <1>1 DEF Only
            <3> QED
                BY <1>1, <1>2, <1>3, <1>6, <2>2, <3>1 DEF OrderInv, run
      <2>4. ImageInv' /\ RecipeInv' /\ PinInv'
            BY <1>1, <1>2, <1>3, <1>6, <2>2 DEF ImageInv, RecipeInv, PinInv
      <2> QED
          BY <1>4, <2>1, <2>3, <2>4 DEF Rest
<1> QED
    BY <1>5, <1>6, StartRunGives

LEMMA AttestKeeps ==
  ASSUME VerifyTypes, Rest, Attest
  PROVE  Rest'
<1>1. /\ Only("run") /\ UNCHANGED <<local, strict, file, disturbed>>
      /\ verify' = verify /\ Over("run") /\ SameJobs("run") /\ run'.pc = "done"
      /\ run'.exit = IF AnyFailed("run") THEN 1 ELSE 0
      /\ manifest' # NoManifest =>
           /\ manifest'.recipe = file /\ file # NoFile
           /\ manifest'.subjects = Attested(file, Subjects(run.tree, run'.unread))
           /\ manifest'.images = run.digest /\ manifest'.keys = run.keys
      BY AttestGives, TwoSides DEF Only
<1>2. /\ OrderInv /\ JobsInv /\ ImageInv /\ RecipeInv
      /\ ManifestInv /\ PinInv /\ AgreeInv /\ OutcomeInv
      BY DEF Rest
<1>3. /\ run.pc = "jobs" /\ run.wf # NoFile /\ \A j \in Jobs : run.stage[j] \in Settled
      BY <1>1, <1>2, TwoSides DEF Over, Is, run, OrderInv
<1>4. manifest = NoManifest /\ verify.pc = "idle" /\ verify.wf = NoFile
      BY <1>2, <1>3, RunFirst
<1>5. /\ run'.wf = run.wf /\ run'.keys = run.keys /\ run'.pin = run.pin /\ run'.tree = run.tree
      /\ run'.stage = run.stage /\ run'.digest = run.digest
      /\ run'.ensured = run.ensured /\ run'.from = run.from
      BY <1>1 DEF SameJobs, run
<1>6. JobsInv'
      BY <1>1, <1>2, TwoSides, SameJobsInv
<1>7. OrderInv'
      <2>1. \A t \in Sides : t # "run" => side'[t] = side[t]
            BY <1>1 DEF Only
      <2>2. run'.exit \in {0, 1}
            BY <1>1
      <2> QED
          BY <1>1, <1>2, <1>3, <1>4, <1>5, <2>1, <2>2 DEF OrderInv, run
<1>8. ImageInv' /\ PinInv' /\ RecipeInv'
      BY <1>1, <1>2, <1>4, <1>5 DEF ImageInv, PinInv, RecipeInv
<1>9. OutcomeInv' /\ AgreeInv'
      BY <1>1, <1>2, <1>4 DEF OutcomeInv, AgreeInv, OrderInv
<1>10. ManifestInv'
       <2>1. AnyFailed("run")' <=> AnyFailed("run")
             BY <1>5 DEF AnyFailed, run
       <2>2. "recipe" \notin disturbed["run"] => file = run.wf
             BY <1>2, <1>3 DEF RecipeInv
       <2> QED
           BY <1>1, <1>3, <1>5, <2>1, <2>2 DEF ManifestInv
<1> QED
    BY <1>6, <1>7, <1>8, <1>9, <1>10 DEF Rest

\* What every step of the verification leaves of the run and its manifest.
LEMMA RunKept ==
  ASSUME Rest, run' = run, UNCHANGED <<manifest, local, file, disturbed>>
  PROVE  ImageInv' /\ ManifestInv'
<1>1. ImageInv /\ ManifestInv
      BY DEF Rest
<1>2. AnyFailed("run")' <=> AnyFailed("run")
      BY DEF AnyFailed, run
<1> QED
    BY <1>1, <1>2 DEF ImageInv, ManifestInv

LEMMA StartVerifyKeeps ==
  ASSUME VerifyTypes, Rest, StartVerify
  PROVE  Rest'
<1>1. /\ Only("verify") /\ UNCHANGED <<local, manifest, file, disturbed>>
      /\ run' = run /\ verify.pc = "idle" /\ manifest # NoManifest
      BY StartVerifyGives, TwoSides DEF Only
<1>2. /\ OrderInv /\ JobsInv /\ ImageInv /\ RecipeInv
      /\ ManifestInv /\ PinInv /\ AgreeInv /\ OutcomeInv
      BY DEF Rest
<1>3. /\ verify.wf = NoFile /\ \A j \in Jobs : verify.stage[j] = "waiting"
      BY <1>1, <1>2, TwoSides DEF OrderInv, verify
<1>4. \A t \in Sides : t # "verify" => side'[t] = side[t]
      BY <1>1 DEF Only
<1>5. /\ verify'.wf = NoFile /\ \A j \in Jobs : verify'.stage[j] = "waiting"
      /\ \/ verify'.pc = "done" /\ verify'.exit = 1
         \/ verify'.pc = "recipe" /\ verify'.exit = -1
      BY <1>3, StartVerifyGives DEF SameJobs, verify
<1>6. JobsInv'
      <2>1. CASE SameJobs("verify")
            BY <1>1, <1>2, <2>1, TwoSides, SameJobsInv
      <2>2. CASE \A j \in Jobs : verify'.tree[j] = <<>>
            <3> SUFFICES ASSUME NEW t \in Sides, NEW j \in Jobs PROVE JobInv(side'[t], j)
                BY DEF JobsInv
            <3>1. CASE t = "verify"
                  BY <1>5, <2>2, <3>1 DEF JobInv, verify
            <3>2. CASE t # "verify"
                  BY <1>2, <1>4, <3>2 DEF JobsInv
            <3> QED
                BY <3>1, <3>2
      <2> QED
          BY <2>1, <2>2, StartVerifyGives
<1>7. OrderInv'
      BY <1>1, <1>2, <1>4, <1>5 DEF OrderInv, verify
<1>8. RecipeInv' /\ PinInv' /\ AgreeInv' /\ OutcomeInv'
      BY <1>1, <1>2, <1>5 DEF RecipeInv, PinInv, AgreeInv, OutcomeInv
<1> QED
    BY <1>1, <1>6, <1>7, <1>8, RunKept DEF Rest

LEMMA CheckRecipeKeeps ==
  ASSUME VerifyTypes, Rest, CheckRecipe
  PROVE  Rest'
<1>1. /\ Only("verify") /\ UNCHANGED <<local, manifest, strict, file, disturbed>>
      /\ run' = run /\ verify.pc = "recipe" /\ SameJobs("verify")
      /\ \/ verify'.pc = "done" /\ verify'.exit \in {1, 2}
         \/ verify'.pc = "load" /\ verify'.exit = verify.exit /\ file = manifest.recipe
      BY CheckRecipeGives, TwoSides DEF Only
<1>2. /\ OrderInv /\ JobsInv /\ ImageInv /\ RecipeInv
      /\ ManifestInv /\ PinInv /\ AgreeInv /\ OutcomeInv
      BY DEF Rest
<1>3. verify'.wf = NoFile /\ verify.exit = -1 /\ verify'.stage = verify.stage /\ verify.wf = NoFile
      BY <1>1, <1>2, TwoSides DEF OrderInv, SameJobs, verify
<1>4. \A t \in Sides : t # "verify" => side'[t] = side[t]
      BY <1>1 DEF Only
<1>5. JobsInv'
      BY <1>1, <1>2, TwoSides, SameJobsInv
<1>6. OrderInv'
      BY <1>1, <1>2, <1>3, <1>4 DEF OrderInv, verify
<1>7. RecipeInv' /\ PinInv' /\ AgreeInv' /\ OutcomeInv'
      BY <1>1, <1>2, <1>3 DEF RecipeInv, PinInv, AgreeInv, OutcomeInv
<1> QED
    BY <1>1, <1>5, <1>6, <1>7, RunKept DEF Rest

LEMMA LoadRecipeKeeps ==
  ASSUME VerifyTypes, Rest, LoadRecipe
  PROVE  Rest'
<1>1. /\ OrderInv /\ JobsInv /\ ImageInv /\ RecipeInv
      /\ ManifestInv /\ PinInv /\ AgreeInv /\ OutcomeInv
      BY DEF Rest
<1>2. verify.pc = "load" /\ manifest # NoManifest
      BY <1>1 DEF LoadRecipe, Is, OrderInv, verify
<1>3. /\ Only("verify") /\ UNCHANGED <<local, manifest, strict, file, disturbed>> /\ run' = run
      BY <1>2, LoadRecipeGives, TwoSides DEF Only
<1>4. verify.exit = -1 /\ verify.wf = NoFile /\ \A j \in Jobs : verify.stage[j] = "waiting"
      BY <1>1, <1>2, TwoSides DEF OrderInv, verify
<1>5. \A t \in Sides : t # "verify" => side'[t] = side[t]
      BY <1>3 DEF Only
<1>6. CASE SameJobs("verify") /\ verify'.pc = "done" /\ verify'.exit \in {2, 3}
      <2>1. verify'.wf = NoFile /\ verify'.stage = verify.stage
            BY <1>4, <1>6 DEF SameJobs, verify
      <2>2. JobsInv'
            BY <1>1, <1>3, <1>6, TwoSides, SameJobsInv
      <2>3. OrderInv'
            BY <1>1, <1>2, <1>3, <1>4, <1>5, <1>6, <2>1 DEF OrderInv, verify
      <2>4. RecipeInv' /\ PinInv' /\ AgreeInv' /\ OutcomeInv'
            BY <1>1, <1>3, <1>6, <2>1 DEF RecipeInv, PinInv, AgreeInv, OutcomeInv
      <2> QED
          BY <1>3, <2>2, <2>3, <2>4, RunKept DEF Rest
<1>7. CASE /\ verify'.pc = "jobs" /\ verify'.exit = verify.exit
           /\ verify'.wf = file /\ file # NoFile
           /\ verify'.keys = PinnedKeys(file) /\ verify'.pin = manifest.images
           /\ verify'.stage = verify.stage /\ verify'.tree = verify.tree
      <2>1. JobsInv'
            <3> SUFFICES ASSUME NEW t \in Sides, NEW j \in Jobs PROVE JobInv(side'[t], j)
                BY DEF JobsInv
            <3>1. CASE t = "verify"
                  <4>1. verify.tree[j] = <<>>
                        BY <1>1, <1>4, TwoSides DEF JobsInv, JobInv, Ran, verify
                  <4>2. verify'.stage[j] = "waiting" /\ verify'.tree[j] = <<>>
                        BY <1>4, <1>7, <4>1
                  <4> QED
                      BY <3>1, <4>2 DEF JobInv, Ran, verify
            <3>2. CASE t # "verify"
                  BY <1>1, <1>5, <3>2 DEF JobsInv
            <3> QED
                BY <3>1, <3>2
      <2>2. OrderInv'
            BY <1>1, <1>2, <1>3, <1>4, <1>5, <1>7 DEF OrderInv, verify
      <2>3. RecipeInv'
            BY <1>1, <1>2, <1>3, <1>7 DEF RecipeInv
      <2>4. PinInv'
            <3>1. file \in Workflows
                  BY <1>7 DEF VerifyTypes
            <3>2. KeysOf(file) \subseteq Keys
                  BY <3>1, WorkflowGives DEF KeysOf
            <3>3. \A k \in KeysOf(file) :
                    manifest.keys[k] # NoCommit => verify'.keys[k] = manifest.keys[k]
                  BY <1>7, <3>2 DEF PinnedKeys
            <3> QED
                BY <1>1, <1>3, <1>7, <3>3 DEF PinInv
      <2>5. AgreeInv'
            BY <1>4, <1>7 DEF AgreeInv, SameEnds, Ran
      <2>6. OutcomeInv'
            BY <1>4, <1>7 DEF OutcomeInv
      <2> QED
          BY <1>3, <2>1, <2>2, <2>3, <2>4, <2>5, <2>6, RunKept DEF Rest
<1> QED
    BY <1>2, <1>6, <1>7, LoadRecipeGives

LEMMA CompareKeeps ==
  ASSUME VerifyTypes, Rest, Compare
  PROVE  Rest'
<1>1. /\ Only("verify") /\ UNCHANGED <<local, manifest, strict, file, disturbed>> /\ run' = run
      /\ Over("verify") /\ SameJobs("verify") /\ verify'.pc = "done"
      /\ verify'.exit = IF Verified(manifest.subjects, Subjects(verify.tree, verify'.unread),
                                    AnyFailed("verify"), strict) THEN 0 ELSE 1
      BY CompareGives, TwoSides DEF Only
<1>2. /\ OrderInv /\ JobsInv /\ ImageInv /\ RecipeInv
      /\ ManifestInv /\ PinInv /\ AgreeInv /\ OutcomeInv
      BY DEF Rest
<1>3. /\ verify.pc = "jobs" /\ verify.wf # NoFile /\ \A j \in Jobs : verify.stage[j] \in Settled
      BY <1>1, <1>2, TwoSides DEF Over, Is, verify, OrderInv
<1>4. /\ verify'.wf = verify.wf /\ verify'.keys = verify.keys /\ verify'.pin = verify.pin
      /\ verify'.tree = verify.tree /\ verify'.stage = verify.stage
      BY <1>1 DEF SameJobs, verify
<1>5. \A t \in Sides : t # "verify" => side'[t] = side[t]
      BY <1>1 DEF Only
<1>6. JobsInv'
      BY <1>1, <1>2, TwoSides, SameJobsInv
<1>7. OrderInv'
      <2>1. verify'.exit \in {0, 1}
            BY <1>1
      <2> QED
          BY <1>1, <1>2, <1>3, <1>4, <1>5, <2>1 DEF OrderInv, verify
<1>8. RecipeInv' /\ PinInv'
      BY <1>1, <1>2, <1>4 DEF RecipeInv, PinInv
<1>9. AgreeInv'
      BY <1>1, <1>2, <1>4 DEF AgreeInv, SameEnds
<1>10. OutcomeInv'
       <2>1. AnyFailed("verify")' <=> AnyFailed("verify")
             BY <1>4 DEF AnyFailed, verify
       <2> QED
           BY <1>1, <1>3, <1>4, <2>1 DEF OutcomeInv, Verified
<1> QED
    BY <1>1, <1>6, <1>7, <1>8, <1>9, <1>10, RunKept DEF Rest

LEMMA WorldKeeps ==
  ASSUME VerifyTypes, Rest, WorldMoves
  PROVE  Rest'
<1>1. /\ UNCHANGED <<side, manifest, strict>> /\ run' = run /\ verify' = verify
      /\ \A s \in Sides :
           /\ disturbed[s] \subseteq disturbed'[s]
           /\ AtWork(s) => /\ "recipe" \notin disturbed'[s] => file' = file
                           /\ "image" \notin disturbed'[s] => local' = local
                           /\ \A i \in Images : local[i] # NoDigest => local'[i] # NoDigest
      BY WorldGives DEF run, verify
<1>2. /\ OrderInv /\ JobsInv /\ ImageInv /\ RecipeInv
      /\ ManifestInv /\ PinInv /\ AgreeInv /\ OutcomeInv
      BY DEF Rest
<1>3. /\ OrderInv' /\ JobsInv' /\ PinInv' /\ AgreeInv'
      BY <1>1, <1>2 DEF OrderInv, JobsInv, PinInv, AgreeInv, SameEnds
<1>4. OutcomeInv'
      <2>1. AnyFailed("verify")' <=> AnyFailed("verify")
            BY <1>1 DEF AnyFailed
      <2> QED
          BY <1>1, <1>2, <2>1 DEF OutcomeInv, Verified
<1>5. ManifestInv'
      BY <1>1, <1>2, TwoSides DEF ManifestInv, AnyFailed
<1>6. /\ run.pc = "jobs" => AtWork("run")
      /\ verify.pc = "load" => AtWork("verify")
      BY DEF AtWork, run, verify
<1>7. RecipeInv'
      BY <1>1, <1>2, <1>6, TwoSides DEF RecipeInv
<1>8. ImageInv'
      <2>1. "image" \notin disturbed'["run"] => "image" \notin disturbed["run"]
            BY <1>1, TwoSides
      <2>2. run.pc = "jobs" => /\ "image" \notin disturbed'["run"] => local' = local
                               /\ \A i \in Images : local[i] # NoDigest => local'[i] # NoDigest
            BY <1>1, <1>6, TwoSides
      <2> QED
          BY <1>1, <1>2, <2>1, <2>2 DEF ImageInv
<1> QED
    BY <1>3, <1>4, <1>5, <1>7, <1>8 DEF Rest

LEMMA InitIInv == Init => IInv
<1> SUFFICES ASSUME Init PROVE IInv
    OBVIOUS
<1>1. /\ \A s \in Sides : side[s] = Unused
      /\ run = Unused /\ verify = Unused /\ manifest = NoManifest
      BY TwoSides DEF Init, run, verify
<1>2. VerifyTypes
      <2>1. side \in [Sides -> Executions]
            BY UnusedType DEF Init
      <2> QED
          BY <2>1, <1>1 DEF Init, VerifyTypes, Resolved
<1>3. /\ Unused.pc = "idle" /\ Unused.wf = NoFile /\ Unused.exit = -1 /\ Unused.pin = ImagesAsIs
      /\ Unused.digest = ImagesAsIs /\ Unused.ensured = {}
      /\ \A j \in Jobs : Unused.stage[j] = "waiting" /\ Unused.tree[j] = <<>>
      BY DEF Unused, ImagesAsIs
<1>4. OrderInv
      BY <1>1, <1>3 DEF OrderInv
<1>5. JobsInv
      BY <1>1, <1>3 DEF JobsInv, JobInv
<1>6. ImageInv
      BY <1>1, <1>3 DEF ImageInv, ImagesAsIs
<1>7. RecipeInv /\ ManifestInv /\ PinInv /\ AgreeInv /\ OutcomeInv
      BY <1>1, <1>3 DEF RecipeInv, ManifestInv, PinInv, AgreeInv, OutcomeInv
<1> QED
    BY <1>2, <1>4, <1>5, <1>6, <1>7 DEF IInv

LEMMA NextIInv == IInv /\ [Next]_vars => IInv'
<1> SUFFICES ASSUME IInv, [Next]_vars PROVE IInv'
    OBVIOUS
<1>1. VerifyTypes /\ Rest
      BY DEF IInv, Rest
<1>2. /\ OrderInv /\ JobsInv /\ ImageInv /\ RecipeInv
      /\ ManifestInv /\ PinInv /\ AgreeInv /\ OutcomeInv
      BY DEF IInv
<1>3. ASSUME NEW s \in Sides, NEW j \in Jobs, SkipJob(s, j) \/ Ensure(s, j) \/ Execute(s, j)
      PROVE  VerifyTypes' /\ Rest'
      BY <1>2, <1>1, <1>3, JobStepGives, JobStepJobs, JobStepRest, JobStepImages, JobStepAgree
         DEF Rest
<1>4. ASSUME NEW s \in Sides, Aborts(s)
      PROVE  VerifyTypes' /\ Rest'
      BY <1>1, <1>4, AbortsGives, AbortsKeeps
<1>5. ASSUME StartRun \/ Attest
      PROVE  VerifyTypes' /\ Rest'
      BY <1>1, <1>5, StartRunGives, StartRunKeeps, AttestGives, AttestKeeps
<1>6. ASSUME StartVerify \/ CheckRecipe \/ Compare
      PROVE  VerifyTypes' /\ Rest'
      BY <1>1, <1>6, StartVerifyGives, StartVerifyKeeps, CheckRecipeGives, CheckRecipeKeeps,
         CompareGives, CompareKeeps
<1>7. ASSUME LoadRecipe
      PROVE  VerifyTypes' /\ Rest'
      <2>1. manifest # NoManifest
            BY <1>2, <1>7 DEF LoadRecipe, Is, OrderInv, verify
      <2> QED
          BY <1>1, <1>7, <2>1, LoadRecipeGives, LoadRecipeKeeps
<1>8. ASSUME WorldMoves
      PROVE  VerifyTypes' /\ Rest'
      BY <1>1, <1>8, WorldGives, WorldKeeps
<1>9. ASSUME UNCHANGED vars
      PROVE  VerifyTypes' /\ Rest'
      <2>1. UNCHANGED <<file, registry, local, tags, head, now, side, manifest, strict, disturbed>>
            BY <1>9 DEF vars, world
      <2>2. VerifyTypes'
            BY <1>1, <2>1 DEF VerifyTypes
      <2>3. run' = run /\ verify' = verify
            BY <2>1 DEF run, verify
      <2>4. OrderInv' /\ JobsInv' /\ ImageInv' /\ RecipeInv' /\ PinInv' /\ AgreeInv'
            BY <1>2, <2>1, <2>3
               DEF OrderInv, JobsInv, ImageInv, RecipeInv, PinInv, AgreeInv, SameEnds
      <2>5. ManifestInv' /\ OutcomeInv'
            BY <1>2, <2>1, <2>3 DEF ManifestInv, OutcomeInv, AnyFailed
      <2> QED
          BY <2>2, <2>4, <2>5 DEF Rest
<1>10. VerifyTypes' /\ Rest'
       BY <1>3, <1>4, <1>5, <1>6, <1>7, <1>8, <1>9 DEF Next, WorldMoves
<1> QED
    BY <1>10 DEF IInv, Rest

LEMMA Inductive == Spec => []IInv
BY InitIInv, NextIInv, PTL DEF Spec

----------------------------------------------------------------------------
(* The manifest. *)

\* README.md:215-220: every manifest emitProvenance writes names the recipe
\* the run executed and the image each of its containers came from, unless
\* the file was edited or an image pulled by somebody else meanwhile.
THEOREM ManifestTellsTheRun == Spec => []ManifestFaithful
<1>1. IInv => ManifestFaithful
      <2> SUFFICES ASSUME IInv, manifest # NoManifest
                   PROVE  /\ "recipe" \notin disturbed["run"] => manifest.recipe = run.wf
                          /\ "image" \notin disturbed["run"] =>
                               \A j \in Jobs :
                                 LET d == manifest.images[run.wf.image[j]]
                                 IN  run.from[j] # NoDigest /\ d # NoDigest => run.from[j] = d
          BY DEF ManifestFaithful, run
      <2>1. run.wf # NoFile
            BY DEF IInv, OrderInv
      <2>2. /\ "recipe" \notin disturbed["run"] => manifest.recipe = run.wf
            /\ manifest.images = run.digest
            BY DEF IInv, ManifestInv
      <2>3. ASSUME "image" \notin disturbed["run"], NEW j \in Jobs
            PROVE  \/ NoDigest \in {run.from[j], run.digest[run.wf.image[j]]}
                   \/ run.from[j] = run.digest[run.wf.image[j]]
            BY <2>1, <2>3 DEF IInv, ImageInv
      <2> QED
          BY <2>2, <2>3
<1> QED
    BY <1>1, Inductive, PTL

----------------------------------------------------------------------------
(* The comparison. *)

\* A subject is a file of a tree that could be hashed, with its content.
LEMMA SubjectsAre ==
  ASSUME NEW trees, NEW unread, NEW j, NEW f
  PROVE  /\ <<j, f>> \in DOMAIN Subjects(trees, unread) <=>
              j \in Jobs \ unread /\ f \in Files /\ f \in DOMAIN trees[j]
         /\ <<j, f>> \in DOMAIN Subjects(trees, unread) =>
              Subjects(trees, unread)[<<j, f>>] = trees[j][f]
<1> DEFINE S == {m \in (Jobs \ unread) \X Files : m[2] \in DOMAIN trees[m[1]]}
<1>1. <<j, f>>[1] = j /\ <<j, f>>[2] = f
      OBVIOUS
<1>2. <<j, f>> \in S <=> j \in Jobs \ unread /\ f \in Files /\ f \in DOMAIN trees[j]
      BY <1>1
<1>3. DOMAIN Subjects(trees, unread) = S
      BY DEF Subjects
<1>4. ASSUME <<j, f>> \in S PROVE Subjects(trees, unread)[<<j, f>>] = trees[j][f]
      BY <1>1, <1>4 DEF Subjects
<1> QED
    BY <1>2, <1>3, <1>4

\* Two sides with the same trees have the same subjects.
LEMMA TreesGive ==
  ASSUME NEW a, NEW b, \A j \in Jobs : a[j] = b[j]
  PROVE  Subjects(a, {}) = Subjects(b, {})
BY DEF Subjects

LEMMA TreeFiles ==
  ASSUME VerifyTypes, NEW s \in Sides, NEW j \in Jobs
  PROVE  /\ DOMAIN side[s].tree[j] \subseteq Files
         /\ side[s].tree[j] = [f \in DOMAIN side[s].tree[j] |-> side[s].tree[j][f]]
<1>1. side[s].tree[j] \in Trees
      BY DEF VerifyTypes, Executions
<1> QED
    BY <1>1 DEF Trees

\* Exit 0 is given by the comparison only, to what the run has left.
LEMMA ExitZero ==
  ASSUME IInv, verify.exit = 0
  PROVE  LET want == Subjects(run.tree, run.unread)
             got == Subjects(verify.tree, verify.unread)
         IN  /\ manifest # NoManifest /\ verify.wf # NoFile /\ ~AnyFailed("verify")
             /\ DOMAIN want \subseteq DOMAIN got
             /\ strict => /\ DOMAIN got \subseteq DOMAIN want
                          /\ \A n \in DOMAIN want : want[n] = got[n]
<1> DEFINE want == Subjects(run.tree, run.unread)
           got == Subjects(verify.tree, verify.unread)
<1>1. /\ verify.wf # NoFile
      /\ Verified(manifest.subjects, got, AnyFailed("verify"), strict)
      BY DEF IInv, OutcomeInv
<1>2. manifest # NoManifest
      BY TwoSides DEF IInv, OrderInv, verify
<1>3. manifest.subjects = Attested(manifest.recipe, want)
      BY <1>2 DEF IInv, ManifestInv
<1>4. /\ ~AnyFailed("verify") /\ DOMAIN manifest.subjects \ DOMAIN got = {}
      /\ strict => /\ {n \in DOMAIN manifest.subjects \cap DOMAIN got :
                         manifest.subjects[n] # got[n]} = {}
                   /\ DOMAIN got \ DOMAIN manifest.subjects = {}
      BY <1>1 DEF Verified, Missing, Mismatched, Extra
<1>5. DOMAIN got \subseteq Jobs \X Files
      BY DEF Subjects
<1>6. want # <<>>
      <2> SUFFICES ASSUME want = <<>> PROVE FALSE
          OBVIOUS
      <2>1. manifest.subjects = [n \in {WorkflowName} |-> manifest.recipe]
            BY <1>3 DEF Attested
      <2>2. WorkflowName \in DOMAIN got
            BY <1>4, <2>1
      <2> QED
          BY <1>5, <2>2, VerifyAssumption
<1>7. manifest.subjects = want
      BY <1>3, <1>6 DEF Attested
<1> HIDE DEF want, got
<1>8. /\ DOMAIN want \subseteq DOMAIN got
      /\ strict => /\ DOMAIN got \subseteq DOMAIN want
                   /\ \A n \in DOMAIN want : want[n] = got[n]
      BY <1>4, <1>7
<1> QED
    BY <1>1, <1>2, <1>4, <1>8 DEF want, got

\* Exit 0 vouches for the run itself, whatever moved in between: every file it
\* left in a readable tree is there again, with --strict in the same trees, and
\* the recipe is the one it ran (Verify's comparison against the manifest's
\* subjects; a manifest that attests the workflow file alone is never met).
THEOREM ExitZeroVouches == Spec => []VerifiedMeans
<1>1. IInv => VerifiedMeans
      <2> SUFFICES ASSUME IInv, verify.exit = 0
                   PROVE  /\ ~AnyFailed("verify")
                          /\ \A j \in Jobs \ run.unread :
                               DOMAIN run.tree[j] \subseteq DOMAIN verify.tree[j]
                          /\ strict => \A j \in Jobs \ (run.unread \cup verify.unread) :
                                         verify.tree[j] = run.tree[j]
                          /\ (\A s \in Sides : "recipe" \notin disturbed[s]) => verify.wf = run.wf
          BY DEF VerifiedMeans, run, verify
      <2> DEFINE want == Subjects(run.tree, run.unread)
                 got == Subjects(verify.tree, verify.unread)
      <2>1. /\ manifest # NoManifest /\ verify.wf # NoFile /\ ~AnyFailed("verify")
            /\ DOMAIN want \subseteq DOMAIN got
            /\ strict => /\ DOMAIN got \subseteq DOMAIN want
                         /\ \A n \in DOMAIN want : want[n] = got[n]
            BY ExitZero
      <2>2. VerifyTypes
            BY DEF IInv
      <2>3. \A j \in Jobs : /\ DOMAIN run.tree[j] \subseteq Files
                            /\ DOMAIN verify.tree[j] \subseteq Files
            BY <2>2, TreeFiles, TwoSides DEF run, verify
      <2>4. ASSUME NEW j \in Jobs \ run.unread
            PROVE  DOMAIN run.tree[j] \subseteq DOMAIN verify.tree[j]
            <3> SUFFICES ASSUME NEW f \in DOMAIN run.tree[j] PROVE f \in DOMAIN verify.tree[j]
                OBVIOUS
            <3>1. <<j, f>> \in DOMAIN want
                  BY <2>3, SubjectsAre
            <3>2. <<j, f>> \in DOMAIN got
                  BY <2>1, <3>1
            <3> QED
                BY <3>2, SubjectsAre
      <2>5. ASSUME strict, NEW j \in Jobs \ (run.unread \cup verify.unread)
            PROVE  verify.tree[j] = run.tree[j]
            <3>1. ASSUME NEW f \in DOMAIN verify.tree[j]
                  PROVE  f \in DOMAIN run.tree[j] /\ verify.tree[j][f] = run.tree[j][f]
                  <4>1. <<j, f>> \in DOMAIN got /\ got[<<j, f>>] = verify.tree[j][f]
                        BY <2>3, SubjectsAre
                  <4>2. <<j, f>> \in DOMAIN want /\ want[<<j, f>>] = got[<<j, f>>]
                        BY <2>1, <2>5, <4>1
                  <4> QED
                      BY <4>1, <4>2, SubjectsAre
            <3>2. DOMAIN run.tree[j] = DOMAIN verify.tree[j]
                  BY <2>4, <3>1
            <3>3. /\ run.tree[j] = [f \in DOMAIN run.tree[j] |-> run.tree[j][f]]
                  /\ verify.tree[j] = [f \in DOMAIN verify.tree[j] |-> verify.tree[j][f]]
                  BY <2>2, TreeFiles, TwoSides DEF run, verify
            <3> QED
                BY <3>1, <3>2, <3>3
      <2>6. ASSUME \A s \in Sides : "recipe" \notin disturbed[s]
            PROVE  verify.wf = run.wf
            BY <2>1, <2>6, TwoSides DEF IInv, RecipeInv, ManifestInv
      <2> QED
          BY <2>1, <2>4, <2>5, <2>6
<1> QED
    BY <1>1, Inductive, PTL

\* A replay that could read every tree is measured by the artifacts themselves.
LEMMA ComparedWith ==
  ASSUME IInv, Replayed, Artifacts("run") # <<>>
  PROVE  /\ manifest # NoManifest /\ run.wf # NoFile /\ verify.wf # NoFile
         /\ \A j \in Jobs : run.stage[j] \in Settled /\ verify.stage[j] \in Settled
         /\ verify.exit = IF Verified(Artifacts("run"), Artifacts("verify"),
                                      AnyFailed("verify"), strict) THEN 0 ELSE 1
<1>1. /\ verify.exit \in {0, 1} /\ verify.wf # NoFile /\ run.unread = {} /\ verify.unread = {}
      BY DEF Replayed, run, verify
<1>2. /\ \A j \in Jobs : verify.stage[j] \in Settled
      /\ verify.exit = IF Verified(manifest.subjects, Subjects(verify.tree, verify.unread),
                                   AnyFailed("verify"), strict) THEN 0 ELSE 1
      BY <1>1 DEF IInv, OutcomeInv
<1>3. manifest # NoManifest /\ run.wf # NoFile
      BY <1>1, TwoSides DEF IInv, OrderInv, verify
<1>4. /\ manifest.subjects = Attested(manifest.recipe, Subjects(run.tree, run.unread))
      /\ \A j \in Jobs : run.stage[j] \in Settled
      BY <1>3 DEF IInv, ManifestInv
<1>5. /\ Subjects(run.tree, run.unread) = Artifacts("run")
      /\ Subjects(verify.tree, verify.unread) = Artifacts("verify")
      BY <1>1 DEF Artifacts, run, verify
<1>6. manifest.subjects = Artifacts("run")
      BY <1>4, <1>5 DEF Attested
<1> QED
    BY <1>1, <1>2, <1>3, <1>4, <1>5, <1>6

\* Exit 1 after a replay has a cause its report shows: nothing but a failed
\* job or a difference in the artifacts makes a verification fail (Verify's
\* Missing, Mismatched and Extra against the trees themselves).
THEOREM ExitOneHasCause == Spec => []FailureHasCause
<1>1. IInv => FailureHasCause
      <2> SUFFICES ASSUME IInv, Replayed, Artifacts("run") # <<>>, verify.exit = 1,
                          ~AnyFailed("verify"),
                          DOMAIN Artifacts("run") \subseteq DOMAIN Artifacts("verify"),
                          strict => Artifacts("run") = Artifacts("verify")
                   PROVE  FALSE
          BY DEF FailureHasCause, verify
      <2>1. ~Verified(Artifacts("run"), Artifacts("verify"), AnyFailed("verify"), strict)
            BY ComparedWith
      <2> QED
          BY <2>1 DEF Verified, Missing, Mismatched, Extra
<1> QED
    BY <1>1, Inductive, PTL

\* A job of a reproducible run comes to the same end in the replay, and to the
\* same tree: what it is made from is recorded, and used again.
LEMMA SameTree ==
  ASSUME IInv, Reproducible({}), Artifacts("run") # <<>>, NEW j \in Jobs
  PROVE  verify.stage[j] \in {"success", "skipped"} /\ verify.tree[j] = run.tree[j]
<1> DEFINE w == run.wf
           i == w.image[j]
           Key(x) == IF w.uses[j] = NoKey THEN NoCommit ELSE x.keys[w.uses[j]]
           Tree(x) == [f \in w.files[j] |-> [image |-> x.from[j], key |-> Key(x),
                                             epoch |-> 0, clock |-> 0]]
<1>1. /\ Replayed /\ run.exit = 0 /\ disturbed["run"] = {} /\ "recipe" \notin disturbed["verify"]
      /\ w.flaky = {} /\ w.reads[j] \subseteq {}
      /\ run.from[j] # NoDigest => manifest.images[i] # NoDigest
      BY DEF Reproducible, run
<1>2. /\ manifest # NoManifest /\ w # NoFile /\ verify.wf # NoFile
      /\ run.stage[j] \in Settled /\ verify.stage[j] \in Settled
      BY <1>1, ComparedWith
<1>3. verify.wf = w
      BY <1>1, <1>2 DEF IInv, RecipeInv, ManifestInv
<1>4. w \in Workflows
      BY <1>2, TwoSides DEF IInv, VerifyTypes, Executions, run
<1>5. JobInv(run, j) /\ JobInv(verify, j)
      BY TwoSides DEF IInv, JobsInv, run, verify
<1>6. SameEnds(j)
      BY <1>1, <1>2, <1>3 DEF IInv, AgreeInv
<1>7. run.stage[j] # "failed" /\ verify.stage[j] # "failed"
      BY <1>1, <1>2, <1>3, <1>5 DEF JobInv
<1>8. /\ verify.stage[j] \in {"success", "skipped"}
      /\ verify.stage[j] = run.stage[j]
      BY <1>2, <1>6, <1>7 DEF SameEnds, Settled, Ran
<1>9. CASE run.stage[j] = "skipped"
      BY <1>5, <1>8, <1>9, SMTT(30) DEF JobInv, Ran
<1>10. CASE run.stage[j] = "success"
       <2>1. run.tree[j] = Tree(run) /\ verify.tree[j] = Tree(verify)
             BY <1>1, <1>2, <1>3, <1>5, <1>8, <1>10 DEF JobInv
       <2>2. i \in Images /\ w.uses[j] \in Keys \cup {NoKey}
             BY <1>4, WorkflowGives
       <2>3. run.from[j] # NoDigest
             BY <1>2, <1>10 DEF IInv, ImageInv, Ran
       <2>4. manifest.images = run.digest /\ manifest.keys = run.keys
             BY <1>2 DEF IInv, ManifestInv
       <2>5. run.digest[i] # NoDigest
             BY <1>1, <2>3, <2>4
       <2>6. run.from[j] = run.digest[i]
             BY <1>1, <1>2, <2>3, <2>5 DEF IInv, ImageInv
       <2>7. verify.pin[i] = run.digest[i]
             BY <1>2, <2>4 DEF IInv, PinInv
       <2>8. verify.from[j] = run.from[j]
             BY <1>2, <1>3, <1>5, <1>8, <1>10, <2>5, <2>6, <2>7 DEF JobInv, Ran
       <2>9. ASSUME w.uses[j] # NoKey
             PROVE  verify.keys[w.uses[j]] = run.keys[w.uses[j]]
             <3>1. w.uses[j] \in KeysOf(w)
                   BY <2>9 DEF KeysOf
             <3>2. run.keys[w.uses[j]] # NoCommit
                   BY <1>2, <3>1 DEF IInv, PinInv
             <3> QED
                 BY <1>2, <1>3, <2>4, <3>1, <3>2 DEF IInv, PinInv
       <2>10. Key(verify) = Key(run)
              BY <2>9
       <2>11. Tree(verify) = Tree(run)
              BY <2>8, <2>10
       <2> QED
           BY <1>8, <1>10, <2>1, <2>11
<1> QED
    BY <1>8, <1>9, <1>10

\* README.md:280-282, 544-545: a run whose steps depend on nothing but their
\* image and their key verifies bit for bit, whatever tags moved, images were
\* pulled or removed and time passed since: emitProvenance records, and Verify
\* pins, all that its artifacts depend on.
THEOREM PinsSuffice == Spec => []StrictReproduces
<1>1. IInv => StrictReproduces
      <2> SUFFICES ASSUME IInv, Reproducible({}), Artifacts("run") # <<>>
                   PROVE  verify.exit = 0
          BY DEF StrictReproduces, verify
      <2>1. /\ \A j \in Jobs : verify.stage[j] \in {"success", "skipped"}
            /\ \A j \in Jobs : run.tree[j] = verify.tree[j]
            BY SameTree
      <2>2. Artifacts("run") = Artifacts("verify")
            BY <2>1, TreesGive DEF Artifacts, run, verify
      <2>3. ~AnyFailed("verify")
            BY <2>1 DEF AnyFailed, verify
      <2>4. Verified(Artifacts("run"), Artifacts("verify"), AnyFailed("verify"), strict)
            BY <2>2, <2>3 DEF Verified, Missing, Mismatched, Extra
      <2>5. Replayed
            BY DEF Reproducible
      <2> QED
          BY <2>4, <2>5, ComparedWith
<1> QED
    BY <1>1, Inductive, PTL

=============================================================================
