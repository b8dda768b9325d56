------------------------------- MODULE Verify -------------------------------
(***************************************************************************)
(* A run's provenance and `latchet verify`: what emitProvenance records of *)
(* a run, and the replay that Verify makes of it later, on a host where    *)
(* tags, images, the workflow file and the clock may have moved on.  Both  *)
(* execute jobs through runOne, so a job's actions are the same for the    *)
(* two sides.  The scheduler is used through its contract: a job is taken  *)
(* up once its needs are settled and skipped unless all succeeded.         *)
(*                                                                         *)
(* A file's content is what it was made from; its SHA256 is itself.        *)
(***************************************************************************)
EXTENDS JobGraph, Functions

CONSTANTS
  Jobs, Files,
  Images, Digests, NoDigest,  \* image names, what they resolve to; NoDigest: nothing
  Keys, Commits, NoCommit,    \* tag-pinned uses: references, what they resolve to
  NoKey,                      \* a job without a uses: step
  Workflows,                  \* the recipes: needs, image, uses, files, reads, off, flaky
  NoFile, NoManifest,
  WorkflowName,               \* the subject name of the workflow file
  Heads, NoHead,              \* commit times of HEAD; NoHead: not in a git repository
  MaxMoves                    \* bound: edits, moved tags, image pulls, clock ticks

ASSUME VerifyAssumption ==
  /\ NoDigest \notin Digests /\ NoCommit \notin Commits /\ NoKey \notin Keys
  /\ NoFile \notin Workflows /\ Heads \subseteq Nat
  /\ WorkflowName \notin Jobs \X Files    \* a base name, without a slash
  /\ \A w \in Workflows :
       /\ w.needs \in [Jobs -> Seq(Jobs)] /\ Acyclic(w.needs)
       /\ w.image \in [Jobs -> Images] /\ w.uses \in [Jobs -> Keys \cup {NoKey}]
       /\ w.files \in [Jobs -> SUBSET Files]
       /\ w.reads \in [Jobs -> SUBSET {"epoch", "clock"}]   \* what contents depend on
       /\ w.off \subseteq Jobs      \* `if:` is false
       /\ w.flaky \subseteq Jobs    \* outcome and files vary from run to run

Sides == {"run", "verify"}

VARIABLES
  file,       \* the workflow file
  registry,   \* image name -> digest, at the registry
  local,      \* image name -> digest, in the host's image store
  tags,       \* uses: reference -> commit, at the key's repository
  head, now,  \* HEAD's commit time, the clock
  side,       \* the run and its verification
  manifest,   \* provenance.json: recipe, subjects, images, keys, signed
  strict,     \* the option of verify
  moves,      \* history: how much the world moved so far
  disturbed   \* history: what moved while a side was at work

world == <<file, registry, local, tags, head, now>>
vars == <<world, side, manifest, strict, moves, disturbed>>

Unused ==
  [pc |-> "idle", wf |-> NoFile,
   keys |-> [k \in Keys |-> NoCommit],     \* the commit each key is fetched at
   pin |-> [i \in Images |-> NoDigest],    \* the digest an image name is replaced by
   ensured |-> {},                         \* imageCache: the names taken care of ...
   digest |-> [i \in Images |-> NoDigest], \* ... and what they resolved to
   epoch |-> 0,                            \* SOURCE_DATE_EPOCH
   stage |-> [j \in Jobs |-> "waiting"],
   tree |-> [j \in Jobs |-> <<>>],         \* file -> content
   from |-> [j \in Jobs |-> NoDigest],     \* history: what the container was made from
   unread |-> {},                          \* history: the trees that could not be hashed
   exit |-> -1]

Init ==
  /\ file \in Workflows
  /\ registry \in [Images -> Digests]
  /\ local \in [Images -> Digests \cup {NoDigest}]
  /\ tags \in [Keys -> Commits]
  /\ head \in Heads \cup {NoHead}
  /\ now = 1
  /\ side = [s \in Sides |-> Unused]
  /\ manifest = NoManifest
  /\ strict = FALSE
  /\ moves = 0
  /\ disturbed = [s \in Sides |-> {}]

Become(s, new) == side' = [side EXCEPT ![s] = new]
Exit(s, code) == Become(s, [side[s] EXCEPT !.pc = "done", !.exit = code])
Is(s, pc) == side[s].pc = pc

----------------------------------------------------------------------------
(* Jobs, of either side. *)

Settled == {"success", "failed", "skipped"}

Ready(s, j) ==
  /\ Is(s, "jobs") /\ side[s].stage[j] = "waiting"
  /\ \A n \in NeedSet(side[s].wf.needs, j) : side[s].stage[n] \in Settled

Runs(s, j) == /\ j \notin side[s].wf.off
              /\ \A n \in NeedSet(side[s].wf.needs, j) : side[s].stage[n] = "success"

SkipJob(s, j) ==
  /\ Ready(s, j) /\ ~Runs(s, j)
  /\ Become(s, [side[s] EXCEPT !.stage[j] = "skipped"])
  /\ UNCHANGED <<world, manifest, strict, moves, disturbed>>

\* What the registry says now; the name itself (seeded faults).
RegistryDigest(stored, i) == registry[i]
ImageName(stored, i) == i

\* ImageDigest: of the image in the local store.
Digest(stored, i) == stored[i]

\* images.Ensure: the first job that wants an image pulls it unless it is in
\* the local store, and records its digest if the store knows one.  A pinned
\* name is in the store or can be pulled.
Ensure(s, j) ==
  LET i == side[s].wf.image[j]
  IN  /\ Ready(s, j) /\ Runs(s, j)
      /\ IF i \in side[s].ensured \/ side[s].pin[i] # NoDigest
         THEN /\ Become(s, [side[s] EXCEPT !.stage[j] = "ensured", !.ensured = @ \cup {i}])
              /\ UNCHANGED local
         ELSE /\ local' = IF local[i] = NoDigest THEN [local EXCEPT ![i] = registry[i]] ELSE local
              /\ \E d \in {Digest(local', i), NoDigest} :
                   Become(s, [side[s] EXCEPT !.stage[j] = "ensured", !.ensured = @ \cup {i},
                                             !.digest[i] = d])
      /\ UNCHANGED <<file, registry, tags, head, now, manifest, strict, moves, disturbed>>

Base(s, j) == LET i == side[s].wf.image[j]
              IN  IF side[s].pin[i] = NoDigest THEN local[i] ELSE side[s].pin[i]

Content(s, j) ==
  LET w == side[s].wf
  IN  [image |-> Base(s, j),
       key   |-> IF w.uses[j] = NoKey THEN NoCommit ELSE side[s].keys[w.uses[j]],
       epoch |-> IF "epoch" \in w.reads[j] THEN side[s].epoch ELSE 0,
       clock |-> IF "clock" \in w.reads[j] THEN now ELSE 0]

\* The container is created from the image's name, then the steps run.
Execute(s, j) ==
  LET w == side[s].wf
      End(status, fs) == [side[s] EXCEPT !.stage[j] = status, !.from[j] = Base(s, j),
                                         !.tree[j] = [f \in fs |-> Content(s, j)]]
  IN  /\ Is(s, "jobs") /\ side[s].stage[j] = "ensured"
      /\ IF j \in w.flaky
         THEN \E status \in {"success", "failed"}, fs \in SUBSET w.files[j] : Become(s, End(status, fs))
         ELSE Become(s, End("success", w.files[j]))
      /\ UNCHANGED <<world, manifest, strict, moves, disturbed>>

Over(s) == Is(s, "jobs") /\ \A j \in Jobs : side[s].stage[j] \in Settled

\* A runtime or workspace operation fails: the run is aborted, nothing is
\* attested and nothing is compared.
Aborts(s) ==
  /\ Is(s, "jobs") /\ ~Over(s) /\ Exit(s, 3)
  /\ UNCHANGED <<world, manifest, strict, moves, disturbed>>

AnyFailed(s) == \E j \in Jobs : side[s].stage[j] = "failed"

\* The jobs that left files.
Left(s) == {j \in Jobs : side[s].tree[j] # <<>>}

\* HashTree over the job directories: "<job>/<file>" -> content.  A tree that
\* cannot be read as a whole yields nothing.
Subjects(trees, unread) ==
  [n \in {m \in (Jobs \ unread) \X Files : m[2] \in DOMAIN trees[m[1]]} |-> trees[n[1]][n[2]]]

----------------------------------------------------------------------------
(* The run: Run and emitProvenance. *)

KeysOf(w) == {w.uses[j] : j \in Jobs} \ {NoKey}

\* config.Load, keys.ResolveAll (a tag is resolved by every run), ResolveGit.
StartRun ==
  /\ Is("run", "idle") /\ file # NoFile
  /\ \/ Become("run", [Unused EXCEPT !.pc = "jobs", !.wf = file,
          !.keys = [k \in Keys |-> IF k \in KeysOf(file) THEN tags[k] ELSE NoCommit],
          !.epoch = IF head = NoHead THEN now ELSE head])
     \/ Exit("run", 3)
  /\ UNCHANGED <<world, manifest, strict, moves, disturbed>>

\* Build: a run without artifacts attests the workflow file.
Attested(w, subjects) ==
  IF subjects = <<>> THEN [n \in {WorkflowName} |-> w] ELSE subjects

\* emitProvenance reads the workflow file once more, hashes the trees, and
\* signs what it wrote if it can; every failure only means less of it.
Attest ==
  /\ Over("run")
  /\ \E unread \in SUBSET Left("run"), signed \in BOOLEAN :
       /\ Become("run", [side["run"] EXCEPT !.pc = "done", !.unread = unread,
                           !.exit = IF AnyFailed("run") THEN 1 ELSE 0])
       /\ \/ manifest' = NoManifest
          \/ /\ file # NoFile
             /\ manifest' = [recipe |-> file, signed |-> signed,
                             subjects |-> Attested(file, Subjects(side["run"].tree, unread)),
                             images |-> side["run"].digest, keys |-> side["run"].keys]
  /\ UNCHANGED <<world, strict, moves, disturbed>>

----------------------------------------------------------------------------
(* The verification: Verify. *)

\* Load, and the signature check when a public key is given: cosign may reject
\* a bundle; without a bundle or without cosign the check is skipped.
StartVerify ==
  /\ Is("verify", "idle") /\ manifest # NoManifest
  /\ strict' \in BOOLEAN
  /\ \/ manifest.signed /\ Exit("verify", 1)
     \/ Become("verify", [Unused EXCEPT !.pc = "recipe"])
  /\ UNCHANGED <<world, manifest, moves, disturbed>>

\* ReadFile and the comparison of its hash.
CheckRecipe ==
  /\ Is("verify", "recipe")
  /\ IF file = NoFile THEN Exit("verify", 2)
     ELSE IF file # manifest.recipe THEN Exit("verify", 1)
     ELSE Become("verify", [side["verify"] EXCEPT !.pc = "load"])
  /\ UNCHANGED <<world, manifest, strict, moves, disturbed>>

\* As the workflow file names them (seeded faults).
KeysAsIs(w) == [k \in Keys |-> IF k \in KeysOf(w) THEN tags[k] ELSE NoCommit]
ImagesAsIs == [i \in Images |-> NoDigest]

\* A key is fetched at the commit the manifest records, if it does, and an
\* image replaced by its digest.
PinnedKeys(w) ==
  [k \in Keys |-> IF k \notin KeysOf(w) THEN NoCommit
                  ELSE IF manifest.keys[k] # NoCommit THEN manifest.keys[k] ELSE tags[k]]

PinnedImages == manifest.images

\* config.Load reads the file again; a key may not be fetchable.  CommitEpoch
\* is the time of the verification.
LoadRecipe ==
  /\ Is("verify", "load")
  /\ IF file = NoFile THEN Exit("verify", 2)
     ELSE \/ Exit("verify", 3)
          \/ Become("verify", [side["verify"] EXCEPT !.pc = "jobs", !.wf = file,
               !.keys = PinnedKeys(file), !.pin = PinnedImages, !.epoch = now])
  /\ UNCHANGED <<world, manifest, strict, moves, disturbed>>

Missing(want, got) == DOMAIN want \ DOMAIN got
Extra(want, got) == DOMAIN got \ DOMAIN want
Mismatched(want, got) == {n \in DOMAIN want \cap DOMAIN got : want[n] # got[n]}

\* Only the recorded names are looked at (seeded fault).
VerifiedRecorded(want, got, failed, bitwise) ==
  ~failed /\ Missing(want, got) = {} /\ (bitwise => Mismatched(want, got) = {})

\* Lax and strict are alike (seeded fault).
VerifiedAlways(want, got, failed, bitwise) == ~failed /\ want = got

Verified(want, got, failed, bitwise) ==
  /\ ~failed /\ Missing(want, got) = {}
  /\ bitwise => Mismatched(want, got) = {} /\ Extra(want, got) = {}

Compare ==
  /\ Over("verify")
  /\ \E unread \in SUBSET Left("verify") :
       LET got == Subjects(side["verify"].tree, unread)
       IN  Become("verify", [side["verify"] EXCEPT !.pc = "done", !.unread = unread,
             !.exit = IF Verified(manifest.subjects, got, AnyFailed("verify"), strict)
                      THEN 0 ELSE 1])
  /\ UNCHANGED <<world, manifest, strict, moves, disturbed>>

----------------------------------------------------------------------------
(* The world. *)

AtWork(s) == side[s].pc \notin {"idle", "done"}
Disturbs(what) ==
  disturbed' = [s \in Sides |-> disturbed[s] \cup IF AtWork(s) THEN {what} ELSE {}]

\* Nobody looks at the world once the verification is over.
Moves == moves < MaxMoves /\ ~Is("verify", "done") /\ moves' = moves + 1 /\ UNCHANGED <<head, side, manifest, strict>>

EditFile ==
  /\ Moves /\ file' \in (Workflows \cup {NoFile}) \ {file}
  /\ Disturbs("recipe") /\ UNCHANGED <<registry, local, tags, now>>

MoveImage(i) ==
  /\ Moves /\ \E d \in Digests \ {registry[i]} : registry' = [registry EXCEPT ![i] = d]
  /\ UNCHANGED <<file, local, tags, now, disturbed>>

\* Somebody else on the host pulls an image, or, between runs, removes it.
PullLocally(i) ==
  /\ Moves /\ local[i] # registry[i] /\ local' = [local EXCEPT ![i] = registry[i]]
  /\ Disturbs("image") /\ UNCHANGED <<file, registry, tags, now>>

Prune(i) ==
  /\ Moves /\ local[i] # NoDigest /\ local' = [local EXCEPT ![i] = NoDigest]
  /\ \A s \in Sides : ~AtWork(s)
  /\ UNCHANGED <<file, registry, tags, now, disturbed>>

MoveTag(k) ==
  /\ Moves /\ \E c \in Commits \ {tags[k]} : tags' = [tags EXCEPT ![k] = c]
  /\ UNCHANGED <<file, registry, local, now, disturbed>>

Tick == Moves /\ now' = now + 1 /\ UNCHANGED <<file, registry, local, tags, disturbed>>

Next ==
  \/ StartRun \/ Attest \/ StartVerify \/ CheckRecipe \/ LoadRecipe \/ Compare
  \/ \E s \in Sides : Aborts(s) \/ \E j \in Jobs : SkipJob(s, j) \/ Ensure(s, j) \/ Execute(s, j)
  \/ EditFile \/ Tick \/ \E i \in Images : MoveImage(i) \/ PullLocally(i) \/ Prune(i)
  \/ \E k \in Keys : MoveTag(k)

Spec == Init /\ [][Next]_vars

----------------------------------------------------------------------------
(* Properties. *)

\* README.md:215-220: the manifest names the recipe the run executed and the
\* image its containers came from, unless the file was edited or the image
\* pulled by somebody else while the run was at work.
ManifestFaithful ==
  manifest # NoManifest =>
    LET r == side["run"]
    IN  /\ "recipe" \notin disturbed["run"] => manifest.recipe = r.wf
        /\ "image" \notin disturbed["run"] =>
             \A j \in Jobs : LET d == manifest.images[r.wf.image[j]]
                             IN  r.from[j] # NoDigest /\ d # NoDigest => r.from[j] = d

Artifacts(s) == Subjects(side[s].tree, {})

\* Exit 0 says something about the original run, not only about the manifest:
\* the replay left every file the run left (in a tree that could be hashed),
\* with --strict the same trees, and from the same recipe.
VerifiedMeans ==
  side["verify"].exit = 0 =>
    LET r == side["run"]
        v == side["verify"]
    IN  /\ ~AnyFailed("verify")
        /\ \A j \in Jobs \ r.unread : DOMAIN r.tree[j] \subseteq DOMAIN v.tree[j]
        /\ strict => \A j \in Jobs \ (r.unread \cup v.unread) : v.tree[j] = r.tree[j]
        /\ (\A s \in Sides : "recipe" \notin disturbed[s]) => v.wf = r.wf

\* The replay took place and could read every tree, as the run could.
Replayed ==
  /\ side["verify"].exit \in {0, 1} /\ side["verify"].wf # NoFile
  /\ side["run"].unread = {} /\ side["verify"].unread = {}

\* Exit 1 after a replay has a cause the report shows: a job failed, a file of
\* the run was not reproduced, or, with --strict, the artifacts differ.
FailureHasCause ==
  Replayed /\ Artifacts("run") # <<>> /\ side["verify"].exit = 1 =>
    \/ AnyFailed("verify")
    \/ ~(DOMAIN Artifacts("run") \subseteq DOMAIN Artifacts("verify"))
    \/ strict /\ Artifacts("run") # Artifacts("verify")

\* A run that succeeded, whose images had digests, whose steps depend on
\* nothing but their image, their key and `inputs`, verified with the recipe it
\* was run from.
Reproducible(inputs) ==
  LET r == side["run"]
  IN  /\ Replayed /\ r.exit = 0
      /\ disturbed["run"] = {} /\ "recipe" \notin disturbed["verify"]
      /\ r.wf.flaky = {} /\ \A j \in Jobs : r.wf.reads[j] \subseteq inputs
      /\ \A j \in Jobs : r.from[j] # NoDigest => manifest.images[r.wf.image[j]] # NoDigest

\* README.md:544-545 and 280-282: such a run verifies, bit for bit, although
\* image tags and key tags have moved, the host has pulled or removed images
\* and time has passed since.
StrictReproduces ==
  Reproducible({}) /\ Artifacts("run") # <<>> => side["verify"].exit = 0

\* README.md:323: SOURCE_DATE_EPOCH is "HEAD's commit time ... stable across
\* re-runs of the same commit", so a workflow that stamps its artifacts with it
\* verifies as well.
DeterministicReproduces ==
  Reproducible({"epoch"}) /\ head # NoHead /\ Artifacts("run") # <<>> =>
    side["verify"].exit = 0

\* README.md:213-214: "A run with no file artifacts attests the workflow file
\* itself", whose hash is checked first: so such a run verifies as well.
EffectOnlyVerifies ==
  Reproducible({}) /\ Artifacts("run") = <<>> => side["verify"].exit = 0
=============================================================================
