-------------------------------- MODULE Host --------------------------------
(***************************************************************************)
(* The latchet processes of one host and the files they share: the key     *)
(* cache (KeyCache), and the log directory with its `latest` link          *)
(* (internal/logstore).  A process resolves its workflow's keys, makes its *)
(* log directory, moves the link, streams the output of a job through the  *)
(* mask (Masking) into the log, and ends; it may be killed anywhere.       *)
(***************************************************************************)
EXTENDS KeyCache, Masking

CONSTANTS
  Symbols,  \* what outputs and secrets are written in
  Scenes,   \* where a behaviour starts, in families; see HostAssumption
  NoRun,    \* a process that is not started
  NoLink

ASSUME HostAssumption ==
  /\ NoLink \notin Procs
  /\ \A family \in Scenes : \A s \in family :
       /\ s.tags \in [Names -> Objects \cup {NoObject}]
       /\ s.branches \in [Names -> Commits \cup {NoObject}]
       /\ s.moves \in Nat                         \* bound: pushes to the repository
       /\ \A p \in Procs : s.run[p] # NoRun =>
            /\ s.run[p].uses \in Seq([kind : {"malformed", "sha", "name"},
                                      name : Names \cup Objects \cup {NoObject}])
            /\ \A i \in DOMAIN s.run[p].uses :
                 s.run[p].uses[i].kind = "name" => s.run[p].uses[i].name \in Names
            /\ s.run[p].output \in Seq(Symbols)   \* what its job may write
            /\ IsFiniteSet(s.run[p].secrets)      \* and must not show
            /\ s.run[p].secrets \subseteq Seq(Symbols)

VARIABLES
  scene,    \* never written
  stage,    \* where each process is
  dirs,     \* the log directories, named after their runs
  latest,   \* the run the link names
  writer,   \* each process's mask.writer, once its job runs
  moves,    \* history: pushes so far
  before,   \* history: the runs whose directory was ready when each process began its own
  ignored   \* history: <<process, operation>> whose error logstore.New drops

logs == <<dirs, latest, before, ignored>>
vars == <<scene, stage, logs, writer, moves, cacheVars>>

UsesOf(s) == [p \in Procs |-> IF s.run[p] = NoRun THEN <<>> ELSE s.run[p].uses]
NoWriter == Writer(<<>>, <<>>)

Init ==
  /\ \E family \in Scenes : scene \in family
  /\ tags = scene.tags /\ branches = scene.branches
  /\ CacheInit(UsesOf(scene))
  /\ stage = [p \in Procs |-> IF scene.run[p] = NoRun THEN "absent" ELSE "keys"]
  /\ dirs = {} /\ latest = NoLink
  /\ before = [p \in Procs |-> {}]
  /\ ignored = {}
  /\ writer = [p \in Procs |-> NoWriter]
  /\ moves = 0

In(p, s) == stage[p] = s
Reach(p, s) == stage' = [stage EXCEPT ![p] = s]

\* loadAndValidate's call of ResolveAll.
Keys(p) ==
  /\ In(p, "keys")
  /\ CacheStep(p)
  /\ Reach(p, CASE call'[p].pc # "returned" -> "keys"
                [] call'[p].pc = "returned" /\ call'[p].exit = 0 -> "mkdir"
                [] OTHER -> "ended")
  /\ UNCHANGED <<scene, logs, writer, moves>>

\* The runs whose logstore.New is over.
Ready == {p \in dirs : stage[p] \in {"logged", "jobs", "ended"}}

\* logstore.New: the directory, or an error.
MakeDir(p) ==
  /\ In(p, "mkdir")
  /\ \/ Reach(p, "unlink") /\ dirs' = dirs \cup {p} /\ before' = [before EXCEPT ![p] = Ready]
     \/ Reach(p, "ended") /\ UNCHANGED <<dirs, before>>
  /\ UNCHANGED <<scene, latest, ignored, writer, moves, cacheVars>>

\* The link is not removed (seeded fault).
StillLinked == latest

Unlinked == NoLink

Ignores(p, operation) == ignored' = ignored \cup {<<p, operation>>}

\* os.Remove; that there is nothing to remove, or that it fails, is ignored.
Unlink(p) ==
  /\ In(p, "unlink")
  /\ Reach(p, "link")
  /\ \/ latest' = Unlinked /\ UNCHANGED ignored
     \/ latest # NoLink /\ Ignores(p, "unlink") /\ UNCHANGED latest
  /\ UNCHANGED <<scene, dirs, before, writer, moves, cacheVars>>

\* os.Symlink; that there is a link, or that it fails, is ignored.
Link(p) ==
  /\ In(p, "link")
  /\ Reach(p, "logged")
  /\ \/ latest = NoLink /\ latest' = p /\ UNCHANGED ignored
     \/ latest = NoLink /\ Ignores(p, "link") /\ UNCHANGED latest
     \/ latest # NoLink /\ UNCHANGED <<latest, ignored>>
  /\ UNCHANGED <<scene, dirs, before, writer, moves, cacheVars>>

\* runOne's call of mask.New.
StartJob(p) ==
  /\ In(p, "logged")
  /\ Reach(p, "jobs")
  /\ \E secrets \in LongestFirst(scene.run[p].secrets) :
       writer' = [writer EXCEPT ![p] = Writer(scene.run[p].output, secrets)]
  /\ UNCHANGED <<scene, logs, moves, cacheVars>>

\* The runtime hands over what the step wrote, cut anywhere.
Output(p) ==
  /\ In(p, "jobs")
  /\ \E n \in 1..Len(writer[p].output) - writer[p].fed :
       \E w \in Written(writer[p], n) : writer' = [writer EXCEPT ![p] = w]
  /\ UNCHANGED <<scene, stage, logs, moves, cacheVars>>

\* The job is over, at whatever point of its output.
EndJob(p) ==
  /\ In(p, "jobs")
  /\ Reach(p, "ended")
  /\ \E w \in Closed(writer[p]) : writer' = [writer EXCEPT ![p] = w]
  /\ UNCHANGED <<scene, logs, moves, cacheVars>>

KillRun(p) ==
  /\ stage[p] \notin {"absent", "ended"}
  /\ Kill(p)
  /\ UNCHANGED <<scene, stage, logs, writer, moves>>

Move ==
  /\ moves < scene.moves
  /\ moves' = moves + 1
  /\ Push
  /\ UNCHANGED <<scene, stage, logs, writer>>

Step(p) ==
  /\ p \notin killed
  /\ \/ Keys(p) \/ MakeDir(p) \/ Unlink(p) \/ Link(p) \/ StartJob(p) \/ Output(p)
     \/ EndJob(p)

Next == Move \/ \E p \in Procs : Step(p) \/ KillRun(p)

Spec == Init /\ [][Next]_vars

----------------------------------------------------------------------------
(* Properties. *)

\* README.md:189 ("A `latest` symlink ... points at the most recent run") for
\* runs that start at once and may be killed: the link never dangles; it names a
\* run that was ready before another one, which is ready, too, began to make its
\* own directory only if that one's own os.Remove failed; and once a run is ready
\* the link is missing only while a process is between its removal and its
\* making, or because one was killed there, or because a run's os.Symlink failed,
\* and then only until a run that begins after that one is ready.
LatestTells ==
  /\ latest # NoLink =>
       /\ latest \in dirs
       /\ \A p \in Ready : latest \in before[p] => <<p, "unlink">> \in ignored
  /\ latest = NoLink /\ Ready # {} =>
       \E p \in Procs :
         \/ In(p, "link")
         \/ <<p, "link">> \in ignored /\ \A q \in Ready : p \notin before[q]

\* No occurrence of a secret in what a job wrote reaches the log whole, wherever
\* the writes cut it, whatever write of the log failed, whenever the process
\* was killed, and however the secrets overlap.
NoSecretShown ==
  \A p \in Procs :
    \A s \in Range(writer[p].secrets) : \A i \in Occurrences(writer[p], s) :
      ~(i..i + Len(s) - 1 \subseteq Range(writer[p].shown))

\* Once the job is over the log holds what masking its whole output at once
\* would have left, wherever the writes cut it: every secret is replaced to
\* its last symbol, and nothing else is missing. It holds of secrets that
\* neither overlap nor were cut while one contains another: the shorter one,
\* complete, is then replaced before the longer one is (mask.go:82-86).
MaskedAsWhole ==
  \A p \in Procs : In(p, "ended") /\ Tame(writer[p]) /\ ~writer[p].lost =>
    writer[p].shown = Whole(writer[p])
=============================================================================
