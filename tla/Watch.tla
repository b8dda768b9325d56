------------------------------- MODULE Watch -------------------------------
(***************************************************************************)
(* internal/watch: the one-shot passes of `latchet watch`, which cron      *)
(* repeats, over the state file they share.  A pass loads the file, lists  *)
(* each entry's remote, decides, fires in sequence, and saves the file     *)
(* once at its end.  Between two steps the remote may move and the process *)
(* may die; a pass that outlasts the cron period overlaps the next.        *)
(*                                                                         *)
(* A ref stands for a URL with a ref name, a pattern for a URL with a glob *)
(* pattern.                                                                *)
(***************************************************************************)
EXTENDS Naturals, Sequences, FiniteSets, Functions

CONSTANTS
  Branches, Tags,  \* refs, numbered in the order fires are sorted
  Patterns,
  Matching,        \* pattern -> the tags path.Match accepts
  Shas, NoSha,     \* commits; NoSha: no such ref, or no such key
  Torn,            \* a state file that does not parse
  Passes,          \* the passes that may run at one time
  Scenes           \* what may happen in a behaviour, with its bounds

Refs == Branches \cup Tags

ASSUME RefsAssumption ==
  /\ Refs \subseteq Nat /\ Branches \cap Tags = {} /\ NoSha \notin Shas
  /\ Matching \in [Patterns -> SUBSET Tags]
  /\ IsFiniteSet(Passes)

ASSUME ScenesAssumption ==
  \A s \in Scenes :
    /\ \A c \in s.lists :     \* the watch lists a pass may find in latchet-ci.yml
         c \in Seq([branches : Seq(Branches), tags : Seq(Patterns)])
    /\ s.remotes \subseteq [Refs -> Shas \cup {NoSha}]   \* what the remote starts with
    /\ s.passes \subseteq Passes                         \* the passes cron starts
    /\ s.moves \in Nat        \* bound: pushes, tag moves and deletions
    /\ s.faults \in Nat       \* bound: kills and failed writes
    /\ s.overlaps \in Nat     \* bound: passes that start while another is at work

VARIABLES
  scene,     \* never written
  remote,    \* ref -> commit, on the server
  file,      \* state.json: the known commits and the marked patterns, or Torn
  pass,      \* each pass's local state
  arrivals,  \* history: how often the remote came to show a commit at a ref
  attempts,  \* history: how often fire was called for a ref and a commit
  faults,    \* history: kills and failed writes so far
  overlaps,  \* history: passes that started while another was at work
  moves      \* history: pushes, tag moves and deletions so far

bounded == <<scene, overlaps, faults, moves>>
vars == <<remote, file, pass, arrivals, attempts, bounded>>

Empty == [known |-> [r \in Refs |-> NoSha], marked |-> {}]

\* state: the map in memory; queue, listed: the fires left and their commits;
\* loaded, tried: history, what the pass read and what it called fire for.
Idle(exit) ==
  [pc |-> "idle", config |-> <<>>, entry |-> 1, state |-> Empty, loaded |-> Empty,
   queue |-> [r \in Refs |-> 0], listed |-> [r \in Refs |-> NoSha],
   failed |-> 0, tried |-> {}, exit |-> exit]

Init ==
  /\ scene \in Scenes
  /\ remote \in scene.remotes
  /\ file = Empty
  /\ pass = [p \in Passes |-> Idle("none")]
  /\ arrivals = [r \in Refs |-> [s \in Shas |-> IF remote[r] = s THEN 1 ELSE 0]]
  /\ attempts = [r \in Refs |-> [s \in Shas |-> 0]]
  /\ faults = 0 /\ overlaps = 0 /\ moves = 0

----------------------------------------------------------------------------
(* decide: what an entry fires and what is known afterwards. *)

Watched(e, r) ==
  \/ r \in Range(e.branches)
  \/ \E pat \in Range(e.tags) : r \in Matching[pat]

Moved(r, refs, state) == refs[r] \notin {NoSha, state.known[r]}

\* A pattern seen in an earlier pass does not baseline again; the second form
\* overlooks the marker (seeded fault).
AlwaysBaselines(pat, state) == FALSE
Baselined(pat, state) == pat \in state.marked

\* A branch fires on first sight (seeded fault).
FiresOnFirstSight(e, r, state) == {i \in DOMAIN e.branches : e.branches[i] = r}

\* The mentions of a branch and the patterns matching a tag that may fire it.
BranchMentions(e, r, state) ==
  {i \in DOMAIN e.branches : e.branches[i] = r /\ state.known[r] # NoSha}
TagMentions(e, r, state) ==
  {i \in DOMAIN e.tags : Baselined(e.tags[i], state) /\ r \in Matching[e.tags[i]]}

\* How often each ref is queued: every mention reads `state`, none reads what
\* another wrote to `next`.
Fires(e, refs, state) ==
  [r \in Refs |-> IF ~Moved(r, refs, state) THEN 0
                  ELSE Cardinality(BranchMentions(e, r, state))
                       + Cardinality(TagMentions(e, r, state))]

\* Only baselines are written (seeded fault).
KeepsOnlyBaselines(e, refs, state) ==
  [known |-> [r \in Refs |-> IF Watched(e, r) /\ state.known[r] = NoSha
                             THEN refs[r] ELSE state.known[r]],
   marked |-> state.marked \cup Range(e.tags)]

\* next: every listed ref the entry watches is known, fired or not.
NextState(e, refs, state) ==
  [known |-> [r \in Refs |-> IF Watched(e, r) /\ refs[r] # NoSha
                             THEN refs[r] ELSE state.known[r]],
   marked |-> state.marked \cup Range(e.tags)]

----------------------------------------------------------------------------
(* A pass. *)

At(p, pc) == pass[p].pc = pc
Become(p, new) == pass' = [pass EXCEPT ![p] = new]

\* Run up to the loop: no configuration, a state file that does not parse, or
\* a new pass.
StartPass(p) ==
  /\ At(p, "idle") /\ p \in scene.passes
  /\ overlaps' = overlaps + IF \E q \in Passes : ~At(q, "idle") THEN 1 ELSE 0
  /\ overlaps' <= scene.overlaps
  /\ \E c \in scene.lists :
       Become(p, IF c = <<>> THEN Idle("config")
                 ELSE IF file = Torn THEN Idle("infra")
                 ELSE [Idle("none") EXCEPT !.pc = "list", !.config = c,
                                           !.state = file, !.loaded = file])
  /\ UNCHANGED <<remote, file, arrivals, attempts, scene, faults, moves>>

\* The last entry is left out (seeded fault).
ListingButLast(p) == At(p, "list") /\ pass[p].entry < Len(pass[p].config)
Listing(p) == At(p, "list") /\ pass[p].entry <= Len(pass[p].config)

ListFails(p) ==
  /\ Listing(p)
  /\ Become(p, [pass[p] EXCEPT !.entry = @ + 1])
  /\ UNCHANGED <<remote, file, arrivals, attempts, bounded>>

\* `state = nextState`: before the fires, whatever becomes of them.
Decide(p) ==
  /\ Listing(p)
  /\ LET e == pass[p].config[pass[p].entry]
     IN  Become(p, [pass[p] EXCEPT !.pc = "fire", !.listed = remote,
                                   !.queue = Fires(e, remote, pass[p].state),
                                   !.state = NextState(e, remote, pass[p].state)])
  /\ UNCHANGED <<remote, file, arrivals, attempts, bounded>>

Queued(p) == {r \in Refs : pass[p].queue[r] > 0}

Failed(failed, ok) == failed + IF ok THEN 0 ELSE 1

\* fire: cloning, checking out and running the workflow end in either way.
Fire(p) ==
  /\ At(p, "fire")
  /\ \E r \in Queued(p), ok \in BOOLEAN :
       /\ \A q \in Queued(p) : r <= q
       /\ Become(p, [pass[p] EXCEPT !.queue[r] = @ - 1, !.failed = Failed(@, ok),
                       !.tried = @ \cup {[ref |-> r, sha |-> pass[p].listed[r]]}])
       /\ attempts' = [attempts EXCEPT ![r][pass[p].listed[r]] = @ + 1]
  /\ UNCHANGED <<remote, file, arrivals, bounded>>

EntryDone(p) ==
  /\ At(p, "fire") /\ Queued(p) = {}
  /\ Become(p, [pass[p] EXCEPT !.pc = "list", !.entry = @ + 1])
  /\ UNCHANGED <<remote, file, arrivals, attempts, bounded>>

\* saveState: os.WriteFile truncates the file ...
Truncate(p) ==
  /\ At(p, "list") /\ ~Listing(p)
  /\ file' = Torn
  /\ Become(p, [pass[p] EXCEPT !.pc = "write"])
  /\ UNCHANGED <<remote, arrivals, attempts, bounded>>

\* ... and writes from its start.  Over a file another pass wrote meanwhile,
\* the tail of a longer one remains.
Written(p) ==
  IF file = Torn \/ file = pass[p].state THEN {pass[p].state}
  ELSE {pass[p].state, Torn}

Write(p) ==
  /\ At(p, "write")
  /\ file' \in Written(p)
  /\ Become(p, Idle(IF pass[p].failed > 0 THEN "failed" ELSE "ok"))
  /\ UNCHANGED <<remote, arrivals, attempts, bounded>>

\* saveState fails before or after the truncation, or the process is killed.
Fault(p, exit) ==
  /\ faults < scene.faults
  /\ faults' = faults + 1
  /\ Become(p, Idle(exit))
  /\ UNCHANGED <<remote, file, arrivals, attempts, scene, overlaps, moves>>

Saving(p) == At(p, "write") \/ (At(p, "list") /\ ~Listing(p))
SaveFails(p) == Saving(p) /\ Fault(p, "infra")
Killed(p) == ~At(p, "idle") /\ Fault(p, "killed")

Step(p) == StartPass(p) \/ ListFails(p) \/ Decide(p) \/ Fire(p) \/ EntryDone(p)
           \/ Truncate(p) \/ Write(p)

----------------------------------------------------------------------------
(* The remote: somebody pushes, force-pushes, tags, moves a tag or deletes. *)
(* What happens to refs that no list names makes no difference.             *)

Push(r, s) ==
  /\ moves < scene.moves
  /\ moves' = moves + 1
  /\ \E c \in scene.lists : \E i \in DOMAIN c : Watched(c[i], r)
  /\ remote[r] # s
  /\ remote' = [remote EXCEPT ![r] = s]
  /\ arrivals' = IF s = NoSha THEN arrivals ELSE [arrivals EXCEPT ![r][s] = @ + 1]
  /\ UNCHANGED <<file, pass, attempts, scene, overlaps, faults>>

Next == \/ \E p \in Passes : Step(p) \/ SaveFails(p) \/ Killed(p)
        \/ \E r \in Refs, s \in Shas \cup {NoSha} : Push(r, s)

Spec == Init /\ [][Next]_vars

Entries == UNION {DOMAIN c : c \in UNION {s.lists : s \in Scenes}}

\* cron starts pass after pass, some pass at work keeps going, and no remote is
\* out of reach forever.
FairSpec ==
  /\ Spec
  /\ WF_vars(\E p \in Passes : Step(p))
  /\ \A i \in Entries : SF_vars(\E p \in Passes : pass[p].entry = i /\ Decide(p))

----------------------------------------------------------------------------
(* Properties. *)

\* What the code does not ask of latchet-ci.yml: that no two entries watch the
\* same ref, and that no ref is watched by two mentions of an entry.
EntriesApart ==
  \A s \in Scenes : \A c \in s.lists : \A i, k \in DOMAIN c, r \in Refs :
    Watched(c[i], r) /\ Watched(c[k], r) => i = k

MentionedOnce ==
  \A s \in Scenes : \A c \in s.lists : \A n \in DOMAIN c :
    /\ \A i, k \in DOMAIN c[n].branches : c[n].branches[i] = c[n].branches[k] => i = k
    /\ \A i, k \in DOMAIN c[n].tags :
         i # k => Matching[c[n].tags[i]] \cap Matching[c[n].tags[k]] = {}

\* README.md:725, "Fires exactly once per change": fire is called for a commit
\* at a ref no more often than the remote came to show it there.
AtMostOncePerChange ==
  \A r \in Refs, s \in Shas : attempts[r][s] <= arrivals[r][s]

\* What holds with disjoint patterns: only a kill, a failed save or a pass that
\* begins while another is at work makes a change fire again, and each of them
\* at most once, although the later save of two overlapping passes undoes the
\* earlier; a failed run, an unreachable remote or an edited list never does.
RefiresBounded ==
  \A r \in Refs, s \in Shas : attempts[r][s] <= arrivals[r][s] + faults + overlaps

\* The refs whose change this pass must notice: its configuration names them
\* and the file it loaded has their baseline.
Baselines(p, r) ==
  \E i \in DOMAIN pass[p].config :
    LET e == pass[p].config[i]
    IN  \/ r \in Range(e.branches) /\ pass[p].loaded.known[r] # NoSha
        \/ \E pat \in Range(e.tags) : pat \in pass[p].loaded.marked /\ r \in Matching[pat]

\* A pass that records a new commit for such a ref has called fire for exactly
\* that commit: no change is recorded as seen without a run, whichever of the
\* remotes failed, and in whichever pass a pattern joined the configuration.
NoChangeSwallowed ==
  [][\A p \in Passes :
       At(p, "write") /\ file' # file /\ file' = pass[p].state =>
         \A r \in Refs :
           Baselines(p, r) /\ file'.known[r] # pass[p].loaded.known[r] =>
             \E t \in pass[p].tried : t.ref = r /\ t.sha = file'.known[r]]_vars

\* What a pass fires is a change to something it had a baseline for: the first
\* sight of a repository or of a pattern, and a ref that did not move, are silent.
FiresAreChanges ==
  \A p \in Passes : ~At(p, "idle") => \A t \in pass[p].tried :
    Baselines(p, t.ref) /\ t.sha # pass[p].loaded.known[t.ref]

\* A ref that differs from the commit recorded for it does not stay so: some
\* pass lists it, fires and records it, unless it is deleted or moved back.
Outstanding(r) ==
  /\ \A c \in scene.lists : \E i \in DOMAIN c : Watched(c[i], r)
  /\ remote[r] # NoSha /\ file # Torn /\ file.known[r] # remote[r]
  /\ \/ r \in Branches /\ file.known[r] # NoSha
     \/ \E pat \in file.marked : r \in Matching[pat]

TakenUp(r) == remote[r] = NoSha \/ (file # Torn /\ file.known[r] = remote[r])

\* docs/watch-plan.md:88-89: "branch advances, new tags, and tag moves each fire
\* exactly once".
ChangesAreTakenUp == \A r \in Refs : Outstanding(r) ~> TakenUp(r)

\* What holds: that, unless a kill or two passes that save at once leave a file
\* that does not parse, with no pass at work that would still replace it.
TakenUpUnlessTorn ==
  \A r \in Refs :
    Outstanding(r) ~> TakenUp(r) \/ (file = Torn /\ \A p \in Passes : At(p, "idle"))
=============================================================================
