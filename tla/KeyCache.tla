------------------------------ MODULE KeyCache ------------------------------
(***************************************************************************)
(* The resolution of `uses:` references (internal/keys) by processes that  *)
(* share one cache directory: ResolveAll's loop over its references, each  *)
(* pinned to a commit by the name of a tag or by the commit itself, looked *)
(* up in the cache, or else cloned into a directory of its own, checked    *)
(* out, stripped of .git and renamed into place.  The repository is that   *)
(* of others: its tags and branches move.  Any process may be killed       *)
(* between two operations.                                                 *)
(***************************************************************************)
EXTENDS Naturals, Sequences

CONSTANTS
  Procs,
  Names,               \* of tags and branches
  Commits, TagObjects, \* what a SHA may name
  NoObject, NoTree,
  Peel,                \* the commit of each annotated tag
  History,             \* commit -> the commits of its history, itself included
  Keyed                \* the commits with a valid key.yml

Objects == Commits \cup TagObjects

ASSUME KeyCacheAssumption ==
  /\ Commits \cap TagObjects = {} /\ NoObject \notin Objects
  /\ Peel \in [TagObjects -> Commits]
  /\ History \in [Commits -> SUBSET Commits] /\ \A c \in Commits : c \in History[c]
  /\ Keyed \subseteq Commits

VARIABLES
  tags, branches,  \* name -> object, at the repository
  cached,          \* the cache: object -> its directory
  temp,            \* each process's fetch-* directory
  call,            \* each process's call of ResolveAll
  killed,          \* the processes that were killed
  seen             \* history, for each process: what its call met

repository == <<tags, branches>>
cacheVars == <<repository, cached, temp, call, killed, seen>>

CommitOf(object) == IF object \in TagObjects THEN Peel[object] ELSE object

\* A directory: the commit whose files it holds (NoObject: those a clone starts
\* with, its default branch) and the objects in its .git, {} once removed.
Tree(commit, git) == [commit |-> commit, git |-> git]

\* What a clone brings: every branch and tag with its history.
Reachable ==
  LET tips == {tags[n] : n \in Names} \cup {branches[n] : n \in Names}
  IN  UNION {{o} \cup History[CommitOf(o)] : o \in tips \ {NoObject}}

Ref(p) == call[p].uses[call[p].at]

Called(uses) ==
  [uses |-> uses, pc |-> "idle", at |-> 1, sha |-> NoObject, exit |-> 0]

\* held: cached when the call began; online: the places of the references for
\* which it used the network; moved: the repository changed meanwhile; fault:
\* an operation failed.
Unseen == [held |-> {}, online |-> {}, moved |-> FALSE, fault |-> FALSE]

CacheInit(uses) ==
  /\ cached = <<>>
  /\ temp = [p \in Procs |-> NoTree]
  /\ call = [p \in Procs |-> Called(uses[p])]
  /\ killed = {}
  /\ seen = [p \in Procs |-> Unseen]

At(p, pc) == call[p].pc = pc
Go(p, pc) == call' = [call EXCEPT ![p].pc = pc]
Returns(p, exit) == call' = [call EXCEPT ![p].pc = "returned", ![p].exit = exit]
Clean(p) == temp' = [temp EXCEPT ![p] = NoTree]

\* An error of the environment: a FetchError, exit 3, but for checkout's and for
\* that of reading key.yml, which is taken for one in the file.
Faulty(p) == seen' = [seen EXCEPT ![p].fault = TRUE]

\* The network is used for the reference at hand, to no avail if it fails.
Asks(p, fails) ==
  seen' = [seen EXCEPT ![p].online = @ \cup {call[p].at}, ![p].fault = fails]

\* No cache directory is made when there is nothing to resolve.
Begin(p) ==
  /\ At(p, "idle")
  /\ IF call[p].uses = <<>> THEN Returns(p, 0) /\ UNCHANGED seen
     ELSE \/ Go(p, "resolve") /\ seen' = [seen EXCEPT ![p].held = DOMAIN cached]
          \/ Returns(p, 3) /\ Faulty(p)
  /\ UNCHANGED <<repository, cached, temp>>

\* ParseRef and resolve: a SHA passes through; a name must be that of a tag, and
\* of the lines of ls-remote the one with the tag's commit is preferred.
Resolve(p) ==
  /\ At(p, "resolve")
  /\ LET ref == Ref(p)
         pinnedTo(sha) == call' = [call EXCEPT ![p].sha = sha, ![p].pc = "stat"]
     IN  \/ ref.kind = "malformed" /\ Returns(p, 2) /\ UNCHANGED seen
         \/ ref.kind = "sha" /\ pinnedTo(ref.name) /\ UNCHANGED seen
         \/ /\ ref.kind = "name" /\ Asks(p, FALSE)
            /\ IF tags[ref.name] = NoObject THEN Returns(p, 2)
                                            ELSE pinnedTo(CommitOf(tags[ref.name]))
         \/ ref.kind = "name" /\ Asks(p, TRUE) /\ Returns(p, 3)
  /\ UNCHANGED <<repository, cached, temp>>

\* A hit is not noticed (seeded fault).
NeverHits(p) == FALSE

Hits(p) == call[p].sha \in DOMAIN cached

Stat(p) ==
  /\ At(p, "stat")
  /\ Go(p, IF Hits(p) THEN "load" ELSE "clone")
  /\ UNCHANGED <<repository, cached, temp, seen>>

\* MkdirTemp and git clone.
Clone(p) ==
  /\ At(p, "clone")
  /\ \/ /\ temp' = [temp EXCEPT ![p] = Tree(NoObject, Reachable)]
        /\ Go(p, "checkout") /\ Asks(p, FALSE)
     \/ Returns(p, 3) /\ Clean(p) /\ Asks(p, TRUE)
  /\ UNCHANGED <<repository, cached>>

\* git checkout is left out (seeded fault).
NotCheckedOut(p) == temp[p]

CheckedOut(p) == [temp[p] EXCEPT !.commit = CommitOf(call[p].sha)]

\* Whatever makes the checkout fail is taken for a bad pin.
Checkout(p) ==
  /\ At(p, "checkout")
  /\ \/ /\ call[p].sha \in temp[p].git
        /\ temp' = [temp EXCEPT ![p] = CheckedOut(p)]
        /\ Go(p, "strip") /\ UNCHANGED seen
     \/ call[p].sha \notin temp[p].git /\ Returns(p, 2) /\ Clean(p) /\ UNCHANGED seen
     \/ Returns(p, 2) /\ Clean(p) /\ Faulty(p)
  /\ UNCHANGED <<repository, cached>>

Strip(p) ==
  /\ At(p, "strip")
  /\ \/ temp' = [temp EXCEPT ![p].git = {}] /\ Go(p, "rename") /\ UNCHANGED seen
     \/ Returns(p, 3) /\ Clean(p) /\ Faulty(p)
  /\ UNCHANGED <<repository, cached>>

\* The process that comes second fails (seeded fault).
LostRaceFails(p) == Returns(p, 3)

\* rename does not replace a directory; the one that is there is as good.
LostRace(p) == Go(p, "load")

\* The temporary directory is gone either way.
Rename(p) ==
  /\ At(p, "rename")
  /\ Clean(p)
  /\ LET sha == call[p].sha
     IN  \/ /\ sha \notin DOMAIN cached
            /\ cached' = [o \in DOMAIN cached \cup {sha} |->
                            IF o = sha THEN temp[p] ELSE cached[o]]
            /\ Go(p, "load") /\ UNCHANGED seen
         \/ sha \in DOMAIN cached /\ LostRace(p) /\ UNCHANGED <<cached, seen>>
         \/ sha \notin DOMAIN cached /\ Returns(p, 3) /\ Faulty(p) /\ UNCHANGED cached
  /\ UNCHANGED repository

\* load, and ResolveAll's next turn.
Load(p) ==
  /\ At(p, "load")
  /\ \/ /\ cached[call[p].sha].commit \in Keyed
        /\ IF call[p].at = Len(call[p].uses) THEN Returns(p, 0)
           ELSE call' = [call EXCEPT ![p].at = @ + 1, ![p].pc = "resolve"]
        /\ UNCHANGED seen
     \/ cached[call[p].sha].commit \notin Keyed /\ Returns(p, 2) /\ UNCHANGED seen
     \/ (\E exit \in {2, 3} : Returns(p, exit)) /\ Faulty(p)
  /\ UNCHANGED <<repository, cached, temp>>

\* A kill leaves the temporary directory as it is, or half a clone.
Kill(p) ==
  /\ p \notin killed
  /\ killed' = killed \cup {p}
  /\ \/ UNCHANGED temp
     \/ At(p, "clone") /\ temp' = [temp EXCEPT ![p] = Tree(NoObject, {})]
  /\ UNCHANGED <<repository, cached, call, seen>>

CacheStep(p) ==
  /\ p \notin killed /\ UNCHANGED killed
  /\ \/ Begin(p) \/ Resolve(p) \/ Stat(p) \/ Clone(p) \/ Checkout(p) \/ Strip(p)
     \/ Rename(p) \/ Load(p)

\* A tag is moved, made or deleted, a branch is pushed to.
Push ==
  /\ \E n \in Names, o \in Objects \cup {NoObject} :
       \/ o # tags[n] /\ tags' = [tags EXCEPT ![n] = o] /\ UNCHANGED branches
       \/ /\ o \in Commits \cup {NoObject} /\ o # branches[n]
          /\ branches' = [branches EXCEPT ![n] = o] /\ UNCHANGED tags
  /\ seen' = [p \in Procs |-> IF At(p, "idle") THEN seen[p] ELSE [seen[p] EXCEPT !.moved = TRUE]]
  /\ UNCHANGED <<cached, temp, call, killed>>

----------------------------------------------------------------------------
(* Properties. *)

\* fetch.go:89-94: the cache is content-addressed. Every entry that a process
\* can find, at any time, holds exactly the files of its commit, however many
\* processes fetched it at once and wherever they were killed; and what a
\* process goes on to load is there.
CacheHoldsPinned ==
  /\ \A o \in DOMAIN cached : cached[o] = Tree(CommitOf(o), {})
  /\ \A p \in Procs : At(p, "load") => call[p].sha \in DOMAIN cached

\* fetch.go:91-92: "SHA-pinned keys work fully offline once cached": whatever
\* was cached when the run started, by whichever run.
CachedNeedsNoNetwork ==
  \A p \in Procs : \A i \in seen[p].online :
    LET ref == call[p].uses[i] IN ref.kind = "sha" => ref.name \notin seen[p].held

\* What a reference names at the repository as it is, and whether it can be had
\* from there or from some entries of a cache.
Object(ref) ==
  IF ref.kind = "sha" THEN ref.name
  ELSE IF ref.kind = "name" /\ tags[ref.name] # NoObject THEN CommitOf(tags[ref.name])
  ELSE NoObject

Resolvable(ref, entries) ==
  Object(ref) \in Reachable \cup entries /\ CommitOf(Object(ref)) \in Keyed

\* Exit code 3 is for the environment (fetch.go:18-20). While the repository
\* stands still and no operation fails, a call returns 0 if all its references
\* can be resolved and 2 if not, whatever other processes do to the cache
\* meanwhile and wherever they die.
ExitNamesCause ==
  \A p \in Procs : At(p, "returned") =>
    LET resolvable(entries) ==
          \A i \in DOMAIN call[p].uses : Resolvable(call[p].uses[i], entries)
    IN  /\ call[p].exit = 3 => seen[p].fault
        /\ ~seen[p].moved /\ ~seen[p].fault =>
             /\ resolvable(seen[p].held) => call[p].exit = 0
             /\ call[p].exit = 0 => resolvable(DOMAIN cached)
=============================================================================
