---------------------------- MODULE HostTheorems ----------------------------
(***************************************************************************)
(* What holds of the files that processes share, for every number of       *)
(* processes, every list of keys, every repository and every sequence of   *)
(* pushes to it; and of what their writers let through, for every output,  *)
(* all secrets and every cut.                                              *)
(***************************************************************************)
EXTENDS Host, FiniteSetTheorems, SequenceTheorems, WellFoundedInduction, TLAPS

CacheNext == Push \/ \E p \in Procs : CacheStep(p) \/ Kill(p)

\* Every step of a host is one of its cache, or leaves the cache alone.
LEMMA StepsOfCache == [Next]_vars => [CacheNext]_cacheVars
<1> SUFFICES ASSUME [Next]_vars PROVE CacheNext \/ UNCHANGED cacheVars
    OBVIOUS
<1>1. CASE Move
      BY <1>1 DEF Move, CacheNext
<1>2. ASSUME NEW p \in Procs, Step(p)
      PROVE  CacheNext \/ UNCHANGED cacheVars
      BY <1>2 DEF Step, Keys, MakeDir, Unlink, Link, StartJob, Output, EndJob, CacheNext
<1>3. ASSUME NEW p \in Procs, KillRun(p)
      PROVE  CacheNext \/ UNCHANGED cacheVars
      BY <1>3 DEF KillRun, CacheNext
<1>4. CASE UNCHANGED vars
      BY <1>4 DEF vars
<1> QED
    BY <1>1, <1>2, <1>3, <1>4 DEF Next

----------------------------------------------------------------------------
(* Types. *)

Named == Names \cup Objects \cup {NoObject}
References == [kind : {"malformed", "sha", "name"}, name : Named]

Calls ==
  [uses : Seq(References),
   pc : {"idle", "resolve", "stat", "clone", "checkout", "strip", "rename", "load", "returned"},
   at : Nat, sha : Named, exit : {0, 2, 3}]

Sights == [held : SUBSET Named, online : SUBSET Nat, moved : BOOLEAN, fault : BOOLEAN]

CacheTypes ==
  /\ call \in [Procs -> Calls]
  /\ seen \in [Procs -> Sights]
  /\ DOMAIN temp = Procs
  /\ tags \in [Names -> Objects \cup {NoObject}]
  /\ \A p \in Procs :
       /\ \A i \in DOMAIN call[p].uses :
            call[p].uses[i].kind = "name" => call[p].uses[i].name \in Names
       /\ call[p].pc \notin {"idle", "returned"} => call[p].at \in DOMAIN call[p].uses
       /\ At(p, "idle") => call[p].at = 1

----------------------------------------------------------------------------
(* The cache. *)

Fetching(p) == At(p, "checkout") \/ At(p, "strip") \/ At(p, "rename")

\* What the directory of a process holds at each place of fetch.
TempAsFarAs(p) ==
  /\ Fetching(p) => temp[p] = Tree(temp[p].commit, temp[p].git)
  /\ At(p, "strip") \/ At(p, "rename") => temp[p].commit = CommitOf(call[p].sha)
  /\ At(p, "rename") => temp[p].git = {}

CacheInv ==
  /\ DOMAIN cached \subseteq Named
  /\ CacheHoldsPinned
  /\ \A p \in Procs : TempAsFarAs(p)

\* Why a call does not go online for what was cached when it began: a miss is a
\* miss in the cache of that moment, which only grows.
OfflineInv ==
  \A p \in Procs :
    /\ seen[p].held \subseteq DOMAIN cached
    /\ At(p, "idle") => seen[p].online = {}
    /\ \A i \in seen[p].online :
         call[p].uses[i].kind = "sha" => call[p].uses[i].name \notin seen[p].held
    /\ At(p, "clone") \/ At(p, "checkout") => call[p].sha \notin seen[p].held
    /\ call[p].pc \in {"stat", "clone"} /\ Ref(p).kind = "sha" => call[p].sha = Ref(p).name

\* Object and Resolvable at a given repository.
ObjectAt(tag, ref) ==
  IF ref.kind = "sha" THEN ref.name
  ELSE IF ref.kind = "name" /\ tag[ref.name] # NoObject THEN CommitOf(tag[ref.name])
  ELSE NoObject

ResolvableAt(tag, reach, ref, entries) ==
  ObjectAt(tag, ref) \in reach \cup entries /\ CommitOf(ObjectAt(tag, ref)) \in Keyed

\* How far a call c, which met s and has the directory t, has come while the
\* repository stood still.
ExitAt(tag, reach, s, c, t, entries) ==
  /\ c.pc = "returned" /\ c.exit = 3 => s.fault
  /\ c.pc # "idle" /\ ~s.moved =>
       /\ c.pc # "returned" =>
            \A i \in 1..c.at - 1 : ResolvableAt(tag, reach, c.uses[i], entries)
       /\ c.pc \in {"stat", "clone", "checkout", "strip", "rename", "load"} =>
            c.sha = ObjectAt(tag, c.uses[c.at])
       /\ c.pc = "checkout" => t.git = reach
       /\ c.pc = "returned" /\ c.exit = 0 =>
            \A i \in DOMAIN c.uses : ResolvableAt(tag, reach, c.uses[i], entries)
       /\ c.pc = "returned" /\ c.exit = 2 /\ ~s.fault =>
            \E i \in DOMAIN c.uses : ~ResolvableAt(tag, reach, c.uses[i], s.held)

ExitInv ==
  \A p \in Procs : ExitAt(tags, Reachable, seen[p], call[p], temp[p], DOMAIN cached)

IInv == CacheTypes /\ CacheInv /\ OfflineInv /\ ExitInv

LEMMA InitCache == Init => IInv
<1> SUFFICES ASSUME Init PROVE IInv
    OBVIOUS
<1>1. PICK family \in Scenes : scene \in family
      BY DEF Init
<1>2. /\ scene.tags \in [Names -> Objects \cup {NoObject}]
      /\ \A p \in Procs : scene.run[p] # NoRun =>
           /\ scene.run[p].uses \in Seq(References)
           /\ \A i \in DOMAIN scene.run[p].uses :
                scene.run[p].uses[i].kind = "name" => scene.run[p].uses[i].name \in Names
      BY <1>1, HostAssumption DEF References, Named
<1> DEFINE uses == UsesOf(scene)
<1>3. /\ uses \in [Procs -> Seq(References)]
      /\ \A p \in Procs : \A i \in DOMAIN uses[p] :
           uses[p][i].kind = "name" => uses[p][i].name \in Names
      BY <1>2 DEF UsesOf
<1>4. CacheInit(uses) /\ tags = scene.tags
      BY DEF Init
<1> HIDE DEF uses
<1>5. CacheTypes
      BY <1>2, <1>3, <1>4
      DEF CacheTypes, CacheInit, Calls, Called, Sights, Unseen, Named
<1>6. CacheInv
      BY <1>3, <1>4
      DEF CacheInv, CacheInit, CacheHoldsPinned, TempAsFarAs, Fetching, At, Called
<1>7. OfflineInv
      BY <1>3, <1>4 DEF OfflineInv, CacheInit, At, Called, Unseen
<1>8. ExitInv
      BY <1>3, <1>4 DEF ExitInv, ExitAt, CacheInit, Called
<1> QED
    BY <1>5, <1>6, <1>7, <1>8 DEF IInv

----------------------------------------------------------------------------
(* What the helpers of KeyCache's actions do to the state of a process. *)

OthersKeep(p, f, g) == \A q \in Procs \ {p} : g[q] = f[q]

\* A call returns: its references and its place stay.
LEMMA ReturnsAt ==
  ASSUME call \in [Procs -> Calls], NEW p \in Procs, NEW x \in {0, 2, 3}, Returns(p, x)
  PROVE  /\ call' \in [Procs -> Calls] /\ OthersKeep(p, call, call')
         /\ call'[p].pc = "returned" /\ call'[p].exit = x
         /\ call'[p].uses = call[p].uses /\ call'[p].at = call[p].at
         /\ call'[p].sha = call[p].sha
BY DEF Returns, Calls, OthersKeep

\* A call goes to its next operation: all else of it stays.
LEMMA GoesTo ==
  ASSUME call \in [Procs -> Calls], NEW p \in Procs,
         NEW c \in {"resolve", "stat", "clone", "checkout", "strip", "rename", "load"},
         Go(p, c)
  PROVE  /\ call' \in [Procs -> Calls] /\ OthersKeep(p, call, call')
         /\ call'[p].pc = c /\ call'[p].uses = call[p].uses /\ call'[p].at = call[p].at
         /\ call'[p].sha = call[p].sha /\ call'[p].exit = call[p].exit
BY DEF Go, Calls, OthersKeep

\* A reference is pinned.
LEMMA PinsTo ==
  ASSUME call \in [Procs -> Calls], NEW p \in Procs, NEW sha \in Named,
         call' = [call EXCEPT ![p].sha = sha, ![p].pc = "stat"]
  PROVE  /\ call' \in [Procs -> Calls] /\ OthersKeep(p, call, call')
         /\ call'[p].pc = "stat" /\ call'[p].uses = call[p].uses
         /\ call'[p].at = call[p].at /\ call'[p].sha = sha
BY DEF Calls, OthersKeep

\* A call turns to its next reference.
LEMMA TurnsOn ==
  ASSUME call \in [Procs -> Calls], NEW p \in Procs,
         call' = [call EXCEPT ![p].at = @ + 1, ![p].pc = "resolve"]
  PROVE  /\ call' \in [Procs -> Calls] /\ OthersKeep(p, call, call')
         /\ call'[p].pc = "resolve" /\ call'[p].uses = call[p].uses
         /\ call'[p].at = call[p].at + 1
<1> DEFINE n == call[p].at + 1
           c == [call[p] EXCEPT !.at = n, !.pc = "resolve"]
<1>1. n \in Nat /\ call[p] \in Calls
      BY DEF Calls
<1> HIDE DEF n
<1>2. c \in Calls /\ c.pc = "resolve" /\ c.uses = call[p].uses /\ c.at = n
      BY <1>1 DEF Calls
<1>3. call' = [call EXCEPT ![p] = c]
      BY DEF n
<1> HIDE DEF c
<1>4. call' \in [Procs -> Calls] /\ OthersKeep(p, call, call') /\ call'[p] = c
      BY <1>2, <1>3 DEF OthersKeep
<1> QED
    BY <1>2, <1>4 DEF n

\* An operation fails.
LEMMA FaultSeen ==
  ASSUME seen \in [Procs -> Sights], NEW p \in Procs, Faulty(p)
  PROVE  /\ seen' \in [Procs -> Sights] /\ OthersKeep(p, seen, seen')
         /\ seen'[p].fault /\ seen'[p].held = seen[p].held
         /\ seen'[p].online = seen[p].online /\ seen'[p].moved = seen[p].moved
BY DEF Faulty, Sights, OthersKeep

\* The network is used, and works or not.
LEMMA AskSeen ==
  ASSUME call \in [Procs -> Calls], seen \in [Procs -> Sights], NEW p \in Procs,
         NEW fails \in BOOLEAN, Asks(p, fails)
  PROVE  /\ seen' \in [Procs -> Sights] /\ OthersKeep(p, seen, seen')
         /\ seen'[p].held = seen[p].held /\ seen'[p].moved = seen[p].moved
         /\ seen'[p].online = seen[p].online \cup {call[p].at}
         /\ seen'[p].fault = fails
<1> DEFINE o == seen[p].online \cup {call[p].at}
           s == [seen[p] EXCEPT !.online = o, !.fault = fails]
<1>1. o \in SUBSET Nat /\ seen[p] \in Sights
      BY DEF Calls, Sights
<1> HIDE DEF o
<1>2. /\ s \in Sights /\ s.held = seen[p].held /\ s.moved = seen[p].moved
      /\ s.online = o /\ s.fault = fails
      BY <1>1 DEF Sights
<1>3. seen' = [seen EXCEPT ![p] = s]
      BY DEF Asks, o
<1> HIDE DEF s
<1>4. seen' \in [Procs -> Sights] /\ OthersKeep(p, seen, seen') /\ seen'[p] = s
      BY <1>2, <1>3 DEF OthersKeep
<1> QED
    BY <1>2, <1>4 DEF o

\* A temporary directory is removed.
LEMMA Cleaned ==
  ASSUME DOMAIN temp = Procs, NEW p \in Procs, Clean(p)
  PROVE  DOMAIN temp' = Procs /\ OthersKeep(p, temp, temp')
BY DEF Clean, OthersKeep

\* What every step of a call has in common.
LEMMA StepShape ==
  ASSUME CacheTypes, CacheInv, NEW p \in Procs, CacheStep(p)
  PROVE  /\ call' \in [Procs -> Calls] /\ OthersKeep(p, call, call')
         /\ seen' \in [Procs -> Sights] /\ OthersKeep(p, seen, seen')
         /\ DOMAIN temp' = Procs /\ OthersKeep(p, temp, temp')
         /\ UNCHANGED repository
         /\ call'[p].uses = call[p].uses /\ seen'[p].moved = seen[p].moved
         /\ ~At(p, "returned") /\ call'[p].pc # "idle"
         /\ \/ call'[p].at = call[p].at
            \/ /\ call[p].at # Len(call[p].uses) /\ call'[p].at = call[p].at + 1
               /\ ~At(p, "idle")
<1> USE DEF CacheTypes, At
<1>1. CASE Begin(p)
  <2>1. /\ call' \in [Procs -> Calls] /\ OthersKeep(p, call, call')
        /\ call'[p].uses = call[p].uses /\ call'[p].pc # "idle" /\ call'[p].at = call[p].at
        BY <1>1, ReturnsAt, GoesTo DEF Begin
  <2>2. /\ seen' \in [Procs -> Sights] /\ OthersKeep(p, seen, seen')
        /\ seen'[p].moved = seen[p].moved
    <3>1. CASE seen' = [seen EXCEPT ![p].held = DOMAIN cached]
          BY <3>1 DEF CacheInv, Sights, OthersKeep
    <3> QED
        BY <1>1, <3>1, FaultSeen DEF Begin, OthersKeep
  <2> QED
      BY <1>1, <2>1, <2>2 DEF Begin, OthersKeep
<1>2. CASE Resolve(p)
  <2>1. /\ seen' \in [Procs -> Sights] /\ OthersKeep(p, seen, seen')
        /\ seen'[p].moved = seen[p].moved
        BY <1>2, AskSeen DEF Resolve, OthersKeep
  <2>2. Ref(p).name \in Named
    <3>1. call[p].uses \in Seq(References) /\ call[p].at \in DOMAIN call[p].uses
          BY <1>2 DEF Resolve, At, Calls
    <3>2. Ref(p) \in References
          BY <3>1, ElementOfSeq DEF Ref
    <3> QED
        BY <3>2 DEF References
  <2>3. ASSUME Ref(p).kind = "name", tags[Ref(p).name] # NoObject
        PROVE  CommitOf(tags[Ref(p).name]) \in Named
        BY <1>2, <2>3, KeyCacheAssumption DEF Resolve, At, Ref, CommitOf, Named, Objects
  <2>4. /\ call' \in [Procs -> Calls] /\ OthersKeep(p, call, call')
        /\ call'[p].uses = call[p].uses /\ call'[p].pc # "idle" /\ call'[p].at = call[p].at
    <3>1. CASE Returns(p, 2) \/ Returns(p, 3)
          BY <3>1, ReturnsAt
    <3>2. CASE call' = [call EXCEPT ![p].sha = Ref(p).name, ![p].pc = "stat"]
          BY <2>2, <3>2, PinsTo
    <3>3. CASE /\ Ref(p).kind = "name" /\ tags[Ref(p).name] # NoObject
               /\ call' = [call EXCEPT ![p].sha = CommitOf(tags[Ref(p).name]), ![p].pc = "stat"]
          BY <2>3, <3>3, PinsTo
    <3> QED
        BY <1>2, <3>1, <3>2, <3>3 DEF Resolve
  <2> QED
      BY <1>2, <2>1, <2>4 DEF Resolve, OthersKeep, repository
<1>3. CASE Stat(p)
      BY <1>3, GoesTo DEF Stat, OthersKeep
<1>4. CASE Clone(p)
  <2>1. /\ call' \in [Procs -> Calls] /\ OthersKeep(p, call, call')
        /\ call'[p].uses = call[p].uses /\ call'[p].pc # "idle" /\ call'[p].at = call[p].at
        BY <1>4, ReturnsAt, GoesTo DEF Clone
  <2>2. /\ seen' \in [Procs -> Sights] /\ OthersKeep(p, seen, seen')
        /\ seen'[p].moved = seen[p].moved
        BY <1>4, AskSeen DEF Clone
  <2> QED
      BY <1>4, <2>1, <2>2, Cleaned DEF Clone, OthersKeep
<1>5. CASE Checkout(p)
      BY <1>5, ReturnsAt, GoesTo, FaultSeen, Cleaned DEF Checkout, OthersKeep
<1>6. CASE Strip(p)
      BY <1>6, ReturnsAt, GoesTo, FaultSeen, Cleaned DEF Strip, OthersKeep
<1>7. CASE Rename(p)
      BY <1>7, ReturnsAt, GoesTo, FaultSeen, Cleaned DEF Rename, LostRace, OthersKeep
<1>8. CASE Load(p)
      BY <1>8, ReturnsAt, TurnsOn, FaultSeen DEF Load, OthersKeep
<1> QED
    BY <1>1, <1>2, <1>3, <1>4, <1>5, <1>6, <1>7, <1>8 DEF CacheStep

\* The outcomes of resolving a reference.
LEMMA Resolves ==
  ASSUME CacheTypes, NEW p \in Procs, Resolve(p)
  PROVE  /\ call'[p].pc \in {"returned", "stat"} /\ call'[p].at = call[p].at
         /\ seen'[p].held = seen[p].held
         /\ \/ seen'[p].online = seen[p].online
            \/ seen'[p].online = seen[p].online \cup {call[p].at} /\ Ref(p).kind = "name"
         /\ call'[p].pc = "stat" => Ref(p).kind \in {"sha", "name"} /\ call'[p].sha = ObjectAt(tags, Ref(p))
         /\ call'[p].pc = "returned" =>
              \/ call'[p].exit = 2 /\ ObjectAt(tags, Ref(p)) = NoObject
              \/ call'[p].exit = 3 /\ seen'[p].fault
<1> USE DEF CacheTypes
<1>1. CASE Ref(p).kind = "malformed" /\ Returns(p, 2) /\ seen' = seen
      BY <1>1, ReturnsAt DEF ObjectAt
<1>2. CASE /\ Ref(p).kind = "sha" /\ seen' = seen
           /\ call' = [call EXCEPT ![p].sha = Ref(p).name, ![p].pc = "stat"]
      BY <1>2 DEF ObjectAt, Calls
<1>3. CASE /\ Ref(p).kind = "name" /\ Asks(p, FALSE)
           /\ tags[Ref(p).name] = NoObject /\ Returns(p, 2)
      BY <1>3, ReturnsAt, AskSeen DEF ObjectAt
<1>4. CASE /\ Ref(p).kind = "name" /\ Asks(p, FALSE) /\ tags[Ref(p).name] # NoObject
           /\ call' = [call EXCEPT ![p].sha = CommitOf(tags[Ref(p).name]), ![p].pc = "stat"]
  <2>1. /\ call'[p].pc = "stat" /\ call'[p].at = call[p].at
        /\ call'[p].sha = CommitOf(tags[Ref(p).name])
        BY <1>4 DEF Calls
  <2> QED
      BY <1>4, <2>1, AskSeen DEF ObjectAt
<1>5. CASE Ref(p).kind = "name" /\ Asks(p, TRUE) /\ Returns(p, 3)
      BY <1>5, ReturnsAt, AskSeen
<1> QED
    BY <1>1, <1>2, <1>3, <1>4, <1>5 DEF Resolve

LEMMA StepTypes == CacheTypes /\ CacheInv /\ [CacheNext]_cacheVars => CacheTypes'
<1> SUFFICES ASSUME CacheTypes, CacheInv, [CacheNext]_cacheVars PROVE CacheTypes'
    OBVIOUS
<1>1. CASE UNCHANGED cacheVars
      BY <1>1 DEF CacheTypes, cacheVars, repository, At
<1>2. CASE Push
      BY <1>2, ZenonT(60) DEF CacheTypes, Push, Sights, At
<1>3. ASSUME NEW p \in Procs, Kill(p)
      PROVE  CacheTypes'
      BY <1>3 DEF CacheTypes, Kill, repository, At
<1>4. ASSUME NEW p \in Procs, CacheStep(p)
      PROVE  CacheTypes'
  <2>1. /\ call' \in [Procs -> Calls] /\ seen' \in [Procs -> Sights] /\ DOMAIN temp' = Procs
        /\ tags' = tags /\ \A q \in Procs : call'[q].uses = call[q].uses
        BY <1>4, StepShape DEF OthersKeep, repository
  <2>2. At(p, "idle") => call[p].at = 1
        BY DEF CacheTypes
  <2>3. call'[p].pc \notin {"idle", "returned"} => call'[p].at \in DOMAIN call[p].uses
    <3>1. CASE Begin(p)
      <4>1. call[p].uses # <<>> => 1 \in DOMAIN call[p].uses
            BY DEF CacheTypes, Calls
      <4> QED
          BY <2>2, <3>1, <4>1, ReturnsAt, GoesTo DEF Begin, CacheTypes
    <3>2. CASE ~At(p, "idle")
      <4>1. /\ call[p].at \in 1..Len(call[p].uses)
            /\ DOMAIN call[p].uses = 1..Len(call[p].uses) /\ Len(call[p].uses) \in Nat
            BY <1>4, <3>2, StepShape DEF At, CacheTypes, Calls
      <4> QED
          BY <1>4, <4>1, StepShape
    <3>3. CASE At(p, "idle")
          BY <1>4, <3>1, <3>3 DEF CacheStep, At, Resolve, Stat, Clone, Checkout, Strip, Rename, Load
    <3> QED
        BY <3>2, <3>3
  <2>4. \A q \in Procs \ {p} : call'[q] = call[q]
        BY <1>4, StepShape DEF OthersKeep
  <2>5. call'[p].pc # "idle"
        BY <1>4, StepShape
  <2> QED
      BY <2>1, <2>3, <2>4, <2>5 DEF CacheTypes, At
<1> QED
    BY <1>1, <1>2, <1>3, <1>4 DEF CacheNext

----------------------------------------------------------------------------
(* The cache is content-addressed. *)

\* What is renamed into place.
Renamed(p) ==
  /\ At(p, "rename")
  /\ call[p].sha \notin DOMAIN cached
  /\ cached' = [o \in DOMAIN cached \cup {call[p].sha} |->
                  IF o = call[p].sha THEN temp[p] ELSE cached[o]]

LEMMA CacheWrites ==
  ASSUME NEW p \in Procs, CacheStep(p)
  PROVE  UNCHANGED cached \/ Renamed(p)
<1>1. CASE Rename(p)
      BY <1>1 DEF Rename, Renamed
<1> QED
    BY <1>1 DEF CacheStep, Begin, Resolve, Stat, Clone, Checkout, Strip, Load

\* The cache only grows, and no entry of it changes.
LEMMA CacheGrows ==
  ASSUME [CacheNext]_cacheVars
  PROVE  DOMAIN cached \subseteq DOMAIN cached' /\ \A o \in DOMAIN cached : cached'[o] = cached[o]
BY CacheWrites DEF CacheNext, Push, Kill, cacheVars, Renamed

LEMMA StepCache == CacheTypes /\ CacheInv /\ [CacheNext]_cacheVars => CacheInv'
<1> SUFFICES ASSUME CacheTypes, CacheInv, [CacheNext]_cacheVars PROVE CacheInv'
    OBVIOUS
<1>1. CASE UNCHANGED cacheVars
      BY <1>1 DEF CacheInv, CacheHoldsPinned, TempAsFarAs, Fetching, At, cacheVars
<1>2. CASE Push
      BY <1>2 DEF CacheInv, CacheHoldsPinned, TempAsFarAs, Fetching, At, Push
<1>3. ASSUME NEW p \in Procs, Kill(p)
      PROVE  CacheInv'
  <2>1. \A q \in Procs : ~At(q, "clone") => temp'[q] = temp[q]
        BY <1>3 DEF Kill, CacheTypes
  <2>2. call' = call /\ cached' = cached
        BY <1>3 DEF Kill
  <2> QED
      BY <2>1, <2>2 DEF CacheInv, CacheHoldsPinned, TempAsFarAs, Fetching, At
<1>4. ASSUME NEW p \in Procs, CacheStep(p)
      PROVE  CacheInv'
  <2>1. \A q \in Procs \ {p} : call'[q] = call[q] /\ temp'[q] = temp[q]
        BY <1>4, StepShape DEF OthersKeep
  <2>2. DOMAIN cached' \subseteq Named /\ \A o \in DOMAIN cached' : cached'[o] = Tree(CommitOf(o), {})
    <3>1. CASE Renamed(p)
      <4>1. temp[p] = Tree(CommitOf(call[p].sha), {}) /\ call[p].sha \in Named
            BY <3>1 DEF Renamed, CacheInv, TempAsFarAs, Fetching, CacheTypes, Calls
      <4> QED
          BY <3>1, <4>1 DEF Renamed, CacheInv, CacheHoldsPinned
    <3> QED
        BY <1>4, <3>1, CacheWrites DEF CacheInv, CacheHoldsPinned
  <2>3. /\ At(p, "load")' => call'[p].sha \in DOMAIN cached'
        /\ TempAsFarAs(p)'
    <3> USE DEF TempAsFarAs, Fetching, At, CacheTypes
    <3>1. CASE Begin(p)
          BY <3>1, ReturnsAt, GoesTo DEF Begin
    <3>2. CASE Resolve(p)
          BY <3>2, Resolves
    <3>3. CASE Stat(p)
          BY <3>3, GoesTo DEF Stat, Hits
    <3>4. CASE Clone(p)
          BY <3>4, ReturnsAt, GoesTo, ZenonT(60) DEF Clone, Tree
    <3>5. CASE Checkout(p)
          BY <3>5, ReturnsAt, GoesTo DEF Checkout, CheckedOut, Tree, CacheInv
    <3>6. CASE Strip(p)
          BY <3>6, ReturnsAt, GoesTo DEF Strip, Tree, CacheInv
    <3>7. CASE Rename(p)
          BY <3>7, ReturnsAt, GoesTo DEF Rename, LostRace
    <3>8. CASE Load(p)
          BY <3>8, ReturnsAt, TurnsOn DEF Load
    <3> QED
        BY <1>4, <3>1, <3>2, <3>3, <3>4, <3>5, <3>6, <3>7, <3>8 DEF CacheStep
  <2> QED
      BY <2>1, <2>2, <2>3, CacheGrows DEF CacheInv, CacheHoldsPinned, TempAsFarAs, Fetching, At
<1> QED
    BY <1>1, <1>2, <1>3, <1>4 DEF CacheNext

----------------------------------------------------------------------------
(* What was cached needs no network. *)

LEMMA StepOffline ==
  CacheTypes /\ CacheInv /\ OfflineInv /\ [CacheNext]_cacheVars => OfflineInv'
<1> SUFFICES ASSUME CacheTypes, CacheInv, OfflineInv, [CacheNext]_cacheVars PROVE OfflineInv'
    OBVIOUS
<1>0. DOMAIN cached \subseteq DOMAIN cached'
      BY CacheGrows
<1>1. CASE UNCHANGED cacheVars
      BY <1>1 DEF OfflineInv, At, Ref, cacheVars
<1>2. CASE Push
  <2>1. \A q \in Procs : seen'[q].held = seen[q].held /\ seen'[q].online = seen[q].online
        BY <1>2 DEF Push, CacheTypes, Sights
  <2> QED
      BY <1>2, <2>1 DEF OfflineInv, At, Ref, Push
<1>3. ASSUME NEW p \in Procs, Kill(p)
      PROVE  OfflineInv'
      BY <1>3 DEF OfflineInv, At, Ref, Kill
<1>4. ASSUME NEW p \in Procs, CacheStep(p)
      PROVE  OfflineInv'
  <2>1. \A q \in Procs \ {p} : call'[q] = call[q] /\ seen'[q] = seen[q]
        BY <1>4, StepShape DEF OthersKeep
  <2>2. call'[p].uses = call[p].uses /\ call'[p].pc # "idle"
        BY <1>4, StepShape
  <2> DEFINE Offline(s, c) ==
        /\ s.held \subseteq DOMAIN cached'
        /\ \A i \in s.online : call[p].uses[i].kind = "sha" => call[p].uses[i].name \notin s.held
        /\ c.pc \in {"clone", "checkout"} => c.sha \notin s.held
        /\ c.pc \in {"stat", "clone"} /\ call[p].uses[c.at].kind = "sha" =>
             c.sha = call[p].uses[c.at].name
  <2>3. Offline(seen'[p], call'[p])
    <3> USE DEF CacheTypes, At, Ref, OfflineInv
    <3>1. CASE Begin(p)
      <4>1. call'[p].pc \in {"returned", "resolve"}
            BY <3>1, ReturnsAt, GoesTo DEF Begin
      <4>2. /\ seen'[p].online = {}
            /\ seen'[p].held = seen[p].held \/ seen'[p].held = DOMAIN cached
            BY <3>1, FaultSeen DEF Begin, Sights
      <4> QED
          BY <1>0, <4>1, <4>2
    <3>2. CASE Resolve(p)
      <4>1. call'[p].pc = "stat" /\ Ref(p).kind = "sha" => call'[p].sha = Ref(p).name
            BY <3>2, Resolves DEF ObjectAt
      <4> QED
          BY <1>0, <3>2, <4>1, Resolves
    <3>3. CASE Stat(p)
          BY <1>0, <3>3, GoesTo DEF Stat, Hits
    <3>4. CASE Clone(p)
      <4>1. /\ seen'[p].held = seen[p].held
            /\ seen'[p].online = seen[p].online \cup {call[p].at}
            BY <3>4, AskSeen DEF Clone
      <4>2. call'[p].pc \in {"checkout", "returned"} /\ call'[p].sha = call[p].sha
            BY <3>4, ReturnsAt, GoesTo DEF Clone
      <4> QED
          BY <1>0, <3>4, <4>1, <4>2 DEF Clone
    <3>5. CASE Checkout(p)
          BY <1>0, <3>5, ReturnsAt, GoesTo, FaultSeen DEF Checkout
    <3>6. CASE Strip(p)
          BY <1>0, <3>6, ReturnsAt, GoesTo, FaultSeen DEF Strip
    <3>7. CASE Rename(p)
          BY <1>0, <3>7, ReturnsAt, GoesTo, FaultSeen DEF Rename, LostRace
    <3>8. CASE Load(p)
          BY <1>0, <3>8, ReturnsAt, TurnsOn, FaultSeen DEF Load
    <3> QED
        BY <1>4, <3>1, <3>2, <3>3, <3>4, <3>5, <3>6, <3>7, <3>8 DEF CacheStep
  <2> QED
      BY <1>0, <2>1, <2>2, <2>3 DEF OfflineInv, At, Ref
<1> QED
    BY <1>1, <1>2, <1>3, <1>4 DEF CacheNext

----------------------------------------------------------------------------
(* Exit codes name the cause. *)

\* What other processes put into the cache does a call no harm.
LEMMA ExitGrows ==
  ASSUME NEW s, NEW c, NEW t, NEW entries, NEW more, NEW tag, NEW reach,
         entries \subseteq more,
         ExitAt(tag, reach, s, c, t, entries)
  PROVE  ExitAt(tag, reach, s, c, t, more)
BY DEF ExitAt, ResolvableAt

LEMMA Nothing ==
  ASSUME NEW tag, NEW reach, NEW ref, ObjectAt(tag, ref) = NoObject
  PROVE  \A e : ~ResolvableAt(tag, reach, ref, e)
BY KeyCacheAssumption DEF ResolvableAt, CommitOf, Objects

LEMMA StepExit ==
  IInv /\ CacheTypes' /\ [CacheNext]_cacheVars => ExitInv'
<1> SUFFICES ASSUME IInv, CacheTypes', [CacheNext]_cacheVars PROVE ExitInv'
    OBVIOUS
<1> USE DEF IInv
<1>0. DOMAIN cached \subseteq DOMAIN cached'
      BY CacheGrows
<1>1. ASSUME UNCHANGED repository,
             \A p \in Procs : ExitAt(tags, Reachable, seen'[p], call'[p], temp'[p], DOMAIN cached')
      PROVE  ExitInv'
  <2>1. tags' = tags /\ Reachable' = Reachable
        BY <1>1 DEF repository, Reachable
  <2> QED
      BY <1>1, <2>1 DEF ExitInv
<1>2. CASE UNCHANGED cacheVars
      BY <1>1, <1>2 DEF ExitInv, cacheVars
<1>3. CASE Push
  <2>1. \A p \in Procs :
          /\ call'[p] = call[p] /\ seen'[p].fault = seen[p].fault
          /\ call[p].pc # "idle" => seen'[p].moved
        BY <1>3 DEF Push, CacheTypes, Sights, At
  <2> QED
      BY <2>1 DEF ExitInv, ExitAt
<1>4. ASSUME NEW p \in Procs, Kill(p)
      PROVE  ExitInv'
  <2>1. \A q \in Procs : temp'[q] = temp[q] \/ call[q].pc = "clone"
        BY <1>4 DEF Kill, CacheTypes, At
  <2>2. UNCHANGED <<repository, cached, call, seen>>
        BY <1>4 DEF Kill
  <2>3. \A q \in Procs : ExitAt(tags, Reachable, seen[q], call[q], temp'[q], DOMAIN cached)
        BY <2>1 DEF ExitInv, ExitAt
  <2> QED
      BY <1>1, <2>2, <2>3
<1>5. ASSUME NEW p \in Procs, CacheStep(p)
      PROVE  ExitInv'
  <2>1. \A q \in Procs \ {p} :
          call'[q] = call[q] /\ seen'[q] = seen[q] /\ temp'[q] = temp[q]
        BY <1>5, StepShape DEF OthersKeep
  <2>2. /\ UNCHANGED repository /\ call'[p].uses = call[p].uses /\ call'[p].pc # "idle"
        /\ seen'[p].moved = seen[p].moved
        BY <1>5, StepShape
  <2>3. ExitAt(tags, Reachable, seen'[p], call'[p], temp'[p], DOMAIN cached')
    <3> DEFINE s == seen'[p]
               c == call'[p]
               t == temp'[p]
    <3>0. /\ ~At(p, "idle") => ExitAt(tags, Reachable, seen[p], call[p], temp[p], DOMAIN cached')
          /\ ~At(p, "idle") => call[p].at \in DOMAIN call[p].uses
          /\ call[p] \in Calls /\ ~At(p, "returned")
          BY <1>0, <1>5, ExitGrows, StepShape DEF ExitInv, CacheTypes, At
    <3> USE DEF CacheTypes, At
    <3>1. CASE Begin(p)
      <4>1. CASE call[p].uses = <<>> /\ Returns(p, 0)
            BY <2>2, <4>1, ReturnsAt DEF ExitAt
      <4>2. CASE Go(p, "resolve")
        <5>1. c.pc = "resolve" /\ c.at = 1
              BY <3>1, <4>2, GoesTo DEF Begin
        <5> QED
            BY <5>1 DEF ExitAt
      <4>3. CASE Returns(p, 3) /\ Faulty(p)
            BY <4>3, ReturnsAt, FaultSeen DEF ExitAt
      <4> QED
          BY <3>1, <4>1, <4>2, <4>3 DEF Begin
    <3>2. CASE Resolve(p)
      <4>1. CASE c.pc = "stat"
            BY <2>2, <3>0, <3>2, <4>1, Resolves DEF ExitAt, Ref
      <4>2. CASE c.pc = "returned"
        <5>1. \/ c.exit = 2 /\ ObjectAt(tags, call[p].uses[call[p].at]) = NoObject
              \/ c.exit = 3 /\ s.fault
              BY <3>2, <4>2, Resolves DEF Ref
        <5>2. call[p].at \in DOMAIN c.uses
              BY <2>2, <3>0, <3>2 DEF Resolve
        <5>3. CASE c.exit = 2 /\ ObjectAt(tags, c.uses[call[p].at]) = NoObject
              BY <4>2, <5>2, <5>3, Nothing DEF ExitAt
        <5>4. CASE c.exit = 3 /\ s.fault
              BY <4>2, <5>4 DEF ExitAt
        <5> QED
            BY <2>2, <5>1, <5>3, <5>4
      <4> QED
          BY <3>2, <4>1, <4>2, Resolves
    <3>3. CASE Stat(p)
          BY <2>2, <3>0, <3>3, GoesTo DEF Stat, ExitAt
    <3>4. CASE Clone(p)
      <4>0. call[p].pc = "clone"
            BY <3>4 DEF Clone
      <4>1. CASE /\ Go(p, "checkout")
                 /\ temp' = [temp EXCEPT ![p] = Tree(NoObject, Reachable)]
        <5>1. t.git = Reachable
              BY <4>1 DEF Tree
        <5> QED
            BY <2>2, <3>0, <4>0, <4>1, <5>1, GoesTo DEF ExitAt
      <4>2. CASE Returns(p, 3) /\ Asks(p, TRUE)
        <5>1. s.fault
              BY <4>2, AskSeen
        <5>2. c.pc = "returned" /\ c.exit = 3
              BY <4>2, ReturnsAt
        <5> QED
            BY <5>1, <5>2 DEF ExitAt
      <4> QED
          BY <3>4, <4>1, <4>2 DEF Clone
    <3>5. CASE Checkout(p)
      <4>1. CASE Go(p, "strip") /\ seen' = seen
            BY <2>2, <3>0, <3>5, <4>1, GoesTo DEF Checkout, ExitAt
      <4>2. CASE call[p].sha \notin temp[p].git /\ Returns(p, 2) /\ seen' = seen
        <5>1. call[p].sha \notin seen[p].held
              BY <3>5 DEF Checkout, OfflineInv
        <5> QED
            BY <2>2, <3>0, <3>5, <4>2, <5>1, ReturnsAt DEF Checkout, ExitAt, ResolvableAt
      <4>3. CASE Returns(p, 2) /\ Faulty(p)
            BY <4>3, ReturnsAt, FaultSeen DEF ExitAt
      <4> QED
          BY <3>5, <4>1, <4>2, <4>3 DEF Checkout
    <3>6. CASE Strip(p)
      <4>1. CASE Go(p, "rename") /\ seen' = seen
            BY <2>2, <3>0, <3>6, <4>1, GoesTo DEF Strip, ExitAt
      <4>2. CASE Returns(p, 3) /\ Faulty(p)
            BY <4>2, ReturnsAt, FaultSeen DEF ExitAt
      <4> QED
          BY <3>6, <4>1, <4>2 DEF Strip
    <3>7. CASE Rename(p)
      <4>1. CASE Go(p, "load") /\ seen' = seen
            BY <2>2, <3>0, <3>7, <4>1, GoesTo DEF Rename, ExitAt
      <4>2. CASE Returns(p, 3) /\ Faulty(p)
            BY <4>2, ReturnsAt, FaultSeen DEF ExitAt
      <4> QED
          BY <3>7, <4>1, <4>2 DEF Rename, LostRace
    <3>8. CASE Load(p)
      <4>0. /\ call[p].sha \in DOMAIN cached'
            /\ cached[call[p].sha].commit = CommitOf(call[p].sha)
            /\ UNCHANGED cached
            BY <3>8 DEF Load, CacheInv, CacheHoldsPinned, Tree
      <4>1. /\ DOMAIN call[p].uses = 1..Len(call[p].uses) /\ call[p].at \in Nat
            /\ Len(call[p].uses) \in Nat /\ call[p].at \in DOMAIN call[p].uses
            BY <3>0, <3>8 DEF Calls, Load
      <4>2. ASSUME cached[call[p].sha].commit \in Keyed, ~seen[p].moved
            PROVE  \A i \in 1..call[p].at : ResolvableAt(tags, Reachable, call[p].uses[i], DOMAIN cached')
            BY <3>0, <3>8, <4>0, <4>1, <4>2 DEF Load, ExitAt, ResolvableAt
      <4>3. CASE /\ cached[call[p].sha].commit \in Keyed
                 /\ call[p].at = Len(call[p].uses) /\ Returns(p, 0) /\ seen' = seen
            BY <2>2, <4>1, <4>2, <4>3, ReturnsAt DEF ExitAt
      <4>4. CASE /\ cached[call[p].sha].commit \in Keyed /\ seen' = seen
                 /\ call' = [call EXCEPT ![p].at = @ + 1, ![p].pc = "resolve"]
        <5>1. c.pc = "resolve" /\ c.at = call[p].at + 1
              BY <4>4, TurnsOn
        <5>2. c.at - 1 = call[p].at
              BY <4>1, <5>1
        <5> QED
            BY <2>2, <4>2, <4>4, <5>1, <5>2 DEF ExitAt
      <4>5. CASE cached[call[p].sha].commit \notin Keyed /\ Returns(p, 2) /\ seen' = seen
            BY <2>2, <3>0, <3>8, <4>0, <4>1, <4>5, ReturnsAt DEF Load, ExitAt, ResolvableAt
      <4>6. CASE (\E exit \in {2, 3} : Returns(p, exit)) /\ Faulty(p)
            BY <4>6, ReturnsAt, FaultSeen DEF ExitAt
      <4> QED
          BY <3>8, <4>3, <4>4, <4>5, <4>6 DEF Load
    <3> QED
        BY <1>5, <3>1, <3>2, <3>3, <3>4, <3>5, <3>6, <3>7, <3>8 DEF CacheStep
  <2>4. \A q \in Procs : ExitAt(tags, Reachable, seen'[q], call'[q], temp'[q], DOMAIN cached')
        BY <1>0, <2>1, <2>3, ExitGrows DEF ExitInv
  <2> QED
      BY <1>1, <2>2, <2>4
<1> QED
    BY <1>2, <1>3, <1>4, <1>5 DEF CacheNext

----------------------------------------------------------------------------
(* The theorems of the cache. *)

LEMMA Inductive == Spec => []IInv
<1>1. IInv /\ [Next]_vars => IInv'
      BY StepsOfCache, StepTypes, StepCache, StepOffline, StepExit DEF IInv
<1> QED
    BY InitCache, <1>1, PTL DEF Spec

\* fetch.go:89-94: every entry of the cache holds its commit's files, and what
\* a process goes on to load is there.
THEOREM CacheIsPinned == Spec => []CacheHoldsPinned
<1>1. IInv => CacheHoldsPinned
      BY DEF IInv, CacheInv
<1> QED
    BY Inductive, <1>1, PTL

\* fetch.go:91-92: a call uses no network for a pinned commit that was cached
\* when it began.
THEOREM CachedIsOffline == Spec => []CachedNeedsNoNetwork
<1>1. IInv => CachedNeedsNoNetwork
      BY DEF IInv, OfflineInv, CachedNeedsNoNetwork
<1> QED
    BY Inductive, <1>1, PTL

\* fetch.go:18-20: a call's exit code follows from what its references name
\* and from whether an operation failed, not from other processes.
THEOREM ExitsTell == Spec => []ExitNamesCause
<1>1. ASSUME IInv, NEW p \in Procs, At(p, "returned")
      PROVE  LET resolvable(entries) ==
                   \A i \in DOMAIN call[p].uses : Resolvable(call[p].uses[i], entries)
             IN  /\ call[p].exit = 3 => seen[p].fault
                 /\ ~seen[p].moved /\ ~seen[p].fault =>
                      /\ resolvable(seen[p].held) => call[p].exit = 0
                      /\ call[p].exit = 0 => resolvable(DOMAIN cached)
  <2>1. \A ref, e : Resolvable(ref, e) <=> ResolvableAt(tags, Reachable, ref, e)
        BY DEF Resolvable, Object, ResolvableAt, ObjectAt
  <2>2. /\ ExitAt(tags, Reachable, seen[p], call[p], temp[p], DOMAIN cached)
        /\ call[p].exit \in {0, 2, 3}
        BY <1>1 DEF IInv, ExitInv, CacheTypes, Calls
  <2>3. call[p].pc = "returned"
        BY <1>1 DEF At
  <2> QED
      BY <2>1, <2>2, <2>3 DEF ExitAt
<1>2. IInv => ExitNamesCause
      BY <1>1 DEF ExitNamesCause
<1> QED
    BY Inductive, <1>2, PTL

----------------------------------------------------------------------------
(* The `latest` link. *)

Done == {"logged", "jobs", "ended"}

\* A link is missing on account of a process between its removal and its making,
\* or of one whose Symlink failed and after which none has become ready.
Missed(p) ==
  \/ In(p, "link")
  \/ <<p, "link">> \in ignored /\ \A q \in Ready : p \notin before[q]

\* A directory is made once, before the link is removed, if it is; the runs that
\* were ready before it cannot be linked after that, since each links itself only
\* before it is ready.
LogInv ==
  /\ DOMAIN stage = Procs /\ DOMAIN before = Procs
  /\ dirs \subseteq Procs /\ latest \in dirs \cup {NoLink}
  /\ \A p \in Procs :
       /\ stage[p] \in {"keys", "mkdir"} => p \notin dirs
       /\ stage[p] \in {"unlink", "link", "logged", "jobs"} => p \in dirs
       /\ before[p] \subseteq Ready
       /\ stage[p] \in {"link"} \cup Done /\ p \in dirs /\ <<p, "unlink">> \notin ignored =>
            latest \notin before[p]
  /\ latest = NoLink /\ Ready # {} => \E p \in Procs : Missed(p)

LEMMA InitLog == Init => LogInv
BY DEF Init, LogInv, Ready

\* A step that changes neither the logs nor which process is where among those
\* with a directory.
LEMMA LogKept ==
  ASSUME LogInv, UNCHANGED logs, NEW p \in Procs, NEW s, stage' = [stage EXCEPT ![p] = s],
         \/ stage[p] \in {"logged", "jobs"} /\ s \in {"jobs", "ended"}
         \/ stage[p] \in {"keys", "mkdir"} /\ s \in {"keys", "mkdir", "ended"}
  PROVE  LogInv'
<1>1. /\ DOMAIN stage' = Procs /\ dirs' = dirs /\ latest' = latest /\ before' = before
      /\ ignored' = ignored
      BY DEF LogInv, logs
<1>2. stage'[p] = s /\ \A q \in Procs \ {p} : stage'[q] = stage[q]
      BY DEF LogInv
<1>3. \A q \in Procs : q \in dirs => (stage'[q] \in Done <=> stage[q] \in Done)
      BY <1>2 DEF LogInv, Done
<1>4. Ready' = Ready
      BY <1>1, <1>3 DEF LogInv, Ready, Done
<1>5. \A q \in Procs : Missed(q) => Missed(q)'
  <2>1. \A q \in Procs : In(q, "link") => In(q, "link")'
        BY <1>2 DEF In
  <2> QED
      BY <1>1, <1>4, <2>1 DEF Missed
<1>6. ASSUME NEW q \in Procs
      PROVE  /\ stage'[q] \in {"keys", "mkdir"} => q \notin dirs
             /\ stage'[q] \in {"unlink", "link", "logged", "jobs"} => q \in dirs
             /\ stage'[q] \in {"link"} \cup Done /\ q \in dirs /\ <<q, "unlink">> \notin ignored =>
                  latest \notin before[q]
  <2>1. CASE q # p
        BY <1>2, <2>1 DEF LogInv
  <2>2. CASE q = p
        BY <1>2, <2>2 DEF LogInv, Done
  <2> QED
      BY <2>1, <2>2
<1> QED
    BY <1>1, <1>4, <1>5, <1>6 DEF LogInv

LEMMA StepLog == LogInv /\ [Next]_vars => LogInv'
<1> SUFFICES ASSUME LogInv, [Next]_vars PROVE LogInv'
    OBVIOUS
<1>1. CASE UNCHANGED <<stage, logs>>
      BY <1>1 DEF LogInv, Missed, Ready, In, logs
<1>2. CASE Move
      BY <1>1, <1>2 DEF Move
<1>3. ASSUME NEW p \in Procs, KillRun(p)
      PROVE  LogInv'
      BY <1>1, <1>3 DEF KillRun
<1>4. ASSUME NEW p \in Procs, Step(p)
      PROVE  LogInv'
  <2>1. CASE Keys(p)
        BY <2>1, LogKept DEF Keys, Reach, In
  <2>2. CASE MakeDir(p)
    <3>1. CASE Reach(p, "ended") /\ UNCHANGED <<dirs, before, latest, ignored>>
          BY <2>2, <3>1, LogKept DEF MakeDir, Reach, In, logs
    <3>2. CASE Reach(p, "unlink") /\ dirs' = dirs \cup {p} /\ before' = [before EXCEPT ![p] = Ready]
      <4>1. /\ stage[p] = "mkdir" /\ stage'[p] = "unlink" /\ p \notin dirs
            /\ \A q \in Procs \ {p} : stage'[q] = stage[q] /\ before'[q] = before[q]
            /\ before'[p] = Ready /\ UNCHANGED <<latest, ignored>>
            /\ DOMAIN stage' = Procs /\ DOMAIN before' = Procs
            BY <2>2, <3>2 DEF MakeDir, LogInv, Reach, In
      <4>2. Ready' = Ready /\ p \notin Ready
            BY <3>2, <4>1 DEF LogInv, Ready
      <4>3. \A q \in Procs : Missed(q) => Missed(q)'
        <5>1. \A q \in Ready : before'[q] = before[q]
              BY <4>1, <4>2 DEF LogInv, Ready
        <5>2. \A q \in Procs : In(q, "link") => In(q, "link")'
              BY <4>1 DEF In
        <5> QED
            BY <4>1, <4>2, <5>1, <5>2 DEF Missed
      <4> QED
          BY <3>2, <4>1, <4>2, <4>3 DEF LogInv, Done
    <3> QED
        BY <2>2, <3>1, <3>2 DEF MakeDir
  <2>3. CASE Unlink(p)
    <3>1. Ready' = Ready
          BY <2>3 DEF Unlink, LogInv, Reach, Ready, In
    <3>2. NoLink \notin Ready
          BY HostAssumption DEF LogInv, Ready
    <3>3. Missed(p)'
          BY <2>3 DEF Unlink, Missed, LogInv, Reach, In
    <3>4. CASE latest' = Unlinked /\ UNCHANGED ignored
          BY <2>3, <3>1, <3>2, <3>3, <3>4 DEF Unlink, Unlinked, LogInv, Reach, In, Done
    <3>5. CASE latest # NoLink /\ Ignores(p, "unlink") /\ UNCHANGED latest
          BY <2>3, <3>1, <3>3, <3>5 DEF Unlink, Ignores, LogInv, Reach, In, Done
    <3> QED
        BY <2>3, <3>4, <3>5 DEF Unlink
  <2>4. CASE Link(p)
    <3>0. /\ stage[p] = "link" /\ stage'[p] = "logged" /\ p \in dirs
          /\ UNCHANGED <<dirs, before>> /\ DOMAIN stage' = Procs
          /\ \A q \in Procs \ {p} : stage'[q] = stage[q]
          BY <2>4 DEF Link, LogInv, Reach, In
    <3>1. Ready' = Ready \cup {p} /\ p \notin Ready
          BY <3>0 DEF LogInv, Ready
    <3>2. CASE (latest' = p \/ (latest' = latest /\ latest # NoLink)) /\ UNCHANGED ignored
      <4>1. latest' # NoLink
            BY <3>2, HostAssumption
      <4> QED
          BY <3>0, <3>1, <3>2, <4>1 DEF LogInv, Done
    <3>3. CASE latest = NoLink /\ Ignores(p, "link") /\ UNCHANGED latest
      <4>1. Missed(p)'
        <5>1. \A q \in Ready \cup {p} : p \notin before[q]
              BY <3>0, <3>1 DEF LogInv, Ready
        <5> QED
            BY <3>0, <3>1, <3>3, <5>1 DEF Missed, Ignores
      <4>2. \A q \in Procs : <<q, "unlink">> \notin ignored' => <<q, "unlink">> \notin ignored
            BY <3>3 DEF Ignores
      <4> QED
          BY <3>0, <3>1, <3>3, <4>1, <4>2 DEF LogInv, Done
    <3> QED
        BY <2>4, <3>2, <3>3 DEF Link
  <2>5. CASE StartJob(p)
        BY <2>5, LogKept DEF StartJob, Reach, In, Done
  <2>6. CASE Output(p)
        BY <1>1, <2>6 DEF Output
  <2>7. CASE EndJob(p)
        BY <2>7, LogKept DEF EndJob, Reach, In, Done
  <2> QED
      BY <1>4, <2>1, <2>2, <2>3, <2>4, <2>5, <2>6, <2>7 DEF Step
<1> QED
    BY <1>1, <1>2, <1>3, <1>4 DEF Next, vars

\* README.md:189: the link does not dangle; it names a run that was ready before
\* another ready one began its directory only if that one's os.Remove failed; and
\* it is missing only on account of a process that is between the removal and the
\* making of it, or of a failed os.Symlink after which no new run has become ready.
THEOREM LatestIsRecent == Spec => []LatestTells
<1>1. LogInv => LatestTells
      BY DEF LogInv, LatestTells, Missed, Ready, Done
<1> QED
    BY InitLog, StepLog, <1>1, PTL DEF Spec

----------------------------------------------------------------------------
(* The scan of one secret: no position of a buffer that is in its order    *)
(* comes out of it twice, and of each occurrence one is gone.              *)

\* A property of numbers that has no first exception has none.
LEMMA Upwards ==
  ASSUME NEW Bad \in SUBSET Nat, 
         \A n \in Nat : (\A i \in 0..n - 1 : i \notin Bad) => n \notin Bad
  PROVE  Bad = {}
<1> DEFINE R == OpToRel(<, Nat)
<1>1. IsWellFoundedOn(R, Nat)
  BY NatLessThanWellFounded
<1>2. \A x, y \in Nat : x < y => <<x, y>> \in R
  BY DEF OpToRel
<1> HIDE DEF R
<1> SUFFICES ASSUME Bad # {} PROVE FALSE
  OBVIOUS
<1>3. PICK x \in Bad : \A y \in Bad : ~ (<<y, x>> \in R)
  BY <1>1, WFMin
<1>4. \A i \in 0..x - 1 : i \notin Bad
  <2> SUFFICES ASSUME NEW i \in 0..x - 1, i \in Bad PROVE FALSE
    OBVIOUS
  <2>1. x \in Nat /\ i \in Nat /\ i < x
    OBVIOUS
  <2> QED
    BY <1>2, <1>3, <2>1
<1> QED
  BY <1>4

\* Nor has one of the numbers up to n that has no last exception.
LEMMA Downwards ==
  ASSUME NEW n \in Nat, NEW Bad \in SUBSET (1..n),
         \A k \in 1..n : (\A i \in k + 1..n : i \notin Bad) => k \notin Bad
  PROVE  Bad = {}
<1> DEFINE Dab == {d \in Nat : n - d \in Bad}
<1>1. \A d \in Nat : (\A i \in 0..d - 1 : i \notin Dab) => d \notin Dab
  <2> SUFFICES ASSUME NEW d \in Nat, \A i \in 0..d - 1 : i \notin Dab, n - d \in Bad PROVE FALSE
    OBVIOUS
  <2>1. n - d \in 1..n
    OBVIOUS
  <2>2. ASSUME NEW i \in n - d + 1..n PROVE i \notin Bad
    <3>1. n - i \in 0..d - 1 /\ n - (n - i) = i
      BY <2>1
    <3> QED
      BY <3>1
  <2> QED
    BY <2>1, <2>2
<1>2. Dab = {}
  <2> HIDE DEF Dab
  <2> QED
  BY <1>1, Upwards DEF Dab
<1>3. ASSUME NEW k \in Bad PROVE FALSE
  <2>1. k \in 1..n
    OBVIOUS
  <2>2. n - k \in Nat /\ n - (n - k) = k
    BY <2>1
  <2>3. n - k \in Dab
    BY <2>2
  <2> QED
    BY <1>2, <2>3
<1> QED
  BY <1>3

\* f is what ReplacedAll computes, from each place of buf to its end.
Scans(f, output, buf, secret) ==
  /\ f \in [1..Len(buf) + 1 -> Seq(Nat)]
  /\ ReplacedAll(output, buf, secret) = f[1] /\ f[Len(buf) + 1] = <<>>
  /\ \A k \in 1..Len(buf) :
       f[k] = IF StartsAt(output, buf, k, secret) THEN <<Star>> \o f[k + Len(secret)]
              ELSE <<buf[k]>> \o f[k + 1]

\* The scan's recursion has a solution, and it is what ReplacedAll computes.
LEMMA ScanExists ==
  ASSUME NEW T, NEW output, NEW buf \in Seq(Nat), NEW secret \in Seq(T), secret # <<>>
  PROVE  \E f : Scans(f, output, buf, secret)
<1> DEFINE n == Len(buf)
           l == Len(secret)
           Hit(k) == StartsAt(output, buf, k, secret)
           Val(f, k) == IF Hit(k) THEN <<Star>> \o f[k + l] ELSE <<buf[k]>> \o f[k + 1]
           Solves(f, k) == /\ f \in [k..n + 1 -> Seq(Nat)] /\ f[n + 1] = <<>>
                           /\ \A i \in k..n : f[i] = Val(f, i)
           Bad == {k \in 1..n : ~ \E f : Solves(f, k)}
<1>1. n \in Nat /\ l \in Nat /\ l >= 1 /\ \A k \in 1..n : buf[k] \in Nat
  OBVIOUS
<1>2. \A k \in 1..n : Hit(k) => k + l <= n + 1
  <2>1. \A k \in 1..n : Hit(k) => k + l - 1 <= n
    BY DEF StartsAt
  <2> QED
    BY <1>1, <2>1
<1>3. Solves([i \in n + 1..n + 1 |-> <<>>], n + 1)
  BY <1>1
<1>4. ASSUME NEW k \in 1..n, \A i \in k + 1..n : i \notin Bad PROVE k \notin Bad
  <2>1. PICK f : Solves(f, k + 1)
    <3>1. CASE k = n
      BY <1>3, <3>1
    <3>2. CASE k # n
      <4>1. k + 1 \in k + 1..n /\ k + 1 \in 1..n
        BY <1>1, <3>2
      <4> QED
        BY <1>4, <4>1
    <3> QED
      BY <3>1, <3>2
  <2> DEFINE g == [i \in k..n + 1 |-> IF i = k THEN Val(f, k) ELSE f[i]]
  <2>2. Val(f, k) \in Seq(Nat)
    <3>1. CASE Hit(k)
      <4>1. k + l \in k + 1..n + 1
        BY <1>1, <1>2, <3>1
      <4>2. f[k + l] \in Seq(Nat)
        BY <2>1, <4>1
      <4> QED
        BY <3>1, <4>2 DEF Star
    <3>2. CASE ~Hit(k)
      <4>1. k + 1 \in k + 1..n + 1
        BY <1>1
      <4>2. f[k + 1] \in Seq(Nat) /\ buf[k] \in Nat
        BY <1>1, <2>1, <4>1
      <4> QED
        BY <3>2, <4>2
    <3> QED
      BY <3>1, <3>2
  <2> DEFINE v == Val(f, k)
  <2> HIDE DEF l, n, Hit, v
  <2>h. g = [i \in k..n + 1 |-> IF i = k THEN v ELSE f[i]]
    BY DEF v
  <2>v. v \in Seq(Nat) 
    BY <2>2 DEF v
  <2> HIDE DEF g
  <2>3. g \in [k..n + 1 -> Seq(Nat)] /\ g[n + 1] = <<>> /\ \A i \in k + 1..n + 1 : g[i] = f[i]
    BY <1>1, <2>1, <2>h, <2>v, SMTT(30)
  <2>4. ASSUME NEW i \in k..n PROVE g[i] = Val(g, i)
    <3>1. i + 1 \in k + 1..n + 1 /\ (Hit(i) => i + l \in k + 1..n + 1)
      BY <1>1, <1>2
    <3>2. g[i + 1] = f[i + 1] /\ (Hit(i) => g[i + l] = f[i + l])
      BY <2>3, <3>1
    <3>3. Val(g, i) = Val(f, i)
      BY <3>2
    <3>4. CASE i = k
      <4>1. g[i] = v
        BY <1>1, <2>h, <3>4
      <4>2. v = Val(f, i)
        BY <3>4 DEF v
      <4> QED
        BY <3>3, <4>1, <4>2
    <3>5. CASE i # k
      <4>1. i \in k + 1..n /\ i \in k + 1..n + 1
        BY <1>1, <3>5
      <4>2. f[i] = Val(f, i) /\ g[i] = f[i]
        BY <2>1, <2>3, <4>1
      <4> QED
        BY <3>3, <4>2
    <3> QED
      BY <3>4, <3>5
  <2>5. Solves(g, k)
    BY <2>3, <2>4
  <2> QED
    BY <2>5
<1>5. Bad = {}
  <2> HIDE DEF Bad, n
  <2>1. Bad \in SUBSET (1..n)
    BY DEF Bad
  <2> QED
    BY <1>1, <1>4, <2>1, Downwards
<1>6. PICK f : Solves(f, 1)
  <2>1. CASE n = 0
    <3>1. n + 1 = 1
      BY <2>1
    <3>2. \E f : Solves(f, n + 1)
      BY <1>3
    <3> HIDE DEF Solves
    <3> QED
      BY <3>1, <3>2
  <2>2. CASE n # 0
    <3>1. 1 \in 1..n
      BY <1>1, <2>2
    <3> HIDE DEF Solves, n
    <3> QED
      BY <1>5, <3>1
  <2> QED
    BY <2>1, <2>2
<1> DEFINE Eq(g) == g = [k \in 1..Len(buf) + 1 |->
                          IF k > Len(buf) THEN <<>>
                          ELSE IF StartsAt(output, buf, k, secret)
                               THEN <<Star>> \o g[k + Len(secret)]
                               ELSE <<buf[k]>> \o g[k + 1]]
           from == CHOOSE g : Eq(g)
<1>7. Eq(f)
  <2> DEFINE h == [k \in 1..Len(buf) + 1 |->
                          IF k > Len(buf) THEN <<>>
                          ELSE IF StartsAt(output, buf, k, secret)
                               THEN <<Star>> \o f[k + Len(secret)]
                               ELSE <<buf[k]>> \o f[k + 1]]
  <2>1. ASSUME NEW k \in 1..n + 1 PROVE f[k] = h[k]
    <3>1. CASE k = n + 1
      BY <1>1, <1>6, <3>1
    <3>2. CASE k # n + 1
      <4>1. k \in 1..n /\ ~(k > Len(buf))
        BY <1>1, <3>2
      <4> QED
        BY <1>6, <4>1
    <3> QED
      BY <3>1, <3>2
  <2> QED
    BY <1>6, <2>1
<1>8. Eq(from)
  BY <1>7
<1>9. ReplacedAll(output, buf, secret) = from[1]
  BY DEF ReplacedAll
<1> HIDE DEF from
<1>10. /\ from = [k \in 1..Len(buf) + 1 |-> from[k]]
       /\ \A k \in 1..Len(buf) + 1 : from[k] =
                          IF k > Len(buf) THEN <<>>
                          ELSE IF StartsAt(output, buf, k, secret)
                               THEN <<Star>> \o from[k + Len(secret)]
                               ELSE <<buf[k]>> \o from[k + 1]
  BY <1>8, Zenon
<1> DEFINE Off == {k \in 1..n : from[k] # f[k]}
<1>11. from[n + 1] = f[n + 1]
  <2>1. n + 1 \in 1..n + 1 /\ n + 1 > n
    BY <1>1
  <2>2. from[n + 1] = <<>>
    BY <1>10, <2>1
  <2> QED
    BY <1>6, <2>2
<1>12. ASSUME NEW k \in 1..n, \A i \in k + 1..n : i \notin Off PROVE k \notin Off
  <2>1. \A i \in k + 1..n + 1 : from[i] = f[i]
    BY <1>1, <1>11, <1>12, SMTT(30)
  <2>2. k \in 1..n + 1 /\ k + 1 \in k + 1..n + 1 /\ (Hit(k) => k + l \in k + 1..n + 1)
    BY <1>1, <1>2
  <2>3. from[k + 1] = f[k + 1] /\ (Hit(k) => from[k + l] = f[k + l])
    BY <2>1, <2>2
  <2>4. ~(k > n)
    BY <1>1
  <2> QED
    BY <1>6, <1>10, <2>2, <2>3, <2>4
<1>13. Off = {}
  <2>1. Off \in SUBSET (1..n)
    OBVIOUS
  <2> HIDE DEF Off, n
  <2> QED
    BY <1>1, <1>12, <2>1, Downwards
<1>14. from = f
  <2>1. ASSUME NEW k \in 1..n + 1 PROVE from[k] = f[k]
    BY <1>1, <1>11, <1>13
  <2> QED
    BY <1>6, <1>10, <2>1
<1> QED
  BY <1>6, <1>9, <1>14 DEF Scans

\* x is an item of t.
Holds(t, x) == \E a \in DOMAIN t : t[a] = x

\* Positions stand in their order, and there is no more room between two of them,
\* or after the last, than for what was written between them.
Ordered(t) ==
  \A a, b \in DOMAIN t : a < b /\ t[a] # Star /\ t[b] # Star => t[b] - t[a] >= b - a

EndsBy(t, fed) == \A a \in DOMAIN t : t[a] # Star => fed - t[a] >= Len(t) - a

\* What a scan has made of buf[k..].
Scanned(t, k, output, buf, secret, fed) ==
  /\ Len(t) <= Len(buf) + 1 - k /\ Ordered(t) /\ EndsBy(t, fed)
  /\ \A a \in DOMAIN t : t[a] # Star => \E m \in k..Len(buf) : buf[m] = t[a]
  /\ \A a \in DOMAIN t : \A m \in 1..k - 1 :
       t[a] # Star /\ buf[m] # Star => t[a] - buf[m] >= k - m + a - 1
  /\ \A m \in k..Len(buf) : StartsAt(output, buf, m, secret) =>
       \E i \in DOMAIN secret : ~Holds(t, buf[m + i - 1])

\* One item before a list.
LEMMA Prepended ==
  ASSUME NEW t \in Seq(Nat), NEW x \in Nat
  PROVE  /\ <<x>> \o t \in Seq(Nat) /\ Len(<<x>> \o t) = Len(t) + 1
         /\ (<<x>> \o t)[1] = x
         /\ \A a \in 2..Len(t) + 1 : a - 1 \in 1..Len(t) /\ (<<x>> \o t)[a] = t[a - 1]
         /\ \A y : Holds(<<x>> \o t, y) => y = x \/ Holds(t, y)
<1>1. /\ <<x>> \o t \in Seq(Nat) /\ Len(<<x>> \o t) = Len(t) + 1 /\ (<<x>> \o t)[1] = x
      /\ \A a \in 2..Len(t) + 1 : a - 1 \in 1..Len(t) /\ (<<x>> \o t)[a] = t[a - 1]
  OBVIOUS
<1> DEFINE u == <<x>> \o t
<1> HIDE DEF u
<1>2. ASSUME NEW y, Holds(u, y) PROVE y = x \/ Holds(t, y)
  <2>1. PICK a \in 1..Len(t) + 1 : u[a] = y
    BY <1>1, <1>2 DEF Holds, u
  <2>2. CASE a = 1
    BY <1>1, <2>1, <2>2 DEF u
  <2>3. CASE a # 1
    <3>1. a \in 2..Len(t) + 1
      BY <2>3
    <3>2. a - 1 \in DOMAIN t /\ t[a - 1] = y
      BY <1>1, <2>1, <3>1 DEF u
    <3> QED
      BY <3>2 DEF Holds
  <2> QED
    BY <2>2, <2>3
<1> QED
  BY <1>1, <1>2 DEF u

\* Arithmetic, for the steps in which terms hide it.
LEMMA EndsBehind ==
  ASSUME NEW a \in Nat \ {0}, NEW l \in Nat \ {0}, NEW b, b = a + l - 1 PROVE a <= b
OBVIOUS

LEMMA Meet == ASSUME NEW x \in Int, NEW y \in Int, x <= y, y <= x PROVE x = y
OBVIOUS

LEMMA Farther ==
  ASSUME NEW y \in Nat, NEW z \in Nat, NEW lo \in Int, NEW low \in Int, y - z >= lo, lo >= low
  PROVE  y - z >= low
OBVIOUS

\* What is common to a step that keeps an item and one that replaces some.
LEMMA ScanGrows ==
  ASSUME NEW output, NEW buf \in Seq(Nat), NEW secret, NEW fed \in Nat,
         Ordered(buf), EndsBy(buf, fed),
         NEW k \in 1..Len(buf), NEW x \in Nat, x = Star \/ x = buf[k],
         NEW h \in k + 1..Len(buf) + 1, NEW t \in Seq(Nat),
         Scanned(t, h, output, buf, secret, fed),
         \A m \in k..Len(buf) : StartsAt(output, buf, m, secret) =>
           \E i \in DOMAIN secret : ~Holds(<<x>> \o t, buf[m + i - 1])
  PROVE  Scanned(<<x>> \o t, k, output, buf, secret, fed)
<1> DEFINE u == <<x>> \o t
           n == Len(buf)
<1>1. /\ u \in Seq(Nat) /\ Len(u) = Len(t) + 1 /\ u[1] = x
      /\ \A a \in 2..Len(t) + 1 : a - 1 \in 1..Len(t) /\ u[a] = t[a - 1]
  BY Prepended
<1>2. n \in Nat /\ k \in Nat /\ h \in Nat /\ k < h /\ h <= n + 1 /\ Len(t) \in Nat /\ Len(t) <= n + 1 - h
  BY DEF Scanned
<1>3. \A a \in 1..Len(t) : t[a] \in Nat
  BY SMTT(30)
<1>4. \A m \in 1..n : buf[m] \in Nat
  OBVIOUS
<1>u. \A a \in 1..Len(t) + 1 : u[a] \in Nat
  BY <1>1, SMTT(30)
<1> HIDE DEF u, n
<1>5. DOMAIN u = 1..Len(t) + 1 /\ DOMAIN t = 1..Len(t)
  BY <1>1
<1>6. Len(u) <= n + 1 - k
  BY <1>1, <1>2
<1>7. Ordered(u)
  <2> SUFFICES ASSUME NEW a \in 1..Len(t) + 1, NEW b \in 1..Len(t) + 1, a < b,
                      u[a] # Star, u[b] # Star
               PROVE  u[b] - u[a] >= b - a
    BY <1>5 DEF Ordered
  <2>1. b \in 2..Len(t) + 1
    BY <1>2
  <2>2. b - 1 \in 1..Len(t) /\ u[b] = t[b - 1]
    BY <1>1, <2>1
  <2>3. CASE a = 1
    <3>0. u[a] = buf[k]
      BY <1>1, <2>3
    <3>1. u[a] = buf[k] /\ k \in 1..h - 1
      BY <1>2, <3>0
    <3>2. t[b - 1] - buf[k] >= h - k + (b - 1) - 1
      BY <1>5, <2>2, <3>1 DEF Scanned
    <3> QED
      <4>1. t[b - 1] \in Nat /\ buf[k] \in Nat
        BY <1>3, <1>4, <2>2 DEF n
      <4>2. h - k + (b - 1) - 1 >= b - 1
        BY <1>2, <2>1
      <4> DEFINE lo == h - k + (b - 1) - 1
                 wanted == b - a
      <4>3. lo \in Int /\ wanted \in Int /\ lo >= wanted
        BY <1>2, <2>3, <4>2
      <4>4. u[b] - u[a] >= lo
        BY <2>2, <3>1, <3>2
      <4>5. u[a] \in Nat /\ u[b] \in Nat
        BY <1>u
      <4> HIDE DEF lo, wanted
      <4>6. u[b] - u[a] >= wanted
        BY <4>3, <4>4, <4>5, Farther
      <4> QED
        BY <4>6 DEF wanted
  <2>4. CASE a # 1
    <3>1. a \in 2..Len(t) + 1
      BY <2>4
    <3>2. a - 1 \in 1..Len(t) /\ u[a] = t[a - 1]
      BY <1>1, <3>1
    <3>3. t[b - 1] - t[a - 1] >= (b - 1) - (a - 1)
      <4>1. Ordered(t)
        BY DEF Scanned
      <4>2. a - 1 < b - 1 /\ t[a - 1] # Star /\ t[b - 1] # Star
        BY <2>2, <3>2
      <4> QED
        BY <1>5, <2>2, <3>2, <4>1, <4>2 DEF Ordered
    <3>4. t[a - 1] \in Nat /\ t[b - 1] \in Nat
      BY <1>3, <2>2, <3>2
    <3> QED
      BY <2>2, <3>2, <3>3, <3>4
  <2> QED
    BY <2>3, <2>4
<1>8. EndsBy(u, fed)
  <2> SUFFICES ASSUME NEW a \in 1..Len(t) + 1, u[a] # Star
               PROVE  fed - u[a] >= Len(u) - a
    BY <1>5 DEF EndsBy
  <2>1. CASE a = 1
    <3>1. u[a] = buf[k] /\ fed - buf[k] >= n - k
      BY <1>1, <2>1, SMTT(30) DEF EndsBy, n
    <3> QED
      BY <1>1, <1>2, <1>4, <1>6, <2>1, <3>1, SMTT(30) DEF n
  <2>2. CASE a # 1
    <3>1. a \in 2..Len(t) + 1
      BY <2>2
    <3>2. a - 1 \in 1..Len(t) /\ u[a] = t[a - 1]
      BY <1>1, <3>1
    <3>3. fed - t[a - 1] >= Len(t) - (a - 1)
      BY <1>5, <3>2 DEF Scanned, EndsBy
    <3> QED
      BY <1>1, <1>2, <1>3, <3>2, <3>3
  <2> QED
    BY <2>1, <2>2
<1>9. ASSUME NEW a \in 1..Len(t) + 1, u[a] # Star
      PROVE  /\ \E m \in k..n : buf[m] = u[a]
             /\ \A m \in 1..k - 1 : buf[m] # Star => u[a] - buf[m] >= k - m + a - 1
  <2>1. CASE a = 1
    <3>1. u[a] = buf[k] /\ k \in k..n
      BY <1>1, <1>2, <1>9, <2>1, SMTT(30) DEF n
    <3>2. ASSUME NEW m \in 1..k - 1, buf[m] # Star PROVE buf[k] - buf[m] >= k - m
      <4>1. m \in DOMAIN buf /\ k \in DOMAIN buf /\ m < k
        OBVIOUS
      <4> QED
        BY <1>9, <3>1, <3>2, <4>1 DEF Ordered
    <3>3. \A m \in 1..k - 1 : k - m + a - 1 = k - m
      BY <1>2, <2>1
    <3> QED
      BY <3>1, <3>2, <3>3
  <2>2. CASE a # 1
    <3>1. a \in 2..Len(t) + 1
      BY <2>2
    <3>2. a - 1 \in 1..Len(t) /\ u[a] = t[a - 1]
      BY <1>1, <3>1
    <3>3. PICK m \in h..n : buf[m] = u[a]
      BY <1>5, <1>9, <3>2 DEF Scanned, n
    <3>4. m \in k..n
      BY <1>2
    <3>5. ASSUME NEW i \in 1..k - 1, buf[i] # Star PROVE u[a] - buf[i] >= k - i + a - 1
      <4>1. i \in 1..h - 1 /\ i \in 1..n
        BY <1>2 DEF n
      <4>2. t[a - 1] - buf[i] >= h - i + (a - 1) - 1
        BY <1>5, <1>9, <3>2, <3>5, <4>1 DEF Scanned
      <4>3. t[a - 1] \in Nat /\ buf[i] \in Nat
        BY <1>3, <1>4, <3>2, <4>1
      <4> QED
        <5>1. h - i + (a - 1) - 1 >= k - i + a - 1
          BY <1>2
        <5> DEFINE lo == h - i + (a - 1) - 1
                   wanted == k - i + a - 1
        <5>2. lo \in Int /\ wanted \in Int
          BY <1>2
        <5> HIDE DEF lo, wanted
        <5>3. u[a] - buf[i] >= lo /\ lo >= wanted
          BY <3>2, <4>2, <5>1 DEF lo, wanted
        <5>4. u[a] \in Nat /\ buf[i] \in Nat
          BY <1>u, <4>3
        <5>5. u[a] - buf[i] >= wanted
          BY <5>2, <5>3, <5>4, Farther
        <5> QED
          BY <5>5 DEF wanted
    <3> QED
      BY <3>3, <3>4, <3>5
  <2> QED
    BY <2>1, <2>2
<1> QED
  BY <1>5, <1>6, <1>7, <1>8, <1>9 DEF Scanned, u, n

\* Two places of an ordered buffer hold two positions.
LEMMA OrderedApart ==
  ASSUME NEW buf \in Seq(Nat), Ordered(buf), NEW a \in DOMAIN buf, NEW b \in DOMAIN buf,
         a < b, buf[a] # Star
  PROVE  buf[a] # buf[b]
<1> SUFFICES ASSUME buf[a] = buf[b] PROVE FALSE
  OBVIOUS
<1>1. buf[b] - buf[a] >= b - a
  BY DEF Ordered
<1>2. a \in Nat /\ b \in Nat /\ buf[a] \in Nat
  OBVIOUS
<1> QED
  BY <1>1, <1>2

\* What ReplacedAll leaves.
LEMMA ReplacedIsScanned ==
  ASSUME NEW T, NEW output, NEW buf \in Seq(Nat), NEW secret \in Seq(T), secret # <<>>,
         NEW fed \in Nat, Ordered(buf), EndsBy(buf, fed)
  PROVE  /\ ReplacedAll(output, buf, secret) \in Seq(Nat)
         /\ Scanned(ReplacedAll(output, buf, secret), 1, output, buf, secret, fed)
<1> DEFINE n == Len(buf)
           l == Len(secret)
           Hit(k) == StartsAt(output, buf, k, secret)
           Fine(t, k) == Scanned(t, k, output, buf, secret, fed)
<1>1. PICK f : Scans(f, output, buf, secret)
  BY ScanExists
<1> DEFINE Bad == {k \in 1..n : ~Fine(f[k], k)}
<1>2. n \in Nat /\ l \in Nat /\ l >= 1 /\ 1 \in DOMAIN secret /\ DOMAIN secret = 1..l
  OBVIOUS
<1>3. \A k \in 1..n + 1 : f[k] \in Seq(Nat)
  BY <1>1 DEF Scans
<1>4. Fine(f[n + 1], n + 1)
  <2>1. f[n + 1] = <<>>
    BY <1>1 DEF Scans
  <2>2. Fine(<<>>, n + 1)
    BY <1>2 DEF Scanned, Ordered, EndsBy
  <2> QED
    BY <2>1, <2>2
<1>5. \A m \in 1..n : Hit(m) =>
        m + l - 1 <= n /\ \A i \in DOMAIN secret : m + i - 1 \in m..n /\ buf[m + i - 1] # Star
  <2> SUFFICES ASSUME NEW m \in 1..n, Hit(m), NEW i \in DOMAIN secret
               PROVE  m + l - 1 <= n /\ m + i - 1 \in m..n /\ buf[m + i - 1] # Star
    BY <1>2 DEF StartsAt
  <2>1. m + l - 1 <= n /\ buf[m + i - 1] # Star
    BY DEF StartsAt
  <2> QED
    BY <1>2, <2>1, SMTT(30)
<1> HIDE DEF l, Hit
<1>6. ASSUME NEW k \in 1..n, \A i \in k + 1..n : i \notin Bad PROVE k \notin Bad
  <2>1. \A h \in k + 1..n + 1 : Fine(f[h], h)
    <3> SUFFICES ASSUME NEW h \in k + 1..n + 1 PROVE Fine(f[h], h)
      OBVIOUS
    <3>1. CASE h = n + 1
      BY <1>4, <3>1
    <3>2. CASE h # n + 1
      <4>1. h \in k + 1..n /\ h \in 1..n
        BY <1>2, <3>2
      <4> HIDE DEF Fine, n
      <4> QED
        BY <1>6, <4>1
    <3> QED
      BY <3>1, <3>2
  <2>2. CASE Hit(k)
    <3> DEFINE h == k + l
    <3>1. h \in k + 1..n + 1
      BY <1>2, <1>5, <2>2
    <3>2. f[k] = <<Star>> \o f[h]
      BY <1>1, <2>2 DEF Scans, Hit, l
    <3>3. Fine(f[h], h) /\ f[h] \in Seq(Nat)
      BY <1>2, <1>3, <2>1, <3>1
    <3> HIDE DEF h
    <3> DEFINE t == f[h]
    <3>4. \A y : Holds(<<Star>> \o t, y) => y = Star \/ Holds(t, y)
      BY <3>3, Prepended DEF Star
    <3>t. t \in Seq(Nat) /\ Scanned(t, h, output, buf, secret, fed) /\ f[k] = <<Star>> \o t
      BY <3>2, <3>3
    <3> HIDE DEF t
    <3>5. ASSUME NEW m \in k..n, Hit(m)
          PROVE  \E i \in DOMAIN secret : ~Holds(<<Star>> \o t, buf[m + i - 1])
      <4>0. m \in 1..n
        OBVIOUS
      <4>1. CASE m \in h..n
        <5>1. PICK i \in DOMAIN secret : ~Holds(t, buf[m + i - 1])
          BY <3>t, <3>5, <4>1 DEF Scanned, Hit
        <5>2. buf[m + i - 1] # Star
          BY <1>5, <3>5, <4>0
        <5> QED
          BY <3>4, <5>1, <5>2
      <4>2. CASE m \notin h..n
        <5>1. m < h
          BY <3>1, <4>2
        <5>2. m + 1 - 1 = m /\ buf[m] # Star
          <6>1. m + 1 - 1 = m
            BY <4>0
          <6>2. buf[m + 1 - 1] # Star
            BY <1>2, <1>5, <3>5, <4>0
          <6> QED
            BY <6>1, <6>2
        <5>3. ASSUME Holds(t, buf[m]) PROVE FALSE
          <6>1. PICK a \in DOMAIN t : t[a] = buf[m]
            BY <5>3 DEF Holds
          <6>2. PICK q \in h..n : buf[q] = buf[m]
            BY <3>t, <5>2, <6>1 DEF Scanned
          <6>3. q \in DOMAIN buf /\ m \in DOMAIN buf /\ m < q
            BY <3>1, <5>1
          <6> QED
            BY <5>2, <6>2, <6>3, OrderedApart
        <5> QED
          BY <1>2, <3>4, <5>2, <5>3
      <4> QED
        BY <4>1, <4>2
    <3>6. Star \in Nat /\ h \in k + 1..Len(buf) + 1
      BY <3>1 DEF Star
    <3>7. Scanned(<<Star>> \o t, k, output, buf, secret, fed)
      BY <3>t, <3>5, <3>6, ScanGrows DEF Hit
    <3> QED
      BY <3>t, <3>7
  <2>3. CASE ~Hit(k)
    <3> DEFINE t == f[k + 1]
               x == buf[k]
    <3>1. k + 1 \in k + 1..n + 1 /\ k + 1 \in 1..n + 1
      BY <1>2
    <3>t. t \in Seq(Nat) /\ Scanned(t, k + 1, output, buf, secret, fed) /\ f[k] = <<x>> \o t
      BY <1>1, <1>3, <2>1, <2>3, <3>1 DEF Scans, Hit
    <3>2. x \in Nat /\ x = buf[k]
      OBVIOUS
    <3> HIDE DEF t, x
    <3>4. \A y : Holds(<<x>> \o t, y) => y = x \/ Holds(t, y)
      BY <3>t, <3>2, Prepended
    <3>5. ASSUME NEW m \in k..n, Hit(m)
          PROVE  \E i \in DOMAIN secret : ~Holds(<<x>> \o t, buf[m + i - 1])
      <4>0. m \in 1..n /\ m \in k + 1..n
        BY <2>3, <3>5
      <4>1. PICK i \in DOMAIN secret : ~Holds(t, buf[m + i - 1])
        BY <3>t, <3>5, <4>0 DEF Scanned, Hit
      <4> DEFINE q == m + i - 1
      <4>2. buf[q] # Star /\ q \in m..n
        BY <1>5, <3>5, <4>0
      <4>3. q \in DOMAIN buf /\ k \in DOMAIN buf /\ k < q
        BY <4>0, <4>2
      <4>4. buf[q] # x
        <5> HIDE DEF q
        <5> SUFFICES ASSUME buf[k] = buf[q] PROVE FALSE
          BY <3>2
        <5> QED
          BY <4>2, <4>3, OrderedApart
      <4> QED
        BY <3>4, <4>1, <4>4
    <3>6. Scanned(<<x>> \o t, k, output, buf, secret, fed)
      BY <3>t, <3>1, <3>2, <3>5, ScanGrows DEF Hit
    <3> QED
      BY <3>t, <3>6
  <2> QED
    BY <2>2, <2>3
<1>7. Bad = {}
  <2>1. Bad \in SUBSET (1..n)
    OBVIOUS
  <2> HIDE DEF Bad, n
  <2> QED
    BY <1>2, <1>6, <2>1, Downwards
<1>8. Fine(f[1], 1) /\ f[1] \in Seq(Nat)
  <2>1. 1 \in 1..n + 1
    BY <1>2
  <2>2. CASE n = 0
    <3>1. n + 1 = 1
      BY <2>2
    <3> HIDE DEF Fine, n
    <3> QED
      BY <1>3, <1>4, <2>1, <3>1
  <2>3. CASE n # 0
    <3>1. 1 \in 1..n
      BY <1>2, <2>3
    <3> HIDE DEF Fine, n
    <3> QED
      BY <1>3, <1>7, <2>1, <3>1
  <2> QED
    BY <2>2, <2>3
<1> QED
  BY <1>1, <1>8 DEF Scans

----------------------------------------------------------------------------
(* Replacing all secrets, and what is held back.                           *)

\* What follows each other in the output and is all in an ordered buffer does so there.
LEMMA Contiguous ==
  ASSUME NEW t \in Seq(Nat), Ordered(t), NEW i \in Nat \ {0}, NEW l \in Nat \ {0},
         \A d \in 0..l - 1 : Holds(t, i + d)
  PROVE  \E m \in 1..Len(t) : m + l - 1 <= Len(t) /\ \A d \in 0..l - 1 : t[m + d] = i + d
<1>1. PICK m \in 1..Len(t) : t[m] = i
  <2>1. 0 \in 0..l - 1 /\ i + 0 = i
    OBVIOUS
  <2>2. Holds(t, i)
    BY <2>1
  <2> QED
    BY <2>2 DEF Holds
<1> DEFINE There(d) == m + d \in 1..Len(t) /\ t[m + d] = i + d
           Bad == {d \in Nat : d \in 0..l - 1 /\ ~There(d)}
<1>2. ASSUME NEW d \in Nat, \A e \in 0..d - 1 : e \notin Bad PROVE d \notin Bad
  <2> SUFFICES ASSUME d \in 0..l - 1 PROVE There(d)
    OBVIOUS
  <2>1. CASE d = 0
    <3>1. m + d = m /\ i + d = i
      BY <2>1
    <3> QED
      BY <1>1, <3>1
  <2>2. CASE d # 0
    <3> DEFINE e == d - 1
               a == m + e
    <3>1. e \in 0..d - 1 /\ e \in 0..l - 1 /\ e \in Nat
      BY <2>2
    <3>2. There(e)
      BY <1>2, <3>1
    <3>3. a \in 1..Len(t) /\ t[a] = i + e /\ m + d = a + 1 /\ i + d = i + e + 1
      BY <3>1, <3>2
    <3>4. PICK b \in 1..Len(t) : t[b] = i + d
      <4>1. Holds(t, i + d)
        OBVIOUS
      <4> QED
        BY <4>1 DEF Holds
    <3> HIDE DEF a, e
    <3>5. t[a] # Star /\ t[b] # Star /\ a \in DOMAIN t /\ b \in DOMAIN t
      BY <3>1, <3>3, <3>4 DEF Star
    <3>6. CASE a < b
      <4>1. t[b] - t[a] >= b - a
        BY <3>5, <3>6 DEF Ordered
      <4>2. i + d - (i + e) >= b - a
        BY <3>3, <3>4, <4>1
      <4>3. b = a + 1
        BY <3>1, <3>3, <3>6, <4>2
      <4> QED
        BY <3>3, <3>4, <4>3
    <3>7. CASE b < a
      <4>1. t[a] - t[b] >= a - b
        BY <3>5, <3>7 DEF Ordered
      <4>2. t[a] = i + e /\ t[b] = i + d /\ t[a] \in Nat /\ t[b] \in Nat
        BY <3>3, <3>4
      <4>3. t[a] < t[b]
        BY <3>1, <3>3, <4>2
      <4> QED
        BY <3>3, <3>4, <3>7, <4>1, <4>2, <4>3
    <3>8. a # b
      BY <3>1, <3>3, <3>4
    <3> QED
      BY <3>3, <3>6, <3>7, <3>8
  <2> QED
    BY <2>1, <2>2
<1>3. Bad = {}
  <2>1. Bad \in SUBSET Nat
    OBVIOUS
  <2> HIDE DEF Bad
  <2> QED
    BY <1>2, <2>1, Upwards
<1>4. \A d \in 0..l - 1 : There(d)
  <2> SUFFICES ASSUME NEW d \in 0..l - 1, ~There(d) PROVE FALSE
    OBVIOUS
  <2>1. d \in Bad
    OBVIOUS
  <2> QED
    BY <1>3, <2>1
<1>5. l - 1 \in 0..l - 1 /\ m + (l - 1) = m + l - 1
  OBVIOUS
<1>6. m + l - 1 <= Len(t)
  BY <1>4, <1>5
<1> QED
  BY <1>4, <1>6

\* secret stands in output at i.
Spells(output, i, secret) == \A d \in DOMAIN secret : output[i + d - 1] = secret[d]

\* Not all of it is in t.
Torn(t, i, secret) == \E d \in DOMAIN secret : ~Holds(t, i + d - 1)

\* What replacing one secret leaves of it.
LEMMA ReplacedAllTears ==
  ASSUME NEW T, NEW output, NEW buf \in Seq(Nat), NEW secret \in Seq(T), secret # <<>>,
         NEW fed \in Nat, Ordered(buf), EndsBy(buf, fed)
  PROVE  LET t == ReplacedAll(output, buf, secret)
         IN  /\ t \in Seq(Nat) /\ Ordered(t) /\ EndsBy(t, fed)
             /\ \A y : y # Star /\ Holds(t, y) => Holds(buf, y)
             /\ \A i \in Nat \ {0} : Spells(output, i, secret) => Torn(t, i, secret)
<1> DEFINE t == ReplacedAll(output, buf, secret)
<1>1. t \in Seq(Nat) /\ Scanned(t, 1, output, buf, secret, fed)
  BY ReplacedIsScanned
<1> HIDE DEF t
<1>2. \A y : y # Star /\ Holds(t, y) => Holds(buf, y)
  <2> SUFFICES ASSUME NEW y, y # Star, Holds(t, y) PROVE Holds(buf, y)
    OBVIOUS
  <2>1. PICK a \in DOMAIN t : t[a] = y
    BY DEF Holds
  <2>2. PICK m \in 1..Len(buf) : buf[m] = y
    BY <1>1, <2>1 DEF Scanned
  <2> QED
    BY <2>2 DEF Holds
<1>3. ASSUME NEW i \in Nat \ {0}, Spells(output, i, secret) PROVE Torn(t, i, secret)
  <2> SUFFICES ASSUME ~Torn(t, i, secret) PROVE FALSE
    OBVIOUS
  <2> DEFINE l == Len(secret)
  <2>1. l \in Nat \ {0} /\ DOMAIN secret = 1..l
    OBVIOUS
  <2>2. ASSUME NEW d \in 0..l - 1 PROVE Holds(buf, i + d)
    <3>1. d + 1 \in DOMAIN secret /\ i + (d + 1) - 1 = i + d /\ i + d # Star
      BY <2>1 DEF Star
    <3>2. Holds(t, i + d)
      BY <3>1 DEF Torn
    <3> QED
      BY <1>2, <3>1, <3>2
  <2> HIDE DEF l
  <2>3. PICK m \in 1..Len(buf) : m + l - 1 <= Len(buf) /\ \A d \in 0..l - 1 : buf[m + d] = i + d
    BY <2>1, <2>2, Contiguous
  <2>4. ASSUME NEW d \in DOMAIN secret
        PROVE  buf[m + d - 1] = i + d - 1 /\ i + d - 1 # Star /\ Holds(t, i + d - 1)
    <3>1. d - 1 \in 0..l - 1 /\ m + (d - 1) = m + d - 1 /\ i + (d - 1) = i + d - 1
      BY <2>1
    <3>2. i + d - 1 # Star
      BY <2>1 DEF Star
    <3> QED
      BY <2>3, <3>1, <3>2 DEF Torn
  <2>5. StartsAt(output, buf, m, secret)
    BY <1>3, <2>3, <2>4 DEF StartsAt, Spells, l
  <2>6. PICK d \in DOMAIN secret : ~Holds(t, buf[m + d - 1])
    BY <1>1, <2>5 DEF Scanned
  <2> QED
    BY <2>4, <2>6
<1> QED
  BY <1>1, <1>2, <1>3 DEF t, Scanned

\* f are the passes of replace over buf.
Passing(f, output, buf, secrets) ==
  /\ f[0] = buf /\ \A i \in 1..Len(secrets) : f[i] = ReplacedAll(output, f[i - 1], secrets[i])
  /\ Replaced(output, buf, secrets) = f[Len(secrets)]

\* Replaced is a sequence of passes.
LEMMA Passes ==
  ASSUME NEW output, NEW buf, NEW secrets, Len(secrets) \in Nat
  PROVE  \E f : Passing(f, output, buf, secrets)
<1> DEFINE n == Len(secrets)
           Eq(g) == g = [i \in 0..n |-> IF i = 0 THEN buf ELSE ReplacedAll(output, g[i - 1], secrets[i])]
           after == CHOOSE g : Eq(g)
           Solves(f, m) == /\ f = [i \in 0..m |-> f[i]] /\ f[0] = buf
                           /\ \A i \in 1..m : f[i] = ReplacedAll(output, f[i - 1], secrets[i])
           Bad == {m \in Nat : ~ \E f : Solves(f, m)}
<1>1. Replaced(output, buf, secrets) = after[n]
  BY DEF Replaced
<1>2. ASSUME NEW m \in Nat, \A i \in 0..m - 1 : i \notin Bad PROVE m \notin Bad
  <2>1. CASE m = 0
    <3>1. Solves([i \in 0..0 |-> buf], 0)
      OBVIOUS
    <3> QED
      BY <2>1, <3>1
  <2>2. CASE m # 0
    <3>1. m - 1 \in 0..m - 1 /\ m - 1 \in Nat
      BY <2>2
    <3>2. PICK f : Solves(f, m - 1)
      BY <1>2, <3>1
    <3> DEFINE v == ReplacedAll(output, f[m - 1], secrets[m])
               g == [i \in 0..m |-> IF i = m THEN v ELSE f[i]]
    <3> HIDE DEF v
    <3>3. g = [i \in 0..m |-> g[i]] /\ g[m] = v /\ \A i \in 0..m - 1 : g[i] = f[i]
      OBVIOUS
    <3> HIDE DEF g
    <3>4. g[0] = buf
      <4>1. 0 \in 0..m - 1
        BY <3>1
      <4> QED
        BY <3>2, <3>3, <4>1
    <3>5. ASSUME NEW i \in 1..m PROVE g[i] = ReplacedAll(output, g[i - 1], secrets[i])
      <4>0. i - 1 \in 0..m - 1
        OBVIOUS
      <4>1. i - 1 \in 0..m - 1 /\ g[i - 1] = f[i - 1]
        BY <3>3, <4>0
      <4>2. CASE i = m
        BY <3>3, <4>1, <4>2 DEF v
      <4>3. CASE i # m
        <5>1. i \in 1..m - 1 /\ i \in 0..m - 1
          BY <4>3
        <5> QED
          BY <3>2, <3>3, <4>1, <5>1
      <4> QED
        BY <4>2, <4>3
    <3>6. Solves(g, m)
      BY <3>3, <3>4, <3>5
    <3> QED
      BY <3>6
  <2> QED
    BY <2>1, <2>2
<1>3. n \in Nat
  OBVIOUS
<1>4. PICK f : Solves(f, n)
  <2>1. Bad \in SUBSET Nat
    OBVIOUS
  <2>2. Bad = {}
    <3> HIDE DEF Bad
    <3> QED
      BY <1>2, <2>1, Upwards
  <2> HIDE DEF Solves, n
  <2> QED
    BY <1>3, <2>2
<1>5. Eq(f)
  <2> DEFINE h == [i \in 0..n |-> IF i = 0 THEN buf ELSE ReplacedAll(output, f[i - 1], secrets[i])]
  <2>1. ASSUME NEW i \in 0..n PROVE f[i] = h[i]
    <3>1. CASE i = 0
      BY <1>4, <3>1
    <3>2. CASE i # 0
      <4>1. i \in 1..n
        BY <3>2
      <4> QED
        BY <1>4, <3>2, <4>1
    <3> QED
      BY <3>1, <3>2
  <2> HIDE DEF n
  <2>2. f = [i \in 0..n |-> f[i]] /\ h = [i \in 0..n |-> h[i]]
    BY <1>4
  <2> HIDE DEF h
  <2>3. f = h
    BY <2>1, <2>2
  <2> QED
    BY <2>3 DEF h
<1>6. Eq(after)
  BY <1>5
<1> HIDE DEF after
<1>7. \A i \in 0..n : after[i] = IF i = 0 THEN buf ELSE ReplacedAll(output, after[i - 1], secrets[i])
  BY <1>6, Zenon
<1>8. after[0] = buf
  <2>1. 0 \in 0..n
    BY <1>3
  <2> QED
    BY <1>7, <2>1
<1>9. \A i \in 1..n : after[i] = ReplacedAll(output, after[i - 1], secrets[i])
  <2> SUFFICES ASSUME NEW i \in 1..n PROVE after[i] = ReplacedAll(output, after[i - 1], secrets[i])
    OBVIOUS
  <2>1. i \in 0..n /\ i # 0
    BY <1>3
  <2> QED
    BY <1>7, <2>1
<1>10. Passing(after, output, buf, secrets)
  BY <1>1, <1>8, <1>9 DEF Passing
<1> QED
  BY <1>10

\* What replacing all secrets, one after another, leaves of each of them.
LEMMA ReplacedTears ==
  ASSUME NEW T, NEW output, NEW buf \in Seq(Nat), NEW secrets \in Seq(Seq(T)),
         \A j \in DOMAIN secrets : secrets[j] # <<>>,
         NEW fed \in Nat, Ordered(buf), EndsBy(buf, fed)
  PROVE  LET t == Replaced(output, buf, secrets)
         IN  /\ t \in Seq(Nat) /\ Ordered(t) /\ EndsBy(t, fed)
             /\ \A y : y # Star /\ Holds(t, y) => Holds(buf, y)
             /\ \A j \in DOMAIN secrets : \A i \in Nat \ {0} :
                  Spells(output, i, secrets[j]) => Torn(t, i, secrets[j])
<1> DEFINE n == Len(secrets)
<1>1. n \in Nat /\ \A i \in 1..n : secrets[i] \in Seq(T) /\ secrets[i] # <<>>
  OBVIOUS
<1>2. PICK after : Passing(after, output, buf, secrets)
  BY <1>1, Passes
<1>3. Replaced(output, buf, secrets) = after[n]
  BY <1>2 DEF Passing
<1>4. after[0] = buf /\ \A i \in 1..n : after[i] = ReplacedAll(output, after[i - 1], secrets[i])
  BY <1>2 DEF Passing
<1> DEFINE Fine(t, k) ==
             /\ t \in Seq(Nat) /\ Ordered(t) /\ EndsBy(t, fed)
             /\ \A y : y # Star /\ Holds(t, y) => Holds(buf, y)
             /\ \A j \in 1..k : \A i \in Nat \ {0} :
                  Spells(output, i, secrets[j]) => Torn(t, i, secrets[j])
           Unfit == {k \in Nat : k \in 0..n /\ ~Fine(after[k], k)}
<1>5. ASSUME NEW k \in Nat, \A i \in 0..k - 1 : i \notin Unfit PROVE k \notin Unfit
  <2> SUFFICES ASSUME k \in 0..n PROVE Fine(after[k], k)
    OBVIOUS
  <2>1. CASE k = 0
    <3>1. after[k] = buf
      BY <1>4, <2>1
    <3>2. Fine(buf, 0)
      OBVIOUS
    <3> QED
      BY <2>1, <3>1, <3>2
  <2>2. CASE k # 0
    <3> DEFINE s == after[k - 1]
               t == ReplacedAll(output, s, secrets[k])
    <3>1. k \in 1..n /\ k - 1 \in 0..n /\ k - 1 \in Nat /\ k - 1 \in 0..k - 1
      BY <1>1, <2>2
    <3>2. Fine(s, k - 1)
      BY <1>5, <3>1
    <3>3. after[k] = t
      BY <1>4, <2>2
    <3>4. secrets[k] \in Seq(T) /\ secrets[k] # <<>>
      BY <1>1, <3>1
    <3> HIDE DEF s, n
    <3>5. /\ t \in Seq(Nat) /\ Ordered(t) /\ EndsBy(t, fed)
          /\ \A y : y # Star /\ Holds(t, y) => Holds(s, y)
          /\ \A i \in Nat \ {0} : Spells(output, i, secrets[k]) => Torn(t, i, secrets[k])
      <4> DEFINE secret == secrets[k]
      <4>1. s \in Seq(Nat) /\ Ordered(s) /\ EndsBy(s, fed) /\ secret \in Seq(T) /\ secret # <<>>
        BY <3>2, <3>4
      <4> HIDE DEF secret
      <4>2. LET u == ReplacedAll(output, s, secret)
            IN  /\ u \in Seq(Nat) /\ Ordered(u) /\ EndsBy(u, fed)
                /\ \A y : y # Star /\ Holds(u, y) => Holds(s, y)
                /\ \A i \in Nat \ {0} : Spells(output, i, secret) => Torn(u, i, secret)
        BY <4>1, ReplacedAllTears
      <4> QED
        BY <4>2 DEF secret
    <3> HIDE DEF t
    <3>6. ASSUME NEW j \in 1..k, NEW i \in Nat \ {0}, Spells(output, i, secrets[j])
          PROVE  Torn(t, i, secrets[j])
      <4>1. CASE j = k
        BY <3>5, <3>6, <4>1
      <4>2. CASE j # k
        <5>1. j \in 1..k - 1
          BY <4>2
        <5>2. Torn(s, i, secrets[j])
          BY <3>2, <3>6, <5>1
        <5>3. PICK d \in DOMAIN secrets[j] : ~Holds(s, i + d - 1)
          BY <5>2 DEF Torn
        <5>4. i + d - 1 # Star
          <6>1. j \in 1..n
            BY <1>1, <3>1
          <6>2. d \in Nat \ {0}
            BY <1>1, <6>1
          <6> QED
            BY <6>2 DEF Star
        <5>5. ~Holds(t, i + d - 1)
          BY <3>5, <5>3, <5>4
        <5> QED
          BY <5>5 DEF Torn
      <4> QED
        BY <4>1, <4>2
    <3> QED
      BY <3>2, <3>3, <3>5, <3>6
  <2> QED
    BY <2>1, <2>2
<1>6. Unfit = {}
  <2>1. Unfit \in SUBSET Nat
    OBVIOUS
  <2> HIDE DEF Unfit
  <2> QED
    BY <1>5, <2>1, Upwards
<1>7. Fine(after[n], n)
  <2>1. n \in 0..n
    BY <1>1
  <2> HIDE DEF Fine, n
  <2> QED
    BY <1>1, <1>6, <2>1
<1> QED
  BY <1>3, <1>7, SMTT(30)

\* A non-empty set of numbers up to n has a greatest.
LEMMA Greatest ==
  ASSUME NEW n \in Nat, NEW H \in SUBSET (1..n), H # {}
  PROVE  \E l \in H : \A m \in H : m <= l
<1> SUFFICES ASSUME ~ \E l \in H : \A m \in H : m <= l PROVE FALSE
  OBVIOUS
<1>1. ASSUME NEW k \in 1..n, \A i \in k + 1..n : i \notin H PROVE k \notin H
  <2> SUFFICES ASSUME k \in H PROVE \A m \in H : m <= k
    OBVIOUS
  <2> SUFFICES ASSUME NEW m \in H, m > k PROVE FALSE
    OBVIOUS
  <2>1. m \in k + 1..n
    OBVIOUS
  <2> QED
    BY <1>1, <2>1
<1> QED
  BY <1>1, Downwards

\* holdLen holds back an end of buf that begins a secret.
LEMMA HoldsBack ==
  ASSUME NEW T, NEW output, NEW buf \in Seq(Nat), NEW secrets \in Seq(Seq(T))
  PROVE  /\ HoldLen(output, buf, secrets) \in 0..Len(buf)
         /\ \A j \in DOMAIN secrets : \A l \in 1..Len(buf) :
              /\ l \in ProperPrefixes(secrets[j])
              /\ StartsAt(output, buf, Len(buf) - l + 1, SubSeq(secrets[j], 1, l))
              => l <= HoldLen(output, buf, secrets)
<1> DEFINE begins(l) == \E i \in DOMAIN secrets :
                          /\ l \in ProperPrefixes(secrets[i])
                          /\ StartsAt(output, buf, Len(buf) - l + 1, SubSeq(secrets[i], 1, l))
           held == {l \in 1..Len(buf) : begins(l)}
           size == IF held = {} THEN 0 ELSE CHOOSE l \in held : \A m \in held : m <= l
<1>1. HoldLen(output, buf, secrets) = size
  BY Zenon DEF HoldLen
<1>2. \A l \in 1..Len(buf) : begins(l) => l \in held
  OBVIOUS
<1>3. held \in SUBSET (1..Len(buf)) /\ Len(buf) \in Nat
  OBVIOUS
<1>4. size \in 0..Len(buf) /\ \A l \in held : l <= size
  <2> HIDE DEF held
  <2>1. CASE held = {}
    BY <1>3, <2>1
  <2>2. CASE held # {}
    <3>1. \E l \in held : \A m \in held : m <= l
      BY <1>3, <2>2, Greatest
    <3>2. size \in held /\ \A m \in held : m <= size
      BY <2>2, <3>1
    <3> HIDE DEF size
    <3> QED
      BY <1>3, <3>2
  <2> QED
    BY <2>1, <2>2
<1> HIDE DEF held, size
<1> QED
  BY <1>1, <1>2, <1>4

----------------------------------------------------------------------------
(* The writer.                                                             *)

\* What was written comes to stand behind what was held back.
LEMMA Appended ==
  ASSUME NEW buf \in Seq(Nat), NEW fed \in Nat, NEW n \in Nat, Ordered(buf), EndsBy(buf, fed),
         \A y : Holds(buf, y) => y <= fed
  PROVE  LET t == buf \o [i \in 1..n |-> fed + i]
         IN  /\ t \in Seq(Nat) /\ Ordered(t) /\ EndsBy(t, fed + n)
             /\ \A y : Holds(t, y) => Holds(buf, y) \/ y \in fed + 1..fed + n
             /\ \A y : Holds(t, y) => y <= fed + n
<1> DEFINE e == [i \in 1..n |-> fed + i]
           t == buf \o e
           b == Len(buf)
<1>1. e \in Seq(Nat) /\ Len(e) = n
  OBVIOUS
<1>2. \A i \in 1..n : e[i] = fed + i
  OBVIOUS
<1>3. b \in Nat /\ \A a \in 1..b : buf[a] \in Nat
  OBVIOUS
<1> HIDE DEF e
<1>4. /\ t \in Seq(Nat) /\ DOMAIN t = 1..b + n /\ Len(t) = b + n
      /\ \A a \in 1..b : t[a] = buf[a]
  BY <1>1
<1>5. ASSUME NEW a \in b + 1..b + n PROVE t[a] = fed + (a - b)
  <2>1. a - b \in 1..n /\ a \in 1..b + n /\ ~(a <= b)
    BY <1>1, <1>3
  <2>2. t[a] = e[a - b]
    BY <1>1, <2>1
  <2> QED
    BY <1>2, <2>1, <2>2
<1> HIDE DEF t, b
<1>6. Ordered(t)
  <2> SUFFICES ASSUME NEW p \in 1..b + n, NEW q \in 1..b + n, p < q, t[p] # Star, t[q] # Star
               PROVE  t[q] - t[p] >= q - p
    BY <1>4 DEF Ordered
  <2>1. CASE q <= b
    <3>1. p \in 1..b /\ q \in 1..b
      BY <1>3, <2>1
    <3>0. p \in DOMAIN buf /\ q \in DOMAIN buf
      BY <3>1 DEF b
    <3>1a. buf[p] # Star /\ buf[q] # Star
      BY <1>4, <3>1
    <3>2. buf[q] - buf[p] >= q - p
      BY <3>0, <3>1a DEF Ordered
    <3> QED
      BY <1>4, <3>1, <3>2
  <2>2. CASE p <= b /\ q > b
    <3>1. p \in 1..b /\ q \in b + 1..b + n
      BY <1>3, <2>2
    <3>2. t[p] = buf[p] /\ fed - buf[p] >= b - p /\ buf[p] \in Nat
      BY <1>3, <1>4, <3>1, SMTT(30) DEF EndsBy, b
    <3>3. t[q] = fed + (q - b)
      BY <1>5, <3>1
    <3> QED
      BY <1>3, <3>1, <3>2, <3>3
  <2>3. CASE p > b
    <3>1. p \in b + 1..b + n /\ q \in b + 1..b + n
      BY <1>3, <2>3
    <3>2. t[p] = fed + (p - b) /\ t[q] = fed + (q - b)
      BY <1>5, <3>1
    <3> QED
      BY <1>3, <3>1, <3>2
  <2> QED
    BY <1>3, <2>1, <2>2, <2>3
<1>7. EndsBy(t, fed + n)
  <2> SUFFICES ASSUME NEW p \in 1..b + n, t[p] # Star PROVE fed + n - t[p] >= Len(t) - p
    BY <1>4 DEF EndsBy
  <2>0. Len(t) = b + n
    BY <1>4
  <2>1. CASE p <= b
    <3>1. p \in 1..b
      BY <1>3, <2>1
    <3>2. t[p] = buf[p] /\ fed - buf[p] >= b - p /\ buf[p] \in Nat
      BY <1>3, <1>4, <3>1 DEF EndsBy, b
    <3> QED
      BY <1>3, <2>0, <3>2
  <2>2. CASE p > b
    <3>1. p \in b + 1..b + n
      BY <1>3, <2>2
    <3>2. t[p] = fed + (p - b)
      BY <1>5, <3>1
    <3> QED
      BY <1>3, <2>0, <3>1, <3>2
  <2> QED
    BY <1>3, <2>1, <2>2
<1>8. ASSUME NEW y, Holds(t, y)
      PROVE  (Holds(buf, y) \/ y \in fed + 1..fed + n) /\ y <= fed + n
  <2>1. PICK a \in 1..b + n : t[a] = y
    BY <1>4, <1>8 DEF Holds
  <2>2. CASE a <= b
    <3>1. a \in 1..b
      BY <1>3, <2>2
    <3>0. buf[a] = y /\ y \in Nat /\ a \in DOMAIN buf
      BY <1>3, <1>4, <2>1, <3>1 DEF b
    <3>2. Holds(buf, y) /\ y \in Nat
      BY <3>0 DEF Holds
    <3>3. y <= fed
      BY <3>2
    <3> QED
      BY <3>2, <3>3
  <2>3. CASE a > b
    <3>1. a \in b + 1..b + n
      BY <1>3, <2>3
    <3>2. y = fed + (a - b)
      BY <1>5, <2>1, <3>1
    <3> QED
      BY <1>3, <3>1, <3>2
  <2> QED
    BY <1>3, <2>2, <2>3
<1> QED
  BY <1>4, <1>6, <1>7, <1>8 DEF t, e

\* Symbols l of a secret have been written, from i on.
Begun(output, i, secret, l) == \A d \in 1..l : output[i + d - 1] = secret[d]

\* What a writer has let through and what it holds back, of fed symbols:
\* of every complete secret, something is gone for good; what may become one is
\* either torn already or held back in full; nothing is let through twice.
Safe(output, secrets, fed, buf, shown) ==
  /\ Ordered(buf) /\ EndsBy(buf, fed)
  /\ \A y : Holds(buf, y) => y <= fed
  /\ \A y : Holds(shown, y) => y <= fed
  /\ \A y : y # Star /\ Holds(shown, y) => ~Holds(buf, y)
  /\ \A j \in DOMAIN secrets : \A i \in Nat \ {0} :
       Spells(output, i, secrets[j]) /\ i + Len(secrets[j]) - 1 <= fed =>
         \E d \in DOMAIN secrets[j] : ~Holds(shown, i + d - 1) /\ ~Holds(buf, i + d - 1)
  /\ \A j \in DOMAIN secrets : \A l \in 1..Len(secrets[j]) - 1 : \A i \in Nat \ {0} :
       i + l - 1 = fed /\ Begun(output, i, secrets[j], l) =>
         \/ \E d \in 1..l : ~Holds(shown, i + d - 1) /\ ~Holds(buf, i + d - 1)
         \/ \A d \in 1..l : Holds(buf, i + d - 1)

\* A buffer is cut in two: a part of the first half goes through, the second is kept.
LEMMA Cut ==
  ASSUME NEW t \in Seq(Nat), NEW size \in 0..Len(t), NEW fed \in Nat, Ordered(t), EndsBy(t, fed),
         NEW shown \in Seq(Nat), NEW m \in 0..size
  PROVE  LET b == SubSeq(t, size + 1, Len(t))
             s == shown \o SubSeq(t, 1, m)
         IN  /\ b \in Seq(Nat) /\ Ordered(b) /\ EndsBy(b, fed) /\ s \in Seq(Nat)
             /\ \A y : Holds(b, y) => Holds(t, y)
             /\ \A y : Holds(s, y) => Holds(shown, y) \/ Holds(t, y)
             /\ \A y : y # Star /\ Holds(b, y) /\ Holds(s, y) => Holds(shown, y)
             /\ \A a \in size + 1..Len(t) : Holds(b, t[a])
<1> DEFINE n == Len(t)
           b == SubSeq(t, size + 1, n)
           p == SubSeq(t, 1, m)
           s == shown \o p
<1>1. n \in Nat /\ m \in Nat /\ size \in Nat /\ size <= n /\ m <= size /\ DOMAIN t = 1..n
  OBVIOUS
<1>2. /\ b \in Seq(Nat) /\ Len(b) = n - size /\ DOMAIN b = 1..n - size
      /\ \A a \in 1..n - size : b[a] = t[a + size]
  <2>1. b \in Seq(Nat) /\ Len(b) = n - size
    <3>1. size + 1 \in Int /\ n \in Int /\ \A i \in size + 1..n : t[i] \in Nat
      BY <1>1
    <3>2. b \in Seq(Nat) /\ Len(b) = IF size + 1 <= n THEN n - (size + 1) + 1 ELSE 0
      <4> HIDE DEF n
      <4> QED
        BY <3>1, SubSeqProperties
    <3> HIDE DEF b, n
    <3>3. CASE size + 1 <= n
      <4>1. n - (size + 1) + 1 = n - size
        BY <1>1
      <4> QED
        BY <3>2, <3>3, <4>1
    <3>4. CASE ~(size + 1 <= n)
      <4>1. n - size = 0
        BY <1>1, <3>4
      <4> QED
        BY <3>2, <3>4, <4>1
    <3> QED
      BY <3>3, <3>4
  <2>2. DOMAIN b = 1..n - size
    BY <2>1
  <2>3. \A a \in 1..n - size : b[a] = t[a + size]
    BY <1>1
  <2> QED
    BY <2>1, <2>2, <2>3
<1>3. p \in Seq(Nat) /\ Len(p) = m /\ \A a \in 1..m : p[a] = t[a]
  BY <1>1
<1> HIDE DEF n, b, p
<1>4. ASSUME NEW y, Holds(s, y) PROVE Holds(shown, y) \/ \E a \in 1..m : t[a] = y
  <2>1. PICK a \in 1..Len(shown) + m : s[a] = y
    BY <1>3, <1>4, SMTT(30) DEF Holds
  <2>2. CASE a <= Len(shown)
    <3>1. a \in DOMAIN shown /\ shown[a] = y
      BY <1>3, <2>1, <2>2
    <3> QED
      BY <3>1 DEF Holds
  <2>3. CASE a > Len(shown)
    <3>1. a - Len(shown) \in 1..m /\ p[a - Len(shown)] = y
      BY <1>3, <2>1, <2>3
    <3> QED
      BY <1>3, <3>1
  <2> QED
    BY <2>2, <2>3
<1>5. s \in Seq(Nat)
  BY <1>3
<1> HIDE DEF s
<1>6. ASSUME NEW y, Holds(b, y) PROVE \E a \in size + 1..n : t[a] = y
  <2>1. PICK a \in 1..n - size : b[a] = y
    BY <1>2, <1>6 DEF Holds
  <2>2. a + size \in size + 1..n
    BY <1>1
  <2> QED
    BY <1>2, <2>1, <2>2
<1>7. Ordered(b)
  <2> SUFFICES ASSUME NEW i \in 1..n - size, NEW k \in 1..n - size, i < k, b[i] # Star, b[k] # Star
               PROVE  b[k] - b[i] >= k - i
    BY <1>2 DEF Ordered
  <2>1. i + size \in 1..n /\ k + size \in 1..n /\ i + size < k + size
    BY <1>1
  <2>2. b[i] = t[i + size] /\ b[k] = t[k + size]
    BY <1>2
  <2>3. t[k + size] - t[i + size] >= k + size - (i + size)
    <3> DEFINE p1 == i + size
               p2 == k + size
    <3>1. p1 \in DOMAIN t /\ p2 \in DOMAIN t /\ p1 < p2 /\ t[p1] # Star /\ t[p2] # Star
      BY <1>1, <2>1, <2>2
    <3> HIDE DEF p1, p2
    <3>2. t[p2] - t[p1] >= p2 - p1
      BY <3>1 DEF Ordered
    <3> QED
      BY <3>2 DEF p1, p2
  <2>4. k + size - (i + size) = k - i
    BY <1>1
  <2> QED
    BY <2>2, <2>3, <2>4
<1>8. EndsBy(b, fed)
  <2> SUFFICES ASSUME NEW i \in 1..n - size, b[i] # Star PROVE fed - b[i] >= Len(b) - i
    BY <1>2 DEF EndsBy
  <2>1. i + size \in 1..n /\ b[i] = t[i + size]
    BY <1>1, <1>2
  <2>2. fed - t[i + size] >= Len(t) - (i + size)
    BY <1>1, <2>1 DEF EndsBy
  <2>3. Len(t) - (i + size) = Len(b) - i
    BY <1>1, <1>2 DEF n
  <2> QED
    BY <2>1, <2>2, <2>3
<1>9. \A y : Holds(b, y) => Holds(t, y)
  <2> SUFFICES ASSUME NEW y, Holds(b, y) PROVE Holds(t, y)
    OBVIOUS
  <2>1. PICK a \in size + 1..n : t[a] = y
    BY <1>6
  <2>2. a \in DOMAIN t
    BY <1>1
  <2> QED
    BY <2>1, <2>2 DEF Holds
<1>10. \A y : Holds(s, y) => Holds(shown, y) \/ Holds(t, y)
  <2> SUFFICES ASSUME NEW y, Holds(s, y), ~Holds(shown, y) PROVE Holds(t, y)
    OBVIOUS
  <2>1. PICK a \in 1..m : t[a] = y
    BY <1>4
  <2>2. a \in DOMAIN t
    BY <1>1
  <2> QED
    BY <2>1, <2>2 DEF Holds
<1>11. ASSUME NEW y, y # Star, Holds(b, y), Holds(s, y) PROVE Holds(shown, y)
  <2> SUFFICES ASSUME ~Holds(shown, y) PROVE FALSE
    OBVIOUS
  <2>1. PICK a \in 1..m : t[a] = y
    BY <1>4, <1>11
  <2>2. PICK c \in size + 1..n : t[c] = y
    BY <1>6, <1>11
  <2>3. a \in DOMAIN t /\ c \in DOMAIN t /\ a < c
    BY <1>1
  <2> QED
    BY <1>11, <2>1, <2>2, <2>3, OrderedApart
<1>12. \A a \in size + 1..n : Holds(b, t[a])
  <2> SUFFICES ASSUME NEW a \in size + 1..n PROVE Holds(b, t[a])
    OBVIOUS
  <2>1. a - size \in 1..n - size /\ a - size + size = a
    BY <1>1
  <2>2. a - size \in DOMAIN b /\ b[a - size] = t[a]
    BY <1>2, <2>1
  <2> QED
    BY <2>2 DEF Holds
<1> QED
  BY <1>2, <1>5, <1>7, <1>8, <1>9, <1>10, <1>11, <1>12 DEF b, s, p, n

\* The next n symbols.
Fresh(e, fed, n) == e = [i \in 1..n |-> fed + i]

\* Write keeps a writer safe, whether the log can be written or not.
LEMMA WriteKeepsSafe ==
  ASSUME NEW T, NEW output, NEW buf \in Seq(Nat), NEW shown \in Seq(Nat), NEW secrets \in Seq(Seq(T)),
         \A j \in DOMAIN secrets : secrets[j] # <<>>,
         NEW fed \in Nat, NEW n \in Nat, Safe(output, secrets, fed, buf, shown),
         NEW e, Fresh(e, fed, n)
  PROVE  LET t    == Replaced(output, buf \o e, secrets)
             size == Len(t) - HoldLen(output, t, secrets)
         IN  \A m \in {0, size} :
               /\ SubSeq(t, size + 1, Len(t)) \in Seq(Nat)
               /\ shown \o SubSeq(t, 1, m) \in Seq(Nat)
               /\ Safe(output, secrets, fed + n, SubSeq(t, size + 1, Len(t)), shown \o SubSeq(t, 1, m))
<1> DEFINE u == buf \o e
           t == Replaced(output, u, secrets)
           size == Len(t) - HoldLen(output, t, secrets)
           end == fed + n
<1>e. end \in Nat /\ fed <= end
  OBVIOUS
<1>a. /\ u \in Seq(Nat) /\ Ordered(u) /\ EndsBy(u, end)
      /\ \A y : Holds(u, y) => Holds(buf, y) \/ y \in fed + 1..end
      /\ \A y : Holds(u, y) => y <= end
  <2>1. Ordered(buf) /\ EndsBy(buf, fed) /\ \A y : Holds(buf, y) => y <= fed
    BY DEF Safe
  <2>2. LET v == buf \o [i \in 1..n |-> fed + i]
         IN  /\ v \in Seq(Nat) /\ Ordered(v) /\ EndsBy(v, fed + n)
             /\ \A y : Holds(v, y) => Holds(buf, y) \/ y \in fed + 1..fed + n
             /\ \A y : Holds(v, y) => y <= fed + n
    BY <2>1, Appended
  <2> QED
    BY <2>2 DEF Fresh
<1> HIDE DEF u, end
<1>b. /\ t \in Seq(Nat) /\ Ordered(t) /\ EndsBy(t, end)
      /\ \A y : y # Star /\ Holds(t, y) => Holds(u, y)
      /\ \A j \in DOMAIN secrets : \A i \in Nat \ {0} :
           Spells(output, i, secrets[j]) => Torn(t, i, secrets[j])
  <2>1. EndsBy(u, end) /\ Ordered(u) /\ u \in Seq(Nat)
    BY <1>a
  <2> QED
    BY <1>e, <2>1, ReplacedTears
<1> HIDE DEF t
<1>1. /\ t \in Seq(Nat) /\ Ordered(t) /\ EndsBy(t, end)
      /\ \A y : y # Star /\ Holds(t, y) => Holds(buf, y) \/ y \in fed + 1..end
      /\ \A y : Holds(t, y) => y <= end
      /\ \A j \in DOMAIN secrets : \A i \in Nat \ {0} :
           Spells(output, i, secrets[j]) => Torn(t, i, secrets[j])
  <2>1. ASSUME NEW y, Holds(t, y) PROVE y <= end
    <3>1. CASE y = Star
      BY <1>e, <3>1 DEF Star
    <3>2. CASE y # Star
      BY <1>a, <1>b, <2>1, <3>2
    <3> QED
      BY <3>1, <3>2
  <2>2. \A y : y # Star /\ Holds(t, y) => Holds(buf, y) \/ y \in fed + 1..end
    BY <1>a, <1>b
  <2> QED
    BY <1>b, <2>1, <2>2
<1>2. /\ size \in 0..Len(t)
      /\ \A j \in DOMAIN secrets : \A l \in 1..Len(t) :
              /\ l \in ProperPrefixes(secrets[j])
              /\ StartsAt(output, t, Len(t) - l + 1, SubSeq(secrets[j], 1, l))
              => l <= Len(t) - size
  <2> DEFINE hold == HoldLen(output, t, secrets)
  <2>1. /\ hold \in 0..Len(t)
        /\ \A j \in DOMAIN secrets : \A l \in 1..Len(t) :
              /\ l \in ProperPrefixes(secrets[j])
              /\ StartsAt(output, t, Len(t) - l + 1, SubSeq(secrets[j], 1, l))
              => l <= hold
    BY <1>1, HoldsBack
  <2>2. Len(t) \in Nat
    BY <1>1
  <2> HIDE DEF hold
  <2>3. Len(t) - hold \in 0..Len(t) /\ Len(t) - (Len(t) - hold) = hold
    BY <2>1, <2>2
  <2>4. size = Len(t) - hold
    BY DEF hold
  <2> HIDE DEF size
  <2> QED
    BY <2>1, <2>3, <2>4
<1> HIDE DEF size
<1> SUFFICES ASSUME NEW m \in {0, size}
             PROVE  /\ SubSeq(t, size + 1, Len(t)) \in Seq(Nat)
                    /\ shown \o SubSeq(t, 1, m) \in Seq(Nat)
                    /\ Safe(output, secrets, end, SubSeq(t, size + 1, Len(t)), shown \o SubSeq(t, 1, m))
  BY DEF t, u, size, end
<1> DEFINE b == SubSeq(t, size + 1, Len(t))
           s == shown \o SubSeq(t, 1, m)
<1>3. /\ b \in Seq(Nat) /\ Ordered(b) /\ EndsBy(b, end) /\ s \in Seq(Nat)
      /\ \A y : Holds(b, y) => Holds(t, y)
      /\ \A y : Holds(s, y) => Holds(shown, y) \/ Holds(t, y)
      /\ \A y : y # Star /\ Holds(b, y) /\ Holds(s, y) => Holds(shown, y)
      /\ \A a \in size + 1..Len(t) : Holds(b, t[a])
  <2>1. m \in 0..size
    BY <1>2
  <2> QED
    BY <1>1, <1>2, <1>e, <2>1, Cut
<1> HIDE DEF b, s
<1>4. \A y : Holds(b, y) => y <= end
  BY <1>1, <1>3
<1>5. ASSUME NEW y, Holds(s, y) PROVE y <= end
  <2>1. CASE Holds(shown, y)
    <3>1. y <= fed
      BY <2>1 DEF Safe
    <3>2. y \in Nat
      BY <2>1 DEF Holds
    <3> QED
      BY <1>e, <3>1, <3>2
  <2>2. CASE Holds(t, y)
    BY <1>1, <2>2
  <2> QED
    BY <1>3, <1>5, <2>1, <2>2
\* What was shown is not in the buffer.
<1>6. ASSUME NEW y, y # Star, Holds(shown, y) PROVE ~Holds(t, y)
  <2>1. y <= fed /\ ~Holds(buf, y)
    BY <1>6 DEF Safe
  <2>2. y \notin fed + 1..end
    BY <1>e, <2>1
  <2> QED
    BY <1>1, <1>6, <2>1, <2>2
<1>7. \A y : y # Star /\ Holds(s, y) => ~Holds(b, y)
  BY <1>3, <1>6
\* What is there after a write was there before it, or was written.
<1>8. ASSUME NEW y \in Nat, y # Star, y <= fed, Holds(s, y) \/ Holds(b, y)
      PROVE  Holds(shown, y) \/ Holds(buf, y)
  <2>1. y \notin fed + 1..end
    BY <1>8, <1>e
  <2> QED
    BY <1>1, <1>3, <1>8, <2>1
\* The end of the output that begins a secret, and is still there, is in the buffer.
<1>9. ASSUME NEW j \in DOMAIN secrets, NEW l \in 1..Len(secrets[j]), NEW i \in Nat \ {0},
             fed <= i + l - 1, i + l - 1 <= end, Begun(output, i, secrets[j], l),
             \A d \in 1..l : Holds(s, i + d - 1) \/ Holds(b, i + d - 1),
             NEW d \in 1..l
      PROVE  Holds(t, i + d - 1)
  <2> DEFINE y == i + d - 1
  <2>0. y \in Nat /\ y # Star /\ l \in Nat /\ Len(secrets[j]) \in Nat
    BY DEF Star
  <2>1. CASE y > fed
    <3>1. ~Holds(shown, y)
      <4>1. ASSUME Holds(shown, y) PROVE FALSE
        <5>1. y <= fed
          BY <4>1 DEF Safe
        <5> QED
          BY <2>0, <2>1, <5>1
      <4> QED
        BY <4>1
    <3> HIDE DEF y
    <3>2. Holds(s, y) \/ Holds(b, y)
      BY <1>9 DEF y
    <3> QED
      BY <1>3, <3>1, <3>2 DEF y
  <2>2. CASE y <= fed
    <3> DEFINE k == fed - i + 1
    <3>0. i + d - 1 <= fed /\ fed <= i + l - 1
      BY <1>9, <2>2
    <3>k. d <= k /\ k <= l /\ k \in Int
      <4> HIDE DEF y
      <4> QED
        BY <2>0, <3>0
    <3>1. k \in 1..l /\ i + k - 1 = fed /\ d \in 1..k
      BY <2>0, <3>k
    <3> HIDE DEF k
    <3>2. Begun(output, i, secrets[j], k)
      BY <1>9, <3>1 DEF Begun
    <3>3. \A q \in 1..k : Holds(shown, i + q - 1) \/ Holds(buf, i + q - 1)
      <4> SUFFICES ASSUME NEW q \in 1..k PROVE Holds(shown, i + q - 1) \/ Holds(buf, i + q - 1)
        OBVIOUS
      <4>1. q \in 1..l /\ i + q - 1 \in Nat /\ i + q - 1 # Star /\ i + q - 1 <= fed
        BY <3>1 DEF Star
      <4>2. Holds(s, i + q - 1) \/ Holds(b, i + q - 1)
        BY <1>9, <4>1
      <4> DEFINE z == i + q - 1
      <4> HIDE DEF z
      <4>3. z \in Nat /\ z # Star /\ z <= fed /\ (Holds(s, z) \/ Holds(b, z))
        BY <4>1, <4>2 DEF z
      <4>4. Holds(shown, z) \/ Holds(buf, z)
        BY <1>8, <4>3
      <4> QED
        BY <4>4 DEF z
    <3>4. \A q \in 1..k : Holds(buf, i + q - 1)
      <4>1. CASE k = Len(secrets[j])
        <5>0. secrets[j] \in Seq(T) /\ DOMAIN secrets[j] = 1..Len(secrets[j])
          OBVIOUS
        <5>s. Spells(output, i, secrets[j])
          BY <3>2, <4>1, <5>0 DEF Begun, Spells
        <5>f. i + Len(secrets[j]) - 1 <= fed
          BY <3>1, <4>1
        <5>1. Spells(output, i, secrets[j]) /\ i + Len(secrets[j]) - 1 <= fed
          BY <5>s, <5>f
        <5>2. PICK q \in DOMAIN secrets[j] : ~Holds(shown, i + q - 1) /\ ~Holds(buf, i + q - 1)
          BY <5>1 DEF Safe
        <5>3. q \in 1..k
          BY <4>1
        <5> QED
          BY <3>3, <5>2, <5>3
      <4>2. CASE k # Len(secrets[j])
        <5>1. k \in 1..Len(secrets[j]) - 1
          BY <2>0, <3>1, <4>2
        <5>2. \/ \E q \in 1..k : ~Holds(shown, i + q - 1) /\ ~Holds(buf, i + q - 1)
              \/ \A q \in 1..k : Holds(buf, i + q - 1)
          BY <3>1, <3>2, <5>1 DEF Safe
        <5> QED
          BY <3>3, <5>2
      <4> QED
        BY <4>1, <4>2
    <3>5. Holds(buf, y)
      BY <3>1, <3>4
    <3> HIDE DEF y
    <3>6. ~Holds(shown, y)
      BY <2>0, <3>5 DEF Safe
    <3>7. Holds(s, y) \/ Holds(b, y)
      BY <1>9 DEF y
    <3> QED
      BY <1>3, <3>6, <3>7 DEF y
  <2> QED
    BY <2>0, <2>1, <2>2
<1>10. ASSUME NEW j \in DOMAIN secrets, NEW i \in Nat \ {0}, Spells(output, i, secrets[j]),
              i + Len(secrets[j]) - 1 <= end
       PROVE  \E d \in DOMAIN secrets[j] : ~Holds(s, i + d - 1) /\ ~Holds(b, i + d - 1)
  <2> DEFINE l == Len(secrets[j])
  <2>1. secrets[j] \in Seq(T) /\ secrets[j] # <<>>
    OBVIOUS
  <2>2. l \in Nat \ {0} /\ DOMAIN secrets[j] = 1..l /\ l \in 1..l
    BY <2>1
  <2> SUFFICES ASSUME \A d \in 1..l : Holds(s, i + d - 1) \/ Holds(b, i + d - 1) PROVE FALSE
    BY <2>2
  <2>3. Begun(output, i, secrets[j], l) /\ i + l - 1 <= end
    BY <1>10, <2>2 DEF Begun, Spells
  <2>4. CASE fed <= i + l - 1
    <3>1. \A d \in 1..l : Holds(t, i + d - 1)
      BY <1>9, <2>2, <2>3, <2>4
    <3> QED
      BY <1>1, <1>10, <2>2, <3>1 DEF Torn
  <2>5. CASE ~(fed <= i + l - 1)
    <3>1. i + Len(secrets[j]) - 1 <= fed
      BY <2>2, <2>5
    <3>2. PICK d \in DOMAIN secrets[j] : ~Holds(shown, i + d - 1) /\ ~Holds(buf, i + d - 1)
      BY <1>10, <3>1 DEF Safe
    <3> DEFINE y == i + d - 1
    <3>3. y \in Nat /\ y # Star /\ y <= fed /\ d \in 1..l
      BY <2>2, <2>5, SMTT(30) DEF Star
    <3>4. Holds(s, y) \/ Holds(b, y)
      BY <3>3
    <3> HIDE DEF y
    <3>5. Holds(shown, y) \/ Holds(buf, y)
      BY <1>8, <3>3, <3>4
    <3> QED
      BY <3>2, <3>5 DEF y
  <2> QED
    BY <2>4, <2>5
<1>11. ASSUME NEW j \in DOMAIN secrets, NEW l \in 1..Len(secrets[j]) - 1, NEW i \in Nat \ {0},
              i + l - 1 = end, Begun(output, i, secrets[j], l)
       PROVE  \/ \E d \in 1..l : ~Holds(s, i + d - 1) /\ ~Holds(b, i + d - 1)
              \/ \A d \in 1..l : Holds(b, i + d - 1)
  <2> SUFFICES ASSUME \A d \in 1..l : Holds(s, i + d - 1) \/ Holds(b, i + d - 1)
               PROVE  \A d \in 1..l : Holds(b, i + d - 1)
    OBVIOUS
  <2>1. secrets[j] \in Seq(T) /\ Len(secrets[j]) \in Nat
    OBVIOUS
  <2>2. l \in Nat \ {0} /\ l \in 1..Len(secrets[j]) /\ fed <= i + l - 1 /\ i + l - 1 <= end
    BY <1>11, <1>e, <2>1
  <2>3. \A d \in 1..l : Holds(t, i + d - 1)
    BY <1>9, <1>11, <2>2
  <2>4. ASSUME NEW d \in 0..l - 1 PROVE Holds(t, i + d)
    <3>1. d + 1 \in 1..l /\ i + (d + 1) - 1 = i + d
      BY <2>2, SMTT(30)
    <3> QED
      BY <2>3, <3>1
  <2>5. PICK q \in 1..Len(t) : q + l - 1 <= Len(t) /\ \A d \in 0..l - 1 : t[q + d] = i + d
    BY <1>1, <2>2, <2>4, Contiguous
  <2>6. q = Len(t) - l + 1
    <3> DEFINE a == q + (l - 1)
    <3>1. l - 1 \in 0..l - 1 /\ a \in DOMAIN t /\ Len(t) \in Nat
      <4> DEFINE last == Len(t)
      <4>1. last \in Nat /\ DOMAIN t = 1..last
        BY <1>1
      <4>2. l \in Nat \ {0} /\ q \in 1..last /\ q + l - 1 <= last
        BY <2>2, <2>5
      <4> HIDE DEF last
      <4>3. l - 1 \in 0..l - 1 /\ q + (l - 1) \in 1..last
        BY ONLY <4>1, <4>2
      <4> QED
        BY <4>1, <4>3 DEF last
    <3>2. t[a] = i + (l - 1)
      BY <2>5, <3>1
    <3>3. t[a] = end /\ t[a] # Star
      BY <1>11, <2>2, <3>2 DEF Star
    <3>4. end - t[a] >= Len(t) - a
      BY <1>1, <3>1, <3>3 DEF EndsBy
    <3>5. a >= Len(t)
      <4> HIDE DEF a
      <4>1. end - end >= Len(t) - a
        BY <3>3, <3>4
      <4> QED
        BY <1>e, <3>1, <4>1
    <3>6. a = q + l - 1 /\ q \in Nat /\ a >= Len(t)
      BY <2>2, <3>5
    <3>7. q + l - 1 = Len(t)
      <4>1. q + l - 1 <= Len(t)
        BY <2>5
      <4>2. q + l - 1 >= Len(t)
        BY <3>6
      <4>3. q + l - 1 \in Int /\ Len(t) \in Int
        BY <2>2, <3>1, <3>6
      <4> QED
        BY <4>1, <4>2, <4>3, Meet
    <3>8. Len(t) \in Nat
      BY <3>1
    <3> DEFINE len == Len(t)
    <3> HIDE DEF len, a
    <3>9. q + l - 1 = len /\ len \in Nat /\ q \in Nat /\ l \in Nat
      BY <2>2, <3>6, <3>7, <3>8 DEF len
    <3>10. q = len - l + 1
      BY ONLY <3>9
    <3> QED
      BY <3>10 DEF len
  <2>7. \A d \in 1..l : t[q + d - 1] = i + d - 1 /\ i + d - 1 # Star
    <3> SUFFICES ASSUME NEW d \in 1..l PROVE t[q + d - 1] = i + d - 1 /\ i + d - 1 # Star
      OBVIOUS
    <3>1. d - 1 \in 0..l - 1 /\ q + (d - 1) = q + d - 1 /\ i + (d - 1) = i + d - 1
      BY <2>2
    <3>2. i + d - 1 # Star
      BY <2>2 DEF Star
    <3>3. t[q + (d - 1)] = i + (d - 1)
      BY <2>5, <3>1
    <3> QED
      BY <3>1, <3>2, <3>3
  <2>8. StartsAt(output, t, q, SubSeq(secrets[j], 1, l))
    <3> DEFINE c == SubSeq(secrets[j], 1, l)
    <3>1. Len(c) = l /\ DOMAIN c = 1..l /\ \A d \in 1..l : c[d] = secrets[j][d]
      BY <2>1, <2>2
    <3> HIDE DEF c
    <3>2. \A d \in 1..l : t[q + d - 1] # Star /\ output[t[q + d - 1]] = c[d]
      BY <1>11, <2>7, <3>1 DEF Begun
    <3>3. StartsAt(output, t, q, c)
      BY <2>5, <3>1, <3>2 DEF StartsAt
    <3> QED
      BY <3>3 DEF c
  <2>9. l \in 1..Len(t) /\ l \in ProperPrefixes(secrets[j])
    BY <1>1, <2>2, <2>5 DEF ProperPrefixes
  <2>10. l <= Len(t) - size
    BY <1>2, <2>6, <2>8, <2>9
  <2>11. ASSUME NEW d \in 1..l PROVE Holds(b, i + d - 1)
    <3>1. q + d - 1 \in size + 1..Len(t)
      BY <1>1, <1>2, <2>2, <2>5, <2>6, <2>10
    <3> QED
      BY <1>3, <2>7, <3>1
  <2> QED
    BY <2>11
<1>12. Safe(output, secrets, end, b, s)
  BY <1>3, <1>4, <1>5, <1>7, <1>10, <1>11 DEF Safe
<1> QED
  BY <1>3, <1>12 DEF b, s

----------------------------------------------------------------------------
(* What is left of an output whose secrets are masked.                     *)

\* e names the positions of lo..hi that t is about, in their order: those in gone
\* are left out, and t has a Star for those in stars.
Sees(t, e, lo, hi, stars, gone) ==
  /\ t \in Seq(Nat) /\ e \in Seq(Nat) /\ Len(e) = Len(t)
  /\ \A a, b \in 1..Len(e) : a < b => e[a] < e[b]
  /\ \A a \in 1..Len(e) : /\ e[a] \in lo..hi /\ e[a] \notin gone
                          /\ t[a] = IF e[a] \in stars THEN Star ELSE e[a]
  /\ \A i \in lo..hi : i \notin gone => \E a \in 1..Len(e) : e[a] = i

\* t is what is left of the positions lo..hi.
Shows(t, lo, hi, stars, gone) == \E e : Sees(t, e, lo, hi, stars, gone)

\* One list after another.
LEMMA Joined ==
  ASSUME NEW s \in Seq(Nat), NEW t \in Seq(Nat)
  PROVE  /\ s \o t \in Seq(Nat) /\ Len(s \o t) = Len(s) + Len(t)
         /\ \A a \in 1..Len(s) : (s \o t)[a] = s[a]
         /\ \A a \in Len(s) + 1..Len(s) + Len(t) :
              a - Len(s) \in 1..Len(t) /\ (s \o t)[a] = t[a - Len(s)]
<1>1. s \o t \in Seq(Nat) /\ Len(s \o t) = Len(s) + Len(t) /\ \A a \in 1..Len(s) : (s \o t)[a] = s[a]
  OBVIOUS
<1>2. ASSUME NEW a \in Len(s) + 1..Len(s) + Len(t)
      PROVE  a - Len(s) \in 1..Len(t) /\ (s \o t)[a] = t[a - Len(s)]
  OBVIOUS
<1> QED
  BY <1>1, <1>2

\* Two lists of which one follows on the other.
LEMMA ShowsConcat ==
  ASSUME NEW stars, NEW gone, NEW lo \in Nat, NEW mid \in Nat, NEW hi \in Nat,
         lo <= mid + 1, mid <= hi,
         NEW t, Shows(t, lo, mid, stars, gone), NEW u, Shows(u, mid + 1, hi, stars, gone)
  PROVE  Shows(t \o u, lo, hi, stars, gone)
<1>1. PICK e : Sees(t, e, lo, mid, stars, gone)
  BY DEF Shows
<1>2. PICK f : Sees(u, f, mid + 1, hi, stars, gone)
  BY DEF Shows
<1> DEFINE n == Len(t)
           m == Len(u)
           v == t \o u
           g == e \o f
<1>3. t \in Seq(Nat) /\ e \in Seq(Nat) /\ u \in Seq(Nat) /\ f \in Seq(Nat) /\ Len(e) = n /\ Len(f) = m
  BY <1>1, <1>2 DEF Sees
<1>4. n \in Nat /\ m \in Nat
  BY <1>3
<1>5. /\ v \in Seq(Nat) /\ g \in Seq(Nat) /\ Len(v) = n + m /\ Len(g) = n + m
      /\ \A a \in 1..n : v[a] = t[a] /\ g[a] = e[a]
      /\ \A a \in n + 1..n + m : a - n \in 1..m /\ v[a] = u[a - n] /\ g[a] = f[a - n]
  <2>1. /\ t \o u \in Seq(Nat) /\ Len(t \o u) = Len(t) + Len(u)
        /\ \A a \in 1..Len(t) : (t \o u)[a] = t[a]
        /\ \A a \in Len(t) + 1..Len(t) + Len(u) :
             a - Len(t) \in 1..Len(u) /\ (t \o u)[a] = u[a - Len(t)]
    BY <1>3, Joined
  <2>2. /\ e \o f \in Seq(Nat) /\ Len(e \o f) = Len(e) + Len(f)
        /\ \A a \in 1..Len(e) : (e \o f)[a] = e[a]
        /\ \A a \in Len(e) + 1..Len(e) + Len(f) :
             a - Len(e) \in 1..Len(f) /\ (e \o f)[a] = f[a - Len(e)]
    BY <1>3, Joined
  <2> QED
    BY <1>3, <2>1, <2>2, Zenon
<1> HIDE DEF n, m, v, g
<1>7. \A a \in 1..n : e[a] \in lo..mid /\ e[a] \notin gone /\ t[a] = IF e[a] \in stars THEN Star ELSE e[a]
  BY <1>1, <1>3 DEF Sees
<1>8. \A a \in 1..m : f[a] \in mid + 1..hi /\ f[a] \notin gone /\ u[a] = IF f[a] \in stars THEN Star ELSE f[a]
  BY <1>2, <1>3 DEF Sees
<1>9. ASSUME NEW a \in 1..n + m
      PROVE  g[a] \in lo..hi /\ g[a] \notin gone /\ v[a] = IF g[a] \in stars THEN Star ELSE g[a]
  <2>1. CASE a \in 1..n
    <3>1. g[a] = e[a] /\ v[a] = t[a] /\ e[a] \in lo..mid
      BY <1>5, <1>7, <2>1
    <3>2. e[a] \in lo..hi
      BY <3>1
    <3> QED
      BY <1>7, <2>1, <3>1, <3>2
  <2>2. CASE a \notin 1..n
    <3>1. a \in n + 1..n + m
      BY <1>4, <2>2
    <3>2. a - n \in 1..m /\ v[a] = u[a - n] /\ g[a] = f[a - n]
      BY <1>5, <3>1
    <3> DEFINE c == a - n
    <3> HIDE DEF c
    <3>3. c \in 1..m /\ v[a] = u[c] /\ g[a] = f[c]
      BY <3>2 DEF c
    <3>4. f[c] \in mid + 1..hi
      BY <1>8, <3>3
    <3>5. f[c] \in lo..hi
      BY <3>4
    <3> QED
      BY <1>8, <3>3, <3>5
  <2> QED
    BY <2>1, <2>2
<1>10. ASSUME NEW a \in 1..n + m, NEW b \in 1..n + m, a < b PROVE g[a] < g[b]
  <2>1. CASE b \in 1..n
    <3>1. a \in 1..n
      BY <1>4, <1>10, <2>1
    <3>2. e[a] < e[b]
      BY <1>1, <1>3, <1>10, <2>1, <3>1 DEF Sees
    <3> QED
      BY <1>5, <2>1, <3>1, <3>2
  <2>2. CASE a \in 1..n /\ b \notin 1..n
    <3>1. b \in n + 1..n + m
      BY <1>4, <2>2
    <3>2. b - n \in 1..m /\ g[b] = f[b - n]
      BY <1>5, <3>1
    <3>3. f[b - n] \in mid + 1..hi
      BY <1>8, <3>2
    <3>4. g[b] \in mid + 1..hi
      BY <3>2, <3>3
    <3>5. g[a] \in lo..mid
      BY <1>5, <1>7, <2>2
    <3> QED
      BY <3>4, <3>5
  <2>3. CASE a \notin 1..n
    <3>1. a \in n + 1..n + m /\ b \in n + 1..n + m
      BY <1>4, <1>10, <2>3
    <3>2. a - n \in 1..m /\ g[a] = f[a - n] /\ b - n \in 1..m /\ g[b] = f[b - n]
      BY <1>5, <3>1
    <3>3. a - n < b - n
      BY <1>4, <1>10
    <3>4. f[a - n] < f[b - n]
      BY <1>2, <1>3, <3>2, <3>3 DEF Sees
    <3> QED
      BY <3>2, <3>4
  <2> QED
    BY <2>1, <2>2, <2>3
<1>11. ASSUME NEW i \in lo..hi, i \notin gone PROVE \E a \in 1..n + m : g[a] = i
  <2>1. CASE i <= mid
    <3>1. i \in lo..mid
      BY <2>1
    <3>2. PICK a \in 1..n : e[a] = i
      BY <1>1, <1>3, <1>11, <3>1 DEF Sees
    <3>3. a \in 1..n + m
      BY <1>4
    <3> QED
      BY <1>5, <3>2, <3>3
  <2>2. CASE i > mid
    <3>1. i \in mid + 1..hi
      BY <2>2
    <3>2. PICK a \in 1..m : f[a] = i
      BY <1>2, <1>3, <1>11, <3>1 DEF Sees
    <3>3. a + n \in n + 1..n + m /\ a + n \in 1..n + m /\ (a + n) - n = a
      BY <1>4
    <3>4. g[a + n] = f[(a + n) - n]
      BY <1>5, <3>3
    <3>5. g[a + n] = i
      BY <3>2, <3>3, <3>4
    <3> QED
      BY <3>3, <3>5
  <2> QED
    BY <2>1, <2>2
<1>12. Sees(v, g, lo, hi, stars, gone)
  BY <1>5, <1>9, <1>10, <1>11 DEF Sees
<1> QED
  BY <1>12 DEF Shows, v

\* One list in two parts.
LEMMA Parted ==
  ASSUME NEW t \in Seq(Nat), NEW k \in 0..Len(t)
  PROVE  /\ SubSeq(t, 1, k) \in Seq(Nat) /\ Len(SubSeq(t, 1, k)) = k
         /\ \A a \in 1..k : SubSeq(t, 1, k)[a] = t[a]
         /\ SubSeq(t, k + 1, Len(t)) \in Seq(Nat) /\ Len(SubSeq(t, k + 1, Len(t))) = Len(t) - k
         /\ \A a \in 1..Len(t) - k : SubSeq(t, k + 1, Len(t))[a] = t[a + k]
<1> DEFINE n == Len(t)
           p == SubSeq(t, 1, k)
           b == SubSeq(t, k + 1, n)
<1>1. n \in Nat /\ k \in Nat /\ k <= n
  OBVIOUS
<1>2. p \in Seq(Nat) /\ Len(p) = k /\ \A a \in 1..k : p[a] = t[a]
  BY <1>1
<1>3. k + 1 \in Int /\ n \in Int /\ \A i \in k + 1..n : t[i] \in Nat
  BY <1>1
<1>4. b \in Seq(Nat) /\ Len(b) = IF k + 1 <= n THEN n - (k + 1) + 1 ELSE 0
  <2> HIDE DEF n
  <2> QED
    BY <1>3, SubSeqProperties
<1>5. Len(b) = n - k
  <2> HIDE DEF b, n
  <2>1. CASE k + 1 <= n
    <3>1. n - (k + 1) + 1 = n - k
      BY <1>1
    <3> QED
      BY <1>4, <2>1, <3>1
  <2>2. CASE ~(k + 1 <= n)
    <3>1. n - k = 0
      BY <1>1, <2>2
    <3> QED
      BY <1>4, <2>2, <3>1
  <2> QED
    BY <2>1, <2>2
<1>6. \A a \in 1..n - k : b[a] = t[a + k]
  BY <1>1
<1> QED
  BY <1>2, <1>4, <1>5, <1>6

\* A list cut in two.
LEMMA ShowsSplit ==
  ASSUME NEW stars, NEW gone, NEW lo \in Nat \ {0}, NEW hi \in Nat, lo <= hi + 1,
         NEW t, Shows(t, lo, hi, stars, gone), NEW k \in 0..Len(t)
  PROVE  \E mid \in lo - 1..hi : /\ Shows(SubSeq(t, 1, k), lo, mid, stars, gone)
                                 /\ Shows(SubSeq(t, k + 1, Len(t)), mid + 1, hi, stars, gone)
<1>1. PICK e : Sees(t, e, lo, hi, stars, gone)
  BY DEF Shows
<1> DEFINE n == Len(t)
           u == SubSeq(t, 1, k)
           v == SubSeq(t, k + 1, n)
           f == SubSeq(e, 1, k)
           g == SubSeq(e, k + 1, n)
           mid == IF k = n THEN hi ELSE e[k + 1] - 1
<1>2. t \in Seq(Nat) /\ e \in Seq(Nat) /\ Len(e) = n /\ n \in Nat
  BY <1>1 DEF Sees
<1>3. /\ u \in Seq(Nat) /\ Len(u) = k /\ (\A a \in 1..k : u[a] = t[a])
      /\ v \in Seq(Nat) /\ Len(v) = n - k /\ (\A a \in 1..n - k : v[a] = t[a + k])
  BY <1>2, Parted
<1>4. /\ f \in Seq(Nat) /\ Len(f) = k /\ (\A a \in 1..k : f[a] = e[a])
      /\ g \in Seq(Nat) /\ Len(g) = n - k /\ (\A a \in 1..n - k : g[a] = e[a + k])
  <2>1. /\ SubSeq(e, 1, k) \in Seq(Nat) /\ Len(SubSeq(e, 1, k)) = k
        /\ \A a \in 1..k : SubSeq(e, 1, k)[a] = e[a]
        /\ SubSeq(e, k + 1, Len(e)) \in Seq(Nat) /\ Len(SubSeq(e, k + 1, Len(e))) = Len(e) - k
        /\ \A a \in 1..Len(e) - k : SubSeq(e, k + 1, Len(e))[a] = e[a + k]
    BY <1>2, Parted
  <2> QED
    BY <1>2, <2>1
<1> HIDE DEF n, u, v, f, g
<1>5. n \in Nat /\ k \in 0..n /\ k \in Nat /\ n - k \in Nat
  BY <1>2 DEF n
<1>6. \A a \in 1..n : e[a] \in lo..hi /\ e[a] \notin gone /\ t[a] = IF e[a] \in stars THEN Star ELSE e[a]
  BY <1>1, <1>2 DEF Sees
<1>7. \A a, b \in 1..n : a < b => e[a] < e[b]
  BY <1>1, <1>2 DEF Sees
<1>8. /\ mid \in lo - 1..hi
      /\ \A a \in 1..k : e[a] <= mid
      /\ \A a \in k + 1..n : e[a] >= mid + 1
  <2>1. CASE k = n
    <3>1. mid = hi
      BY <2>1
    <3>2. \A a \in 1..k : e[a] <= hi
      BY <1>6, <2>1
    <3>3. k + 1..n = {}
      BY <1>5, <2>1
    <3> QED
      BY <3>1, <3>2, <3>3
  <2>2. CASE k # n
    <3> DEFINE c == e[k + 1]
    <3>1. k + 1 \in 1..n
      BY <1>5, <2>2
    <3>2. c \in lo..hi
      BY <1>6, <3>1
    <3>3. \A a \in 1..k : a \in 1..n /\ e[a] < c
      <4> SUFFICES ASSUME NEW a \in 1..k PROVE a \in 1..n /\ e[a] < c
        OBVIOUS
      <4>1. a \in 1..n /\ a < k + 1
        BY <1>5
      <4> QED
        BY <1>7, <3>1, <4>1
    <3>4. ASSUME NEW a \in k + 1..n PROVE e[a] >= c
      <4>1. CASE a = k + 1
        BY <3>2, <4>1
      <4>2. CASE a # k + 1
        <5>1. a \in 1..n /\ k + 1 < a
          BY <1>5, <4>2
        <5>2. c < e[a] /\ e[a] \in lo..hi
          BY <1>6, <1>7, <3>1, <5>1
        <5> QED
          BY <3>2, <5>2
      <4> QED
        BY <4>1, <4>2
    <3>5. mid = c - 1
      BY <2>2
    <3> HIDE DEF c, mid
    <3>6. mid \in lo - 1..hi /\ mid + 1 = c
      BY <3>2, <3>5
    <3>7. \A a \in 1..k : e[a] <= mid
      <4> SUFFICES ASSUME NEW a \in 1..k PROVE e[a] <= mid
        OBVIOUS
      <4>1. e[a] < c /\ e[a] \in lo..hi
        BY <1>6, <3>3
      <4> QED
        BY <3>2, <3>5, <4>1
    <3> QED
      BY <3>4, <3>6, <3>7
  <2> QED
    BY <2>1, <2>2
<1> HIDE DEF mid
<1>9. Sees(u, f, lo, mid, stars, gone)
  <2>1. ASSUME NEW a \in 1..k
        PROVE  f[a] \in lo..mid /\ f[a] \notin gone /\ u[a] = IF f[a] \in stars THEN Star ELSE f[a]
    <3>1. a \in 1..n
      BY <1>5
    <3>2. e[a] \in lo..hi /\ e[a] <= mid
      BY <1>6, <1>8, <3>1
    <3>3. e[a] \in lo..mid
      BY <1>8, <3>2
    <3> QED
      BY <1>3, <1>4, <1>6, <3>1, <3>3
  <2>2. ASSUME NEW a \in 1..k, NEW b \in 1..k, a < b PROVE f[a] < f[b]
    <3>1. a \in 1..n /\ b \in 1..n
      BY <1>5
    <3> QED
      BY <1>4, <1>7, <2>2, <3>1
  <2>3. ASSUME NEW i \in lo..mid, i \notin gone PROVE \E a \in 1..k : f[a] = i
    <3>1. i \in lo..hi
      BY <1>8
    <3>2. PICK a \in 1..n : e[a] = i
      BY <1>1, <1>2, <2>3, <3>1 DEF Sees
    <3>3. a \in 1..k
      <4> SUFFICES ASSUME a \notin 1..k PROVE FALSE
        OBVIOUS
      <4>1. a \in k + 1..n
        BY <1>5
      <4>2. e[a] >= mid + 1
        BY <1>8, <4>1
      <4> QED
        BY <1>8, <3>2, <4>2
    <3> QED
      BY <1>4, <3>2, <3>3
  <2> QED
    BY <1>3, <1>4, <2>1, <2>2, <2>3 DEF Sees
<1>10. Sees(v, g, mid + 1, hi, stars, gone)
  <2>0. ASSUME NEW a \in 1..n - k PROVE a + k \in k + 1..n /\ a + k \in 1..n
    BY <1>5
  <2>1. ASSUME NEW a \in 1..n - k
        PROVE  g[a] \in mid + 1..hi /\ g[a] \notin gone /\ v[a] = IF g[a] \in stars THEN Star ELSE g[a]
    <3> DEFINE c == a + k
    <3> HIDE DEF c
    <3>1. c \in k + 1..n /\ c \in 1..n /\ g[a] = e[c] /\ v[a] = t[c]
      BY <1>3, <1>4, <2>0 DEF c
    <3>2. e[c] \in lo..hi /\ e[c] >= mid + 1
      BY <1>6, <1>8, <3>1
    <3>3. e[c] \in mid + 1..hi
      BY <1>8, <3>2
    <3> QED
      BY <1>6, <3>1, <3>3
  <2>2. ASSUME NEW a \in 1..n - k, NEW b \in 1..n - k, a < b PROVE g[a] < g[b]
    <3>1. a + k \in 1..n /\ b + k \in 1..n /\ a + k < b + k
      BY <1>5, <2>0, <2>2
    <3>2. e[a + k] < e[b + k]
      BY <1>7, <3>1
    <3> QED
      BY <1>4, <3>2
  <2>3. ASSUME NEW i \in mid + 1..hi, i \notin gone PROVE \E a \in 1..n - k : g[a] = i
    <3>1. i \in lo..hi /\ i > mid
      BY <1>8
    <3>2. PICK a \in 1..n : e[a] = i
      BY <1>1, <1>2, <2>3, <3>1 DEF Sees
    <3>3. a - k \in 1..n - k /\ a - k + k = a
      <4> SUFFICES ASSUME a - k \notin 1..n - k PROVE FALSE
        BY <1>5
      <4>1. a \in 1..k
        BY <1>5
      <4>2. e[a] <= mid
        BY <1>8, <4>1
      <4> QED
        BY <1>8, <3>1, <3>2, <4>2
    <3>4. g[a - k] = i
      BY <1>4, <3>2, <3>3
    <3> QED
      BY <3>3, <3>4
  <2> QED
    BY <1>3, <1>4, <2>1, <2>2, <2>3 DEF Sees
<1> QED
  BY <1>8, <1>9, <1>10 DEF Shows, u, v, n

\* No place of one list lags behind the other, so their positions are the same.
LEMMA SeesNoLess ==
  ASSUME NEW stars, NEW gone, NEW lo \in Nat, NEW hi \in Nat,
         NEW t, NEW e, Sees(t, e, lo, hi, stars, gone), NEW u, NEW f, Sees(u, f, lo, hi, stars, gone),
         NEW n \in Nat \ {0}, \A a \in 1..n - 1 : a \in 1..Len(e) /\ a \in 1..Len(f) /\ e[a] = f[a],
         n \in 1..Len(e)
  PROVE  n \in 1..Len(f) /\ f[n] <= e[n]
<1>1. e[n] \in lo..hi /\ e[n] \notin gone
  BY DEF Sees
<1>2. PICK c \in 1..Len(f) : f[c] = e[n]
  BY <1>1 DEF Sees
<1>3. Len(e) \in Nat /\ Len(f) \in Nat
  BY DEF Sees
<1>4. c >= n
  <2> SUFFICES ASSUME c < n PROVE FALSE
    BY <1>3
  <2>1. c \in 1..n - 1 /\ c \in 1..Len(e)
    BY <1>3
  <2>2. e[c] < e[n]
    BY <2>1 DEF Sees
  <2> QED
    BY <1>1, <1>2, <2>1, <2>2
<1>5. n \in 1..Len(f)
  BY <1>3, <1>4
<1>6. f[n] \in lo..hi
  BY <1>5 DEF Sees
<1>7. n < c => f[n] < f[c]
  BY <1>5 DEF Sees
<1> QED
  BY <1>1, <1>2, <1>4, <1>5, <1>6, <1>7

\* What is left of some positions is one list.
LEMMA ShowsUnique ==
  ASSUME NEW stars, NEW gone, NEW lo \in Nat, NEW hi \in Nat,
         NEW t, Shows(t, lo, hi, stars, gone), NEW u, Shows(u, lo, hi, stars, gone)
  PROVE  t = u
<1>1. PICK e : Sees(t, e, lo, hi, stars, gone)
  BY DEF Shows
<1>2. PICK f : Sees(u, f, lo, hi, stars, gone)
  BY DEF Shows
<1>3. /\ t \in Seq(Nat) /\ Len(e) = Len(t) /\ Len(e) \in Nat
      /\ u \in Seq(Nat) /\ Len(f) = Len(u) /\ Len(f) \in Nat
  BY <1>1, <1>2 DEF Sees
<1> DEFINE Same(a) == a \in 1..Len(e) /\ a \in 1..Len(f) /\ e[a] = f[a]
           Bad == {a \in Nat : a # 0 /\ (a \in 1..Len(e) \/ a \in 1..Len(f)) /\ ~Same(a)}
<1>4. ASSUME NEW n \in Nat, \A i \in 0..n - 1 : i \notin Bad PROVE n \notin Bad
  <2> SUFFICES ASSUME n # 0, n \in 1..Len(e) \/ n \in 1..Len(f) PROVE Same(n)
    OBVIOUS
  <2>1. ASSUME NEW a \in 1..n - 1 PROVE Same(a)
    <3>1. a \in Nat /\ a # 0 /\ a \in 0..n - 1 /\ (a \in 1..Len(e) \/ a \in 1..Len(f))
      BY <1>3
    <3> QED
      BY <1>4, <3>1
  <2>2. n \in Nat \ {0} /\ \A a \in 1..n - 1 : a \in 1..Len(f) /\ a \in 1..Len(e) /\ f[a] = e[a]
    BY <2>1
  <2>3. ASSUME n \in 1..Len(e) PROVE n \in 1..Len(f) /\ f[n] <= e[n]
    BY <1>1, <1>2, <2>1, <2>2, <2>3, SeesNoLess
  <2>4. ASSUME n \in 1..Len(f) PROVE n \in 1..Len(e) /\ e[n] <= f[n]
    BY <1>1, <1>2, <2>2, <2>4, SeesNoLess
  <2>5. n \in 1..Len(e) /\ n \in 1..Len(f)
    BY <2>3, <2>4
  <2>6. e[n] \in Int /\ f[n] \in Int
    <3>1. e[n] \in lo..hi /\ f[n] \in lo..hi
      BY <1>1, <1>2, <2>5 DEF Sees
    <3> QED
      BY <3>1
  <2> QED
    BY <2>3, <2>4, <2>5, <2>6, Meet
<1>5. Bad = {}
  <2>1. Bad \in SUBSET Nat
    OBVIOUS
  <2> HIDE DEF Bad
  <2> QED
    BY <1>4, <2>1, Upwards
<1>6. \A a \in Nat : a # 0 /\ (a \in 1..Len(e) \/ a \in 1..Len(f)) => Same(a)
  BY <1>5
<1>7. Len(t) = Len(u)
  <2>1. Len(e) <= Len(f)
    <3>1. CASE Len(e) = 0
      BY <1>3, <3>1
    <3>2. CASE Len(e) # 0
      <4>1. Len(e) \in 1..Len(e)
        BY <1>3, <3>2
      <4>2. Len(e) \in 1..Len(f)
        BY <1>3, <1>6, <3>2, <4>1
      <4> QED
        BY <1>3, <4>2
    <3> QED
      BY <3>1, <3>2
  <2>2. Len(f) <= Len(e)
    <3>1. CASE Len(f) = 0
      BY <1>3, <3>1
    <3>2. CASE Len(f) # 0
      <4>1. Len(f) \in 1..Len(f)
        BY <1>3, <3>2
      <4>2. Len(f) \in 1..Len(e)
        BY <1>3, <1>6, <3>2, <4>1
      <4> QED
        BY <1>3, <4>2
    <3> QED
      BY <3>1, <3>2
  <2> QED
    BY <1>3, <2>1, <2>2, Meet
<1>8. ASSUME NEW a \in 1..Len(t) PROVE t[a] = u[a]
  <2>1. a \in 1..Len(e) /\ a \in Nat /\ a # 0
    BY <1>3
  <2>2. Same(a)
    BY <1>6, <2>1
  <2>3. t[a] = IF e[a] \in stars THEN Star ELSE e[a]
    BY <1>1, <2>1 DEF Sees
  <2>4. u[a] = IF f[a] \in stars THEN Star ELSE f[a]
    BY <1>2, <2>2 DEF Sees
  <2> QED
    BY <2>2, <2>3, <2>4
<1> QED
  BY <1>3, <1>7, <1>8, SMTT(30)

\* It depends on what is hidden of these positions, and on nothing else.
LEMMA ShowsSame ==
  ASSUME NEW stars, NEW gone, NEW lo \in Nat, NEW hi \in Nat, NEW t, Shows(t, lo, hi, stars, gone),
         NEW stars2, NEW gone2, \A i \in lo..hi : i \in stars2 <=> i \in stars,
         \A i \in lo..hi : i \in gone2 <=> i \in gone
  PROVE  Shows(t, lo, hi, stars2, gone2)
<1>1. PICK e : Sees(t, e, lo, hi, stars, gone)
  BY DEF Shows
<1>2. Sees(t, e, lo, hi, stars2, gone2)
  BY <1>1 DEF Sees
<1> QED
  BY <1>2 DEF Shows

\* Nothing is left where all is gone.
LEMMA ShowsNone ==
  ASSUME NEW stars, NEW gone, NEW lo \in Nat, NEW hi \in Nat, \A i \in lo..hi : i \in gone
  PROVE  Shows(<<>>, lo, hi, stars, gone)
<1> DEFINE none == <<>>
<1>1. none \in Seq(Nat) /\ Len(none) = 0 /\ 1..Len(none) = {}
  OBVIOUS
<1> HIDE DEF none
<1>2. Sees(none, none, lo, hi, stars, gone)
  BY <1>1 DEF Sees
<1> QED
  BY <1>2 DEF Shows, none

\* One item is left where all but the first is gone.
LEMMA ShowsOne ==
  ASSUME NEW stars, NEW gone, NEW lo \in Nat, NEW hi \in Nat, lo <= hi, lo \notin gone,
         \A i \in lo + 1..hi : i \in gone,
         NEW x \in Nat, x = IF lo \in stars THEN Star ELSE lo
  PROVE  Shows(<<x>>, lo, hi, stars, gone)
<1> DEFINE t == <<x>>
           e == <<lo>>
<1>1. t \in Seq(Nat) /\ e \in Seq(Nat) /\ Len(t) = 1 /\ Len(e) = 1 /\ t[1] = x /\ e[1] = lo
  OBVIOUS
<1> HIDE DEF t, e
<1>2. lo \in lo..hi /\ \A i \in lo..hi : i \notin gone => i = lo
  OBVIOUS
<1>3. Sees(t, e, lo, hi, stars, gone)
  BY <1>1, <1>2 DEF Sees
<1> QED
  BY <1>3 DEF Shows, t

\* What is left is what is not hidden.
LEMMA ShowsHolds ==
  ASSUME NEW stars, NEW gone, NEW lo \in Nat, NEW hi \in Nat, NEW t, Shows(t, lo, hi, stars, gone)
  PROVE  /\ t \in Seq(Nat)
         /\ \A i \in lo..hi : i \notin stars /\ i \notin gone => Holds(t, i)
<1>1. PICK e : Sees(t, e, lo, hi, stars, gone)
  BY DEF Shows
<1>2. t \in Seq(Nat) /\ DOMAIN t = 1..Len(e)
  BY <1>1 DEF Sees
<1>3. ASSUME NEW i \in lo..hi, i \notin stars, i \notin gone PROVE Holds(t, i)
  <2>1. PICK a \in 1..Len(e) : e[a] = i
    BY <1>1, <1>3 DEF Sees
  <2>2. t[a] = i
    BY <1>1, <1>3, <2>1 DEF Sees
  <2> QED
    BY <1>2, <2>2 DEF Holds
<1> QED
  BY <1>2, <1>3

\* What it holds is what is left of these positions.
LEMMA ShowsOnly ==
  ASSUME NEW stars, NEW gone, NEW lo \in Nat, NEW hi \in Nat, NEW t, Shows(t, lo, hi, stars, gone),
         NEW y, y # Star, Holds(t, y)
  PROVE  y \in lo..hi
<1>1. PICK e : Sees(t, e, lo, hi, stars, gone)
  BY DEF Shows
<1>2. DOMAIN t = 1..Len(e)
  BY <1>1 DEF Sees
<1>3. PICK a \in DOMAIN t : t[a] = y
  BY DEF Holds
<1>4. e[a] \in lo..hi /\ t[a] = IF e[a] \in stars THEN Star ELSE e[a]
  BY <1>1, <1>2 DEF Sees
<1> QED
  BY <1>3, <1>4

\* Where the secret stands with none of it hidden.
Raw(output, secret, lo, hi, hidden) ==
  {i \in lo..hi : /\ i + Len(secret) - 1 <= hi /\ Spells(output, i, secret)
                  /\ \A q \in i..i + Len(secret) - 1 : q \notin hidden}

\* What follows the first symbols of stretches of one length.
Rest(starts, length) == {q \in Nat : \E i \in starts : i < q /\ q <= i + length - 1}

\* Between the positions of two neighbours in a list all is gone.
LEMMA SeesBetween ==
  ASSUME NEW stars, NEW gone, NEW lo \in Nat, NEW hi \in Nat,
         NEW t, NEW e, Sees(t, e, lo, hi, stars, gone),
         NEW k \in 0..Len(e), NEW i \in lo..hi, k # 0 => e[k] < i, k < Len(e) => i < e[k + 1]
  PROVE  i \in gone
<1> SUFFICES ASSUME i \notin gone PROVE FALSE
  OBVIOUS
<1>0. e \in Seq(Nat)
  BY DEF Sees
<1>1. Len(e) \in Nat /\ \A a \in 1..Len(e) : e[a] \in Nat
  BY <1>0
<1>2. PICK a \in 1..Len(e) : e[a] = i
  BY DEF Sees
<1>3. CASE a <= k
  <2>1. k \in 1..Len(e) /\ k # 0
    BY <1>1, <1>3
  <2>2. a < k => e[a] < e[k]
    BY <2>1 DEF Sees
  <2>3. a = k \/ a < k
    BY <1>3
  <2> QED
    BY <1>1, <1>2, <2>1, <2>2, <2>3
<1>4. CASE a > k
  <2>1. k + 1 \in 1..Len(e) /\ k < Len(e)
    BY <1>1, <1>4
  <2>2. k + 1 < a => e[k + 1] < e[a]
    BY <2>1 DEF Sees
  <2>3. a = k + 1 \/ k + 1 < a
    BY <1>4
  <2> DEFINE x == e[k + 1]
  <2>4. x \in Nat /\ e[a] \in Nat /\ i < x
    BY <1>1, <2>1
  <2>5. x <= e[a]
    <3>1. CASE a = k + 1
      BY <2>4, <3>1
    <3>2. CASE k + 1 < a
      BY <2>2, <2>4, <3>2
    <3> QED
      BY <2>3, <3>1, <3>2
  <2> HIDE DEF x
  <2> QED
    BY <1>2, <2>4, <2>5
<1> QED
  BY <1>1, <1>3, <1>4

\* Where the scan finds the secret it stands in the output, with none of it hidden:
\* what was hidden would have left a Star in between.
LEMMA SeesHit ==
  ASSUME NEW T, NEW output, NEW secret \in Seq(T), secret # <<>>,
         NEW stars, NEW gone, NEW lo \in Nat \ {0}, NEW hi \in Nat,
         NEW buf, NEW e, Sees(buf, e, lo, hi, stars, gone),
         \A i \in lo + 1..hi : i \in gone => i - 1 \in stars \cup gone,
         NEW k \in 1..Len(e), StartsAt(output, buf, k, secret)
  PROVE  /\ k + Len(secret) - 1 <= Len(e)
         /\ \A d \in 0..Len(secret) - 1 : e[k + d] = e[k] + d
         /\ e[k] \in Raw(output, secret, lo, hi, stars \cup gone)
<1> DEFINE l == Len(secret)
<1>1. l \in Nat /\ l >= 1 /\ DOMAIN secret = 1..l
  OBVIOUS
<1>2. Len(e) \in Nat /\ Len(buf) = Len(e) /\ \A a \in 1..Len(e) : e[a] \in lo..hi /\ e[a] \in Nat
  BY DEF Sees
<1>3. k + l - 1 <= Len(e) /\ \A d \in 1..l : buf[k + d - 1] # Star /\ output[buf[k + d - 1]] = secret[d]
  BY <1>1, <1>2 DEF StartsAt
<1> HIDE DEF l
<1>4. ASSUME NEW d \in 0..l - 1
      PROVE  /\ k + d \in 1..Len(e) /\ e[k + d] \in lo..hi /\ e[k + d] \notin stars \cup gone
             /\ buf[k + d] = e[k + d] /\ output[e[k + d]] = secret[d + 1]
  <2>1. k + d \in 1..Len(e) /\ d + 1 \in 1..l /\ k + (d + 1) - 1 = k + d
    BY <1>1, <1>2, <1>3, SMTT(30)
  <2> DEFINE a == k + d
  <2>2. buf[a] # Star /\ output[buf[a]] = secret[d + 1]
    BY <1>3, <2>1
  <2> HIDE DEF a
  <2>3. a \in 1..Len(e)
    BY <2>1 DEF a
  <2>4. e[a] \in lo..hi /\ e[a] \notin gone /\ buf[a] = IF e[a] \in stars THEN Star ELSE e[a]
    BY <2>3 DEF Sees
  <2>5. e[a] \notin stars /\ buf[a] = e[a]
    BY <2>2, <2>4
  <2> QED
    BY <2>2, <2>3, <2>4, <2>5 DEF a
<1> DEFINE Bad == {d \in Nat : d \in 0..l - 1 /\ e[k + d] # e[k] + d}
<1>5. ASSUME NEW d \in Nat, \A c \in 0..d - 1 : c \notin Bad PROVE d \notin Bad
  <2> SUFFICES ASSUME d \in 0..l - 1 PROVE e[k + d] = e[k] + d
    OBVIOUS
  <2>1. CASE d = 0
    <3>1. k + d = k /\ e[k] \in Nat
      BY <1>2, <2>1
    <3>2. e[k] + d = e[k]
      BY <2>1, <3>1
    <3> QED
      BY <3>1, <3>2
  <2>2. CASE d # 0
    <3> DEFINE c == d - 1
               a == k + c
               x == e[a]
               y == e[a + 1]
    <3>1. c \in 0..d - 1 /\ c \in 0..l - 1 /\ c \in Nat /\ a + 1 = k + d
      <4>1. k \in Nat /\ l \in Nat
        BY <1>1, <1>2
      <4> HIDE DEF x, y
      <4> QED
        BY <2>2, <4>1
    <3>2. x = e[k] + c
      BY <1>5, <3>1
    <3>3. a \in 1..Len(e) /\ x \in lo..hi /\ x \notin stars \cup gone
      BY <1>4, <3>1
    <3>4. a + 1 \in 1..Len(e) /\ y \in lo..hi /\ y \notin stars \cup gone
      BY <1>4, <3>1
    <3>5. a < a + 1
      BY <3>3
    <3>6. x < y
      BY <3>3, <3>4, <3>5 DEF Sees
    <3>7. ~(x + 1 < y)
      <4> SUFFICES ASSUME x + 1 < y PROVE FALSE
        OBVIOUS
      <4> DEFINE i == x + 1
      <4>1. i \in lo..hi /\ i \in lo + 1..hi /\ i - 1 = x
        BY <3>3, <3>4
      <4>2. a \in 0..Len(e) /\ e[a] < i /\ i < e[a + 1]
        BY <3>3, <3>4
      <4> HIDE DEF i, x, y, a
      <4>3. i \in gone
        BY <4>1, <4>2, SeesBetween
      <4>4. x \in stars \cup gone
        BY <4>1, <4>3
      <4> QED
        BY <3>3, <4>4
    <3>8. y = x + 1
      <4> HIDE DEF x, y
      <4> QED
        BY <3>3, <3>4, <3>6, <3>7
    <3> HIDE DEF c, x, y
    <3>9. e[k] \in Nat
      BY <1>2
    <3>10. y = e[k] + d
      BY <3>1, <3>2, <3>8, <3>9 DEF c
    <3> QED
      BY <3>1, <3>10 DEF y
  <2> QED
    BY <2>1, <2>2
<1>6. Bad = {}
  <2>1. Bad \in SUBSET Nat
    OBVIOUS
  <2> HIDE DEF Bad
  <2> QED
    BY <1>5, <2>1, Upwards
<1>7. \A d \in 0..l - 1 : e[k + d] = e[k] + d
  <2> SUFFICES ASSUME NEW d \in 0..l - 1, e[k + d] # e[k] + d PROVE FALSE
    OBVIOUS
  <2>1. d \in Bad
    OBVIOUS
  <2> QED
    BY <1>6, <2>1
<1> DEFINE i == e[k]
<1>8. i \in Nat /\ i \in lo..hi
  BY <1>2
<1> HIDE DEF i
<1>9. i + l - 1 <= hi
  <2>1. l - 1 \in 0..l - 1
    BY <1>1
  <2>2. e[k + (l - 1)] = i + (l - 1) /\ e[k + (l - 1)] \in lo..hi
    BY <1>4, <1>7, <2>1 DEF i
  <2> QED
    BY <1>1, <1>8, <2>2
<1>10. Spells(output, i, secret)
  <2> SUFFICES ASSUME NEW d \in 1..l PROVE output[i + d - 1] = secret[d]
    BY <1>1 DEF Spells
  <2> DEFINE c == d - 1
  <2>1. c \in 0..l - 1 /\ c + 1 = d /\ i + c = i + d - 1
    BY <1>1, <1>8
  <2> HIDE DEF c
  <2>2. e[k + c] = i + c /\ output[e[k + c]] = secret[c + 1]
    BY <1>4, <1>7, <2>1 DEF i
  <2> QED
    BY <2>1, <2>2
<1>11. ASSUME NEW q \in i..i + l - 1 PROVE q \notin stars \cup gone
  <2> DEFINE c == q - i
  <2>1. c \in 0..l - 1 /\ q = i + c
    BY <1>1, <1>8
  <2> HIDE DEF c
  <2> QED
    BY <1>4, <1>7, <2>1 DEF i
<1>12. i \in Raw(output, secret, lo, hi, stars \cup gone)
  BY <1>8, <1>9, <1>10, <1>11 DEF Raw, l
<1> QED
  BY <1>3, <1>7, <1>12 DEF i, l

\* Where it stands with none of it hidden, the scan can find it.
LEMMA SeesRaw ==
  ASSUME NEW T, NEW output, NEW secret \in Seq(T), secret # <<>>,
         NEW stars, NEW gone, NEW lo \in Nat \ {0}, NEW hi \in Nat,
         NEW buf, NEW e, Sees(buf, e, lo, hi, stars, gone),
         NEW k \in 1..Len(e), e[k] \in Raw(output, secret, lo, hi, stars \cup gone)
  PROVE  StartsAt(output, buf, k, secret)
<1> DEFINE l == Len(secret)
           i == e[k]
<1>1. l \in Nat /\ l >= 1 /\ DOMAIN secret = 1..l
  OBVIOUS
<1>2. Len(e) \in Nat /\ Len(buf) = Len(e) /\ \A a \in 1..Len(e) : e[a] \in lo..hi /\ e[a] \in Nat
  BY SMTT(30) DEF Sees
<1>3. /\ i \in Nat /\ i \in lo..hi /\ i + l - 1 <= hi /\ Spells(output, i, secret)
      /\ \A q \in i..i + l - 1 : q \notin stars \cup gone
  BY <1>2 DEF Raw
<1> HIDE DEF l, i
<1> DEFINE There(d) == k + d \in 1..Len(e) /\ e[k + d] = i + d
           Bad == {d \in Nat : d \in 0..l - 1 /\ ~There(d)}
<1>4. ASSUME NEW d \in Nat, \A c \in 0..d - 1 : c \notin Bad PROVE d \notin Bad
  <2> SUFFICES ASSUME d \in 0..l - 1 PROVE There(d)
    OBVIOUS
  <2>1. CASE d = 0
    <3>1. k + d = k /\ i + d = i
      BY <1>3, <2>1
    <3> QED
      BY <3>1 DEF i
  <2>2. CASE d # 0
    <3> DEFINE c == d - 1
               a == k + c
    <3>1. c \in 0..d - 1 /\ c \in 0..l - 1 /\ c \in Nat /\ a + 1 = k + d /\ i + c + 1 = i + d
      <4>1. k \in Nat /\ l \in Nat /\ i \in Nat
        BY <1>1, <1>2, <1>3
      <4> QED
        BY <2>2, <4>1
    <3>2. a \in 1..Len(e) /\ e[a] = i + c
      BY <1>4, <3>1
    <3> DEFINE q == i + d
    <3>3. q \in i..i + l - 1 /\ q \in lo..hi
      BY <1>1, <1>3
    <3>4. q \notin gone
      BY <1>3, <3>3
    <3>5. e[a] < q /\ a # 0 /\ a \in 0..Len(e)
      BY <1>2, <1>3, <3>1, <3>2
    <3> HIDE DEF c, a, q
    <3>6. a < Len(e) /\ ~(q < e[a + 1])
      BY <3>3, <3>4, <3>5, SeesBetween
    <3>7. a + 1 \in 1..Len(e) /\ a < a + 1
      BY <1>2, <3>2, <3>6
    <3>8. e[a] < e[a + 1] /\ e[a + 1] \in Nat
      BY <1>2, <3>2, <3>7 DEF Sees
    <3> DEFINE x == e[a + 1]
    <3> HIDE DEF x
    <3>9. x \in Nat /\ i + c < x /\ ~(q < x) /\ q = i + c + 1 /\ c \in Nat
      BY <3>1, <3>2, <3>6, <3>8 DEF x, q
    <3>10. x = q
      BY ONLY <1>3, <3>9
    <3> QED
      BY <3>1, <3>7, <3>10 DEF x, q
  <2> QED
    BY <2>1, <2>2
<1>5. Bad = {}
  <2>1. Bad \in SUBSET Nat
    OBVIOUS
  <2> HIDE DEF Bad
  <2> QED
    BY <1>4, <2>1, Upwards
<1>6. \A d \in 0..l - 1 : There(d)
  <2> SUFFICES ASSUME NEW d \in 0..l - 1, ~There(d) PROVE FALSE
    OBVIOUS
  <2>1. d \in Bad
    OBVIOUS
  <2> QED
    BY <1>5, <2>1
<1>7. k + l - 1 <= Len(buf)
  <2>1. l - 1 \in 0..l - 1
    BY <1>1
  <2>2. k + (l - 1) \in 1..Len(e)
    BY <1>6, <2>1
  <2> QED
    BY <1>1, <1>2, <2>2
<1>8. ASSUME NEW d \in 1..l PROVE buf[k + d - 1] # Star /\ output[buf[k + d - 1]] = secret[d]
  <2> DEFINE c == d - 1
             a == k + c
  <2>1. c \in 0..l - 1 /\ a = k + d - 1 /\ i + c = i + d - 1 /\ i + c \in i..i + l - 1
    <3>1. k \in Nat /\ l \in Nat /\ i \in Nat
      BY <1>1, <1>2, <1>3
    <3> QED
      BY <3>1
  <2>2. There(c)
    BY <1>6, <2>1
  <2>3. a \in 1..Len(e) /\ e[a] = i + c
    BY <2>2
  <2> HIDE DEF a
  <2>4. buf[a] = IF e[a] \in stars THEN Star ELSE e[a]
    BY <2>3 DEF Sees
  <2>5. e[a] \notin stars /\ e[a] # Star
    <3>1. e[a] \in lo..hi
      BY <1>2, <2>3
    <3>2. e[a] # Star
      BY <3>1 DEF Star
    <3> QED
      BY <1>3, <2>1, <2>3, <3>2
  <2>6. output[i + d - 1] = secret[d]
    BY <1>1, <1>3 DEF Spells
  <2> QED
    BY <2>1, <2>3, <2>4, <2>5, <2>6
<1> QED
  BY <1>1, <1>7, <1>8 DEF StartsAt, l

\* No two of the stretches of one length that start there have a position in common.
Apart(starts, length) == \A i, k \in starts : i < k => i + length <= k

\* ReplacedAll puts a Star for each of them.
LEMMA ScanShows ==
  ASSUME NEW T, NEW output, NEW secret \in Seq(T), secret # <<>>,
         NEW stars, NEW gone, NEW lo \in Nat \ {0}, NEW hi \in Nat, lo <= hi + 1,
         NEW buf, Shows(buf, lo, hi, stars, gone),
         \A i \in lo + 1..hi : i \in gone => i - 1 \in stars \cup gone,
         NEW raw, raw = Raw(output, secret, lo, hi, stars \cup gone), Apart(raw, Len(secret))
  PROVE  Shows(ReplacedAll(output, buf, secret), lo, hi,
               stars \cup raw, gone \cup Rest(raw, Len(secret)))
<1> DEFINE l == Len(secret)
           stars2 == stars \cup raw
           gone2 == gone \cup Rest(raw, l)
<1>1. PICK e : Sees(buf, e, lo, hi, stars, gone)
  BY DEF Shows
<1> DEFINE n == Len(e)
           Hit(k) == StartsAt(output, buf, k, secret)
           Pos(k) == IF k = n + 1 THEN hi + 1 ELSE e[k]
           Unspoilt(k) == k = n + 1 \/ e[k] \notin gone2
<1>2. buf \in Seq(Nat) /\ e \in Seq(Nat) /\ Len(buf) = n
  BY <1>1 DEF Sees
<1>3. n \in Nat /\ (\A a \in 1..n : e[a] \in Nat) /\ l \in Nat /\ l >= 1
  BY <1>2
<1>4. PICK f : Scans(f, output, buf, secret)
  BY <1>2, ScanExists
<1>5. /\ f[n + 1] = <<>> /\ ReplacedAll(output, buf, secret) = f[1]
      /\ \A k \in 1..n : f[k] = IF Hit(k) THEN <<Star>> \o f[k + l] ELSE <<buf[k]>> \o f[k + 1]
  BY <1>2, <1>4 DEF Scans
<1>6. /\ \A a \in 1..n : e[a] \in lo..hi /\ e[a] \notin gone /\ buf[a] = IF e[a] \in stars THEN Star ELSE e[a]
      /\ \A a, b \in 1..n : a < b => e[a] < e[b]
      /\ \A i \in lo..hi : i \notin gone => \E a \in 1..n : e[a] = i
  BY <1>1 DEF Sees
<1>7. ASSUME NEW k \in 1..n, Hit(k)
      PROVE  k + l - 1 <= n /\ (\A d \in 0..l - 1 : e[k + d] = e[k] + d) /\ e[k] \in raw
  <2>1. StartsAt(output, buf, k, secret)
    BY <1>7
  <2>2. /\ k + Len(secret) - 1 <= Len(e)
        /\ \A d \in 0..Len(secret) - 1 : e[k + d] = e[k] + d
        /\ e[k] \in Raw(output, secret, lo, hi, stars \cup gone)
    <3> HIDE DEF n, l, Hit
    <3>1. k \in 1..Len(e)
      BY DEF n
    <3> QED
      BY <1>1, <2>1, <3>1, SeesHit
  <2> QED
    BY <2>2
<1>8. ASSUME NEW k \in 1..n, e[k] \in raw PROVE Hit(k)
  BY <1>1, <1>8, SeesRaw
<1>9. ASSUME NEW k \in 0..n, NEW i \in lo..hi, k # 0 => e[k] < i, k < n => i < e[k + 1]
      PROVE  i \in gone
  BY <1>1, <1>9, SeesBetween
<1>10. ASSUME NEW i \in raw
       PROVE  i \in Nat /\ i \in lo..hi /\ i + l - 1 <= hi /\ (\E a \in 1..n : e[a] = i) /\ i \notin gone
  <2>1. i \in lo..hi /\ i + l - 1 <= hi /\ \A q \in i..i + l - 1 : q \notin stars \cup gone
    BY DEF Raw
  <2>2. i \in Nat /\ i \in i..i + l - 1
    BY <1>3, <2>1
  <2>3. i \notin gone
    BY <2>1, <2>2
  <2> QED
    BY <1>6, <2>1, <2>2, <2>3
<1>11. \A i, k \in raw : i < k => i + l <= k
  BY DEF Apart
<1>12. \A q : q \in gone2 <=> q \in gone \/ (q \in Nat /\ \E i \in raw : i < q /\ q <= i + l - 1)
  BY DEF Rest
<1> HIDE DEF l, n, Hit, stars2, gone2
\* The rest, from a place that is still there on.
<1> DEFINE Fine(k) == Unspoilt(k) => Shows(f[k], Pos(k), hi, stars2, gone2)
           Bad == {k \in 1..n : ~Fine(k)}
<1>13. Fine(n + 1)
  <2>1. Shows(<<>>, hi + 1, hi, stars2, gone2)
    BY ShowsNone
  <2> QED
    BY <1>5, <2>1
\* What starts before a place that is left starts at one that is left.
<1>14. ASSUME NEW k \in 1..n, NEW i \in raw, i < e[k]
       PROVE  \E a \in 1..n : a < k /\ e[a] = i
  <2>1. PICK a \in 1..n : e[a] = i
    BY <1>10
  <2>2. i \in Nat /\ e[k] \in Nat
    BY <1>3, <1>10
  <2>3. ~(k < a)
    <3>1. k < a => e[k] < e[a]
      BY <1>6
    <3> QED
      BY <1>14, <2>1, <2>2, <3>1
  <2>4. a # k
    BY <1>14, <2>1, <2>2
  <2>5. a \in Nat /\ k \in Nat
    BY <1>3
  <2> QED
    BY <2>1, <2>3, <2>4, <2>5
<1>15. ASSUME NEW k \in 1..n, \A i \in k + 1..n : i \notin Bad PROVE k \notin Bad
  <2> SUFFICES ASSUME Unspoilt(k) PROVE Shows(f[k], Pos(k), hi, stars2, gone2)
    OBVIOUS
  <2> DEFINE i == e[k]
  <2>1. k # n + 1 /\ k \in Nat /\ i \in Nat /\ i \in lo..hi
    BY <1>3, <1>6
  <2>2. Pos(k) = i /\ i \notin gone2
    BY <2>1
  <2>3. ASSUME NEW h \in k + 1..n + 1 PROVE Fine(h)
    <3>1. CASE h = n + 1
      BY <1>13, <3>1
    <3>2. CASE h # n + 1
      <4>1. h \in k + 1..n /\ h \in 1..n
        BY <1>3, <3>2
      <4> HIDE DEF Fine
      <4> QED
        BY <1>15, <4>1
    <3> QED
      BY <3>1, <3>2
  <2>4. ASSUME NEW h \in k + 1..n + 1 PROVE Pos(h) \in Nat /\ i < Pos(h) /\ Pos(h) <= hi + 1
    <3>1. CASE h = n + 1
      BY <2>1, <3>1
    <3>2. CASE h # n + 1
      <4>1. h \in 1..n /\ k < h
        BY <1>3, <3>2
      <4>2. e[k] < e[h] /\ e[h] \in lo..hi /\ e[h] \in Nat
        BY <1>3, <1>6, <4>1
      <4> QED
        BY <3>2, <4>2
    <3> QED
      BY <3>1, <3>2
  <2> HIDE DEF Fine, Bad
  \* An item, and the rest from h on.
  <2>5. ASSUME NEW h \in k + 1..n + 1, Unspoilt(h), NEW x \in Nat, f[k] = <<x>> \o f[h],
               x = IF i \in stars2 THEN Star ELSE i, \A q \in i + 1..Pos(h) - 1 : q \in gone2
        PROVE  Shows(f[k], i, hi, stars2, gone2)
    <3> DEFINE mid == Pos(h) - 1
    <3>1. mid \in Nat /\ i <= mid /\ i <= mid + 1 /\ mid <= hi /\ mid + 1 = Pos(h)
      BY <2>1, <2>4
    <3>2. Shows(f[h], Pos(h), hi, stars2, gone2)
      BY <2>3, <2>5 DEF Fine
    <3> HIDE DEF mid, Pos
    <3>3. Shows(f[h], mid + 1, hi, stars2, gone2)
      BY <3>1, <3>2
    <3>4. \A q \in i + 1..mid : q \in gone2
      BY <2>5 DEF mid
    <3>5. Shows(<<x>>, i, mid, stars2, gone2)
      <4> HIDE DEF i
      <4> QED
        BY <2>1, <2>2, <2>5, <3>1, <3>4, ShowsOne
    <3> HIDE DEF i
    <3>6. Shows(<<x>> \o f[h], i, hi, stars2, gone2)
      BY <2>1, <3>1, <3>3, <3>5, ShowsConcat
    <3> QED
      BY <2>5, <3>6
  <2>6. CASE Hit(k)
    <3> DEFINE h == k + l
               c == h - 1
    <3>1. k + l - 1 <= n /\ (\A d \in 0..l - 1 : e[k + d] = i + d) /\ i \in raw
      BY <1>7, <2>6
    <3>2. h \in k + 1..n + 1 /\ c \in 1..n /\ c + 1 = h /\ h \in Nat /\ c = k + (l - 1) /\ l - 1 \in 0..l - 1
      BY <1>3, <2>1, <3>1
    <3>3. e[c] = i + l - 1
      <4>1. e[k + (l - 1)] = i + (l - 1)
        BY <3>1, <3>2
      <4> QED
        BY <1>3, <2>1, <3>2, <4>1
    <3>4. f[k] = <<Star>> \o f[h]
      BY <1>5, <2>6
    <3> HIDE DEF h, c
    <3>5. Unspoilt(h)
      <4> SUFFICES ASSUME h # n + 1, e[h] \in gone2 PROVE FALSE
        OBVIOUS
      <4>1. h \in 1..n
        BY <1>3, <3>2
      <4>2. e[h] \notin gone /\ e[c] < e[h] /\ e[h] \in Nat
        <5>1. c < h
          BY <3>2
        <5> QED
          BY <1>3, <1>6, <3>2, <4>1, <5>1
      <4>3. PICK q \in raw : q < e[h] /\ e[h] <= q + l - 1
        BY <1>12, <4>2
      <4>4. q \in Nat
        BY <1>10
      <4>5. PICK a \in 1..n : a < h /\ e[a] = q
        BY <1>14, <4>1, <4>3
      <4>6. a <= c /\ a \in Nat /\ c \in Nat
        BY <3>2, <4>5
      <4>7. q <= e[c] /\ e[c] \in Nat
        <5>1. a < c => e[a] < e[c]
          BY <1>6, <3>2
        <5>2. e[c] \in Nat
          BY <1>3, <3>2
        <5> QED
          BY <4>4, <4>5, <4>6, <5>1, <5>2
      <4>8. q < i => q + l <= i
        BY <1>11, <3>1
      <4>9. i < q => i + l <= q
        BY <1>11, <3>1
      <4> DEFINE y == e[h]
                 z == e[c]
      <4> HIDE DEF y, z, i
      <4>10. /\ q \in Nat /\ i \in Nat /\ l \in Nat /\ y \in Nat /\ z \in Nat
             /\ q < y /\ y <= q + l - 1 /\ z = i + l - 1 /\ z < y /\ q <= z
             /\ (q < i => q + l <= i) /\ (i < q => i + l <= q)
        BY <1>3, <2>1, <3>3, <4>2, <4>3, <4>4, <4>7, <4>8, <4>9 DEF y, z
      <4> QED
        BY ONLY <4>10
    <3>6. ASSUME NEW q \in i + 1..Pos(h) - 1 PROVE q \in gone2
      <4>0. q \in Nat /\ q \in lo..hi /\ i < q /\ q < Pos(h)
        <5>1. Pos(h) \in Nat /\ Pos(h) <= hi + 1
          BY <2>4, <3>2
        <5> DEFINE top == Pos(h)
        <5> HIDE DEF top, i, Pos
        <5>2. top \in Nat /\ top <= hi + 1 /\ i \in lo..hi /\ i \in Nat /\ q \in i + 1..top - 1
          BY <2>1, <5>1 DEF top
        <5>3. q \in Nat /\ q \in lo..hi /\ i < q /\ q < top
          BY ONLY <5>2, lo \in Nat \ {0}, hi \in Nat
        <5> QED
          BY <5>3 DEF top
      <4>1. CASE q <= i + l - 1
        BY <1>12, <3>1, <4>0, <4>1
      <4>2. CASE ~(q <= i + l - 1)
        <5>1. e[c] < q
          BY <1>3, <2>1, <3>3, <4>0, <4>2
        <5>2. c < n => q < e[c + 1]
          <6> SUFFICES ASSUME c < n PROVE q < e[h]
            BY <3>2
          <6>1. h # n + 1
            BY <1>3, <3>2
          <6>2. Pos(h) = e[h]
            BY <6>1
          <6> QED
            BY <4>0, <6>2
        <5>3. c \in 0..n
          BY <3>2
        <5>4. q \in gone
          BY <1>9, <4>0, <5>1, <5>2, <5>3
        <5> QED
          BY <1>12, <5>4
      <4> QED
        BY <4>1, <4>2
    <3>7. Star \in Nat /\ Star = IF i \in stars2 THEN Star ELSE i
      BY <3>1 DEF stars2, Star
    <3>8. Shows(f[k], i, hi, stars2, gone2)
      BY <2>5, <3>2, <3>4, <3>5, <3>6, <3>7
    <3> QED
      BY <2>2, <3>8
  <2>7. CASE ~Hit(k)
    <3> DEFINE h == k + 1
    <3>1. i \notin raw
      BY <1>8, <2>7
    <3>2. h \in k + 1..n + 1 /\ h \in Nat
      BY <1>3, <2>1
    <3>4. f[k] = <<buf[k]>> \o f[h]
      BY <1>5, <2>7
    <3>5. Unspoilt(h)
      <4> SUFFICES ASSUME h # n + 1, e[h] \in gone2 PROVE FALSE
        OBVIOUS
      <4>1. h \in 1..n /\ k < h
        BY <1>3, <2>1
      <4>2. e[h] \notin gone /\ i < e[h] /\ e[h] \in Nat
        BY <1>3, <1>6, <4>1
      <4>3. PICK q \in raw : q < e[h] /\ e[h] <= q + l - 1
        BY <1>12, <4>2
      <4>4. PICK a \in 1..n : a < h /\ e[a] = q
        BY <1>14, <4>1, <4>3
      <4>5. a # k
        BY <3>1, <4>4
      <4>6. a < k
        BY <2>1, <4>4, <4>5
      <4>7. q < i /\ q \in Nat
        BY <1>6, <1>10, <4>4, <4>6
      <4>8. i <= q + l - 1
        <5> DEFINE y == e[h]
        <5> HIDE DEF y, i
        <5>1. i \in Nat /\ q \in Nat /\ l \in Nat /\ y \in Nat /\ i < y /\ y <= q + l - 1
          BY <1>3, <2>1, <4>2, <4>3, <4>7 DEF y
        <5> QED
          BY ONLY <5>1
      <4>9. i \in gone2
        BY <1>12, <2>1, <4>7, <4>8
      <4> QED
        BY <2>2, <4>9
    <3>6. ASSUME NEW q \in i + 1..Pos(h) - 1 PROVE q \in gone2
      <4>0. q \in Nat /\ q \in lo..hi /\ i < q /\ q < Pos(h)
        <5>1. Pos(h) \in Nat /\ Pos(h) <= hi + 1
          BY <2>4, <3>2
        <5> DEFINE top == Pos(h)
        <5> HIDE DEF top, i, Pos
        <5>2. top \in Nat /\ top <= hi + 1 /\ i \in lo..hi /\ i \in Nat /\ q \in i + 1..top - 1
          BY <2>1, <5>1 DEF top
        <5>3. q \in Nat /\ q \in lo..hi /\ i < q /\ q < top
          BY ONLY <5>2, lo \in Nat \ {0}, hi \in Nat
        <5> QED
          BY <5>3 DEF top
      <4>1. k < n => q < e[k + 1]
        BY <1>3, <2>1, <4>0
      <4>2. k \in 0..n /\ e[k] < q
        BY <1>3, <2>1, <4>0
      <4>3. q \in gone
        BY <1>9, <4>0, <4>1, <4>2
      <4> QED
        BY <1>12, <4>3
    <3>7. buf[k] \in Nat /\ buf[k] = IF i \in stars2 THEN Star ELSE i
      <4>1. buf[k] = IF i \in stars THEN Star ELSE i
        BY <1>6
      <4> QED
        BY <2>1, <3>1, <4>1 DEF stars2, Star
    <3> HIDE DEF h
    <3>8. Shows(f[k], i, hi, stars2, gone2)
      <4> DEFINE x == buf[k]
      <4> HIDE DEF x
      <4>1. x \in Nat /\ f[k] = <<x>> \o f[h] /\ x = IF i \in stars2 THEN Star ELSE i
        BY <3>4, <3>7 DEF x
      <4> QED
        BY <2>5, <3>2, <3>5, <3>6, <4>1
    <3> QED
      BY <2>2, <3>8
  <2> QED
    BY <2>6, <2>7
<1>16. Bad = {}
  <2>1. Bad \in SUBSET (1..n)
    OBVIOUS
  <2> HIDE DEF Bad
  <2> QED
    BY <1>3, <1>15, <2>1, Downwards
<1>17. Fine(1)
  <2>1. CASE n = 0
    <3>1. n + 1 = 1
      BY <2>1
    <3> HIDE DEF Fine
    <3> QED
      BY <1>13, <3>1
  <2>2. CASE n # 0
    <3>1. 1 \in 1..n
      BY <1>3, <2>2
    <3> HIDE DEF Fine
    <3> QED
      BY <1>16, <3>1 DEF Bad
  <2> QED
    BY <2>1, <2>2
<1>18. Unspoilt(1)
  <2> SUFFICES ASSUME 1 # n + 1, e[1] \in gone2 PROVE FALSE
    OBVIOUS
  <2>1. 1 \in 1..n
    BY <1>3
  <2>2. e[1] \notin gone
    BY <1>6, <2>1
  <2>3. PICK q \in raw : q < e[1]
    BY <1>12, <2>2
  <2>4. PICK a \in 1..n : a < 1
    BY <1>14, <2>1, <2>3
  <2> QED
    BY <2>4
<1> DEFINE top == Pos(1)
<1>19. top \in lo..hi + 1
  <2>1. CASE n = 0
    BY <2>1
  <2>2. CASE n # 0
    <3>1. 1 \in 1..n /\ 1 # n + 1
      BY <1>3, <2>2
    <3>2. e[1] \in lo..hi
      BY <1>6, <3>1
    <3> QED
      BY <3>1, <3>2
  <2> QED
    BY <2>1, <2>2
<1>20. ASSUME NEW q \in lo..top - 1 PROVE q \in gone2
  <2>1. q \in lo..hi /\ q < top
    BY <1>19
  <2>2. 0 < n => q < e[0 + 1]
    BY <1>3, <2>1
  <2>3. 0 \in 0..n
    BY <1>3
  <2>4. q \in gone
    BY <1>9, <2>1, <2>2, <2>3
  <2> QED
    BY <1>12, <2>4
<1>21. Shows(f[1], top, hi, stars2, gone2)
  BY <1>17, <1>18
<1> HIDE DEF top
<1>22. Shows(<<>> \o f[1], lo, hi, stars2, gone2)
  <2> DEFINE mid == top - 1
  <2>1. mid \in Nat /\ lo <= mid + 1 /\ mid <= hi /\ mid + 1 = top
    BY <1>19
  <2> HIDE DEF mid
  <2>2. Shows(<<>>, lo, mid, stars2, gone2)
    <3>1. \A q \in lo..mid : q \in gone2
      BY <1>20 DEF mid
    <3> QED
      BY <2>1, <3>1, ShowsNone
  <2>3. Shows(f[1], mid + 1, hi, stars2, gone2)
    BY <1>21, <2>1
  <2> QED
    BY <2>1, <2>2, <2>3, ShowsConcat
<1>23. <<>> \o f[1] = f[1]
  <2>1. f[1] \in Seq(Nat)
    BY <1>21 DEF Shows, Sees
  <2> QED
    BY <2>1
<1> QED
  BY <1>5, <1>22, <1>23 DEF stars2, gone2, l

\* Positions that stretches hide, those of them that a Star takes, and the others.
\* A stretch is the pair of its first and its last position.
Hidden(spans) == {q \in Nat : \E f \in spans : f[1] <= q /\ q <= f[2]}
Starts(spans) == {q \in Nat : (\E f \in spans : f[1] = q) /\ \A f \in spans : f[1] < q => f[2] < q}
Gone(spans) == Hidden(spans) \ Starts(spans)

\* The stretches from first positions on.
Stretched(spans) == spans \subseteq (Nat \ {0}) \X Nat /\ \A f \in spans : f[1] <= f[2]

\* What is hidden is taken by a Star or gone, and what is gone follows on what is hidden.
LEMMA HiddenParts ==
  ASSUME NEW spans, Stretched(spans)
  PROVE  /\ Hidden(spans) = Starts(spans) \cup Gone(spans)
         /\ \A i \in Nat \ {0} : i \in Gone(spans) => i - 1 \in Hidden(spans)
         /\ \A i \in Hidden(spans) : i # 0
<1>0. \A f \in spans : f[1] \in Nat \ {0} /\ f[2] \in Nat /\ f[1] <= f[2]
  BY DEF Stretched
<1>1. Starts(spans) \subseteq Hidden(spans)
  BY <1>0 DEF Starts, Hidden
<1>2. ASSUME NEW i \in Nat \ {0}, i \in Gone(spans) PROVE i - 1 \in Hidden(spans)
  <2>1. i \in Hidden(spans) /\ i \notin Starts(spans)
    BY <1>2 DEF Gone
  <2>2. PICK f \in spans : f[1] < i /\ i <= f[2]
    <3>1. CASE \E f \in spans : f[1] = i
      BY <1>0, <2>1, <3>1 DEF Starts
    <3>2. CASE ~ \E f \in spans : f[1] = i
      <4>1. PICK f \in spans : f[1] <= i /\ i <= f[2]
        BY <2>1 DEF Hidden
      <4>2. f[1] # i /\ f[1] \in Nat
        BY <1>0, <3>2
      <4> QED
        BY <4>1, <4>2
    <3> QED
      BY <3>1, <3>2
  <2>3. f[1] \in Nat /\ f[2] \in Nat
    BY <1>0
  <2>4. f[1] <= i - 1 /\ i - 1 <= f[2] /\ i - 1 \in Nat
    BY <2>2, <2>3
  <2> QED
    BY <2>4 DEF Hidden
<1>3. \A i \in Hidden(spans) : i # 0
  BY <1>0 DEF Hidden
<1> QED
  BY <1>1, <1>2, <1>3 DEF Gone

\* Stretches of the length l, each inside one of the others or apart from all of them: raw
\* are the first positions of the latter.
Adds(spans, more, raw, l) ==
  /\ Stretched(spans) /\ Stretched(more) /\ l \in Nat \ {0} /\ raw \subseteq Nat
  /\ \A q \in more : q[2] = q[1] + l - 1
  /\ \A q \in more : \/ \E f \in spans : f[1] <= q[1] /\ q[2] <= f[2]
                     \/ \A p \in q[1]..q[2] : p \notin Hidden(spans)
  /\ \A i \in raw : \E q \in more : q[1] = i /\ \A p \in i..q[2] : p \notin Hidden(spans)
  /\ \A q \in more : (\A p \in q[1]..q[2] : p \notin Hidden(spans)) => q[1] \in raw
  /\ Apart(raw, l)

\* Only the latter change what is hidden.
Grown(spans, more, raw, l) ==
  /\ Starts(spans \cup more) = Starts(spans) \cup raw
  /\ Gone(spans \cup more) = Gone(spans) \cup Rest(raw, l)

\* The stretches of one more secret.
LEMMA OneMore ==
  ASSUME NEW spans, NEW more, NEW raw, NEW l, Adds(spans, more, raw, l)
  PROVE  Grown(spans, more, raw, l)
<1> DEFINE all == spans \cup more
           Free(q) == \A p \in q[1]..q[2] : p \notin Hidden(spans)
           Inside(q) == \E f \in spans : f[1] <= q[1] /\ q[2] <= f[2]
<1>h. /\ Stretched(spans) /\ Stretched(more) /\ l \in Nat \ {0} /\ raw \subseteq Nat
      /\ \A q \in more : q[2] = q[1] + l - 1
      /\ \A q \in more : Inside(q) \/ Free(q)
      /\ \A i \in raw : \E q \in more : q[1] = i /\ \A p \in i..q[2] : p \notin Hidden(spans)
      /\ \A q \in more : Free(q) => q[1] \in raw
      /\ Apart(raw, l)
  BY DEF Adds
<1> USE <1>h
<1>1. \A f \in all : f[1] \in Nat \ {0} /\ f[2] \in Nat /\ f[1] <= f[2]
  BY DEF Stretched
<1>2. \A q \in more : Inside(q) \/ Free(q)
  OBVIOUS
<1>3. ASSUME NEW q \in Nat PROVE q \in Hidden(all) <=> q \in Hidden(spans) \/ q \in raw \/ q \in Rest(raw, l)
  <2>1. ASSUME q \in Hidden(all), q \notin Hidden(spans) PROVE q \in raw \/ q \in Rest(raw, l)
    <3>1. PICK f \in all : f[1] <= q /\ q <= f[2]
      BY <2>1 DEF Hidden
    <3>2. f \notin spans
      BY <2>1, <3>1 DEF Hidden
    <3>3. f \in more /\ f[1] \in Nat /\ f[2] \in Nat /\ f[2] = f[1] + l - 1
      BY <1>1, <3>2
    <3>4. ~Inside(f)
      <4> SUFFICES ASSUME NEW g \in spans, g[1] <= f[1], f[2] <= g[2] PROVE FALSE
        OBVIOUS
      <4>1. g[1] \in Nat /\ g[2] \in Nat
        BY <1>1
      <4>2. g[1] <= q /\ q <= g[2]
        BY <3>1, <3>3, <4>1
      <4> QED
        BY <2>1, <4>2 DEF Hidden
    <3>5. f[1] \in raw
      BY <1>2, <3>3, <3>4
    <3>6. f[1] = q \/ f[1] < q
      BY <3>1, <3>3
    <3> QED
      BY <3>1, <3>3, <3>5, <3>6 DEF Rest
  <2>2. q \in Hidden(spans) => q \in Hidden(all)
    BY DEF Hidden
  <2>3. ASSUME q \in raw PROVE q \in Hidden(all)
    <3>1. PICK f \in more : f[1] = q
      BY <2>3
    <3>2. f \in all /\ f[1] <= q /\ q <= f[2]
      BY <1>1, <3>1
    <3> QED
      BY <3>2 DEF Hidden
  <2>4. ASSUME q \in Rest(raw, l) PROVE q \in Hidden(all)
    <3>1. PICK i \in raw : i < q /\ q <= i + l - 1
      BY <2>4 DEF Rest
    <3>2. PICK f \in more : f[1] = i
      OBVIOUS
    <3>3. f \in all /\ f[1] <= q /\ q <= f[2]
      BY <3>1, <3>2
    <3> QED
      BY <3>3 DEF Hidden
  <2> QED
    BY <2>1, <2>2, <2>3, <2>4
<1>4. \A i \in raw : i \in Nat /\ i \notin Hidden(spans)
  <2> SUFFICES ASSUME NEW i \in raw PROVE i \in Nat /\ i \notin Hidden(spans)
    OBVIOUS
  <2>1. PICK q \in more : q[1] = i /\ \A p \in i..q[2] : p \notin Hidden(spans)
    OBVIOUS
  <2>2. i \in i..q[2]
    BY <1>1, <2>1
  <2> QED
    BY <2>1, <2>2
<1>5. ASSUME NEW q \in Rest(raw, l) PROVE q \in Nat /\ q \notin Hidden(spans) /\ q \notin raw
  <2>1. PICK i \in raw : i < q /\ q <= i + l - 1
    BY DEF Rest
  <2>2. PICK f \in more : f[1] = i /\ \A p \in i..f[2] : p \notin Hidden(spans)
    OBVIOUS
  <2>3. i \in Nat /\ q \in Nat /\ f[2] = i + l - 1 /\ q \in i..f[2]
    BY <1>1, <2>1, <2>2 DEF Rest
  <2>4. q \notin raw
    <3> SUFFICES ASSUME q \in raw PROVE FALSE
      OBVIOUS
    <3>1. i + l <= q
      BY <2>1 DEF Apart
    <3> QED
      BY <2>1, <2>3, <3>1
  <2> QED
    BY <2>2, <2>3, <2>4
<1>6. ASSUME NEW q \in Nat PROVE q \in Starts(all) <=> q \in Starts(spans) \/ q \in raw
  <2>1. ASSUME q \in Starts(all), q \notin raw PROVE q \in Starts(spans)
    <3>1. \A f \in spans : f[1] < q => f[2] < q
      BY <2>1 DEF Starts
    <3>2. PICK f \in all : f[1] = q
      BY <2>1 DEF Starts
    <3>3. CASE f \in spans
      BY <3>1, <3>2, <3>3 DEF Starts
    <3>4. CASE f \in more
      <4>1. ~Free(f)
        BY <2>1, <3>2, <3>4
      <4>2. PICK g \in spans : g[1] <= f[1] /\ f[2] <= g[2]
        BY <1>2, <3>4, <4>1
      <4>3. g[1] \in Nat /\ g[2] \in Nat /\ f[2] \in Nat /\ q <= f[2]
        BY <1>1, <3>2
      <4>4. ~(g[1] < q)
        <5> SUFFICES ASSUME g[1] < q PROVE FALSE
          OBVIOUS
        <5>1. g[2] < q
          BY <3>1
        <5> QED
          BY <4>2, <4>3, <5>1
      <4>5. g[1] = q
        BY <3>2, <4>2, <4>3, <4>4
      <4> QED
        BY <3>1, <4>5 DEF Starts
    <3> QED
      BY <3>3, <3>4
  <2>2. ASSUME q \in Starts(spans) PROVE q \in Starts(all)
    <3>1. \A f \in spans : f[1] < q => f[2] < q
      BY <2>2 DEF Starts
    <3>2. PICK f \in spans : f[1] = q
      BY <2>2 DEF Starts
    <3>3. q \in Hidden(spans)
      BY <1>1, <3>2 DEF Hidden
    <3>4. ASSUME NEW g \in more, g[1] < q PROVE g[2] < q
      <4> SUFFICES ASSUME ~(g[2] < q) PROVE FALSE
        OBVIOUS
      <4>1. g[1] \in Nat /\ g[2] \in Nat /\ q \in g[1]..g[2]
        BY <1>1, <3>4
      <4>2. PICK h \in spans : h[1] <= g[1] /\ g[2] <= h[2]
        BY <1>2, <3>3, <4>1
      <4>3. h[1] \in Nat /\ h[2] \in Nat
        BY <1>1
      <4>4. h[1] < q /\ ~(h[2] < q)
        BY <3>4, <4>1, <4>2, <4>3
      <4> QED
        BY <3>1, <4>4
    <3> QED
      BY <3>1, <3>2, <3>4 DEF Starts
  <2>3. ASSUME q \in raw PROVE q \in Starts(all)
    <3>1. PICK f \in more : f[1] = q /\ \A p \in q..f[2] : p \notin Hidden(spans)
      BY <2>3
    <3>2. q \notin Hidden(spans)
      BY <1>4, <2>3
    <3>3. ASSUME NEW g \in all, g[1] < q PROVE g[2] < q
      <4> SUFFICES ASSUME ~(g[2] < q) PROVE FALSE
        OBVIOUS
      <4>1. g[1] \in Nat /\ g[2] \in Nat /\ g[1] <= q /\ q <= g[2]
        BY <1>1, <3>3
      <4>2. g \notin spans
        BY <3>2, <4>1 DEF Hidden
      <4>3. ~Inside(g)
        <5> SUFFICES ASSUME NEW h \in spans, h[1] <= g[1], g[2] <= h[2] PROVE FALSE
          OBVIOUS
        <5>1. h[1] \in Nat /\ h[2] \in Nat
          BY <1>1
        <5>2. h[1] <= q /\ q <= h[2]
          BY <4>1, <5>1
        <5> QED
          BY <3>2, <5>2 DEF Hidden
      <4>4. g[1] \in raw /\ g[2] = g[1] + l - 1
        BY <1>2, <4>2, <4>3
      <4>5. g[1] + l <= q
        BY <2>3, <3>3, <4>4 DEF Apart
      <4> QED
        BY <4>1, <4>4, <4>5
    <3> QED
      BY <3>1, <3>3 DEF Starts
  <2> QED
    BY <2>1, <2>2, <2>3
<1>7. Starts(all) \subseteq Nat /\ Starts(spans) \subseteq Nat /\ Hidden(all) \subseteq Nat /\ Hidden(spans) \subseteq Nat
  BY DEF Starts, Hidden
<1>8. Starts(spans) \subseteq Hidden(spans)
  BY HiddenParts DEF Gone
<1>9. Starts(all) = Starts(spans) \cup raw
  BY <1>6, <1>7
<1>10. ASSUME NEW q \in Nat PROVE q \in Gone(all) <=> q \in Gone(spans) \/ q \in Rest(raw, l)
  BY <1>3, <1>4, <1>5, <1>6, <1>8 DEF Gone
<1>11. Gone(all) \subseteq Nat /\ Gone(spans) \subseteq Nat /\ Rest(raw, l) \subseteq Nat
  BY <1>7 DEF Gone, Rest
<1>12. Gone(all) = Gone(spans) \cup Rest(raw, l)
  BY <1>10, <1>11
<1> QED
  BY <1>9, <1>12 DEF Grown

\* Two occurrences with a position in common, of secrets that do not overlap: the later
\* one ends no later.
LEMMA NoOverlap ==
  ASSUME NEW T, NEW output, NEW s \in Seq(T), NEW t \in Seq(T), ~Overlap(s, t),
         NEW i \in Nat, NEW k \in Nat, Spells(output, i, s), Spells(output, k, t),
         i < k, k <= i + Len(s) - 1
  PROVE  k + Len(t) <= i + Len(s)
<1> DEFINE l == i + Len(s) - k
           a == Len(s) - l + 1
<1>1. Len(s) \in Nat /\ Len(t) \in Nat /\ DOMAIN s = 1..Len(s) /\ DOMAIN t = 1..Len(t)
  OBVIOUS
<1> SUFFICES ASSUME k + Len(t) > i + Len(s) PROVE FALSE
  BY <1>1
<1>2. l \in 1..Len(t) - 1 /\ l < Len(s) /\ l \in Nat /\ a = k - i + 1 /\ a \in 1..Len(s) /\ Len(s) - a + 1 = l
  BY <1>1
<1> HIDE DEF l, a
<1> DEFINE x == SubSeq(s, a, Len(s))
           y == SubSeq(t, 1, l)
<1>3. x \in Seq(T) /\ Len(x) = l /\ \A d \in 1..l : x[d] = s[a + d - 1]
  <2>1. \A c \in a..Len(s) : s[c] \in T
    BY <1>1, <1>2
  <2>2. a \in Int /\ Len(s) \in Int /\ a <= Len(s)
    BY <1>1, <1>2
  <2> DEFINE n == Len(s)
  <2> HIDE DEF n
  <2>3. /\ SubSeq(s, a, n) \in Seq(T)
        /\ Len(SubSeq(s, a, n)) = IF a <= n THEN n - a + 1 ELSE 0
        /\ \A d \in 1..n - a + 1 : SubSeq(s, a, n)[d] = s[a + d - 1]
    BY <2>1, <2>2, SubSeqProperties DEF n
  <2> QED
    BY <1>2, <2>2, <2>3 DEF n
<1>4. y \in Seq(T) /\ Len(y) = l /\ \A d \in 1..l : y[d] = t[d]
  BY <1>1, <1>2
<1>5. ASSUME NEW d \in 1..l PROVE s[a + d - 1] = t[d]
  <2>1. a + d - 1 \in 1..Len(s) /\ d \in 1..Len(t)
    BY <1>1, <1>2
  <2>2. i + (a + d - 1) - 1 = k + d - 1
    BY <1>2
  <2> DEFINE c == a + d - 1
  <2> HIDE DEF c
  <2>3. output[i + c - 1] = s[c]
    BY <1>1, <2>1 DEF Spells, c
  <2>4. output[k + d - 1] = t[d]
    BY <1>1, <2>1 DEF Spells
  <2> QED
    BY <2>2, <2>3, <2>4 DEF c
<1> HIDE DEF x, y
<1>6. x = y
  <2>1. \A d \in 1..l : x[d] = y[d]
    BY <1>3, <1>4, <1>5
  <2> QED
    BY <1>3, <1>4, <2>1
<1>7. l \in ProperPrefixes(t)
  BY <1>2 DEF ProperPrefixes
<1> QED
  BY <1>2, <1>6, <1>7 DEF Overlap, x, y, a

\* An occurrence inside another one.
LEMMA NestedIn ==
  ASSUME NEW T, NEW output, NEW s \in Seq(T), NEW t \in Seq(T), s # t,
         NEW i \in Nat, NEW k \in Nat, Spells(output, i, s), Spells(output, k, t),
         k <= i, i + Len(s) <= k + Len(t)
  PROVE  Nested(s, t)
<1> DEFINE l == Len(s)
           c == i - k
           x == SubSeq(t, c + 1, c + l)
<1>1. l \in Nat /\ Len(t) \in Nat /\ DOMAIN s = 1..l /\ DOMAIN t = 1..Len(t)
  OBVIOUS
<1>2. c \in 0..Len(t) - l /\ c \in Nat /\ c + l <= Len(t) /\ c + l - (c + 1) + 1 = l /\ i = k + c
  BY <1>1
<1> HIDE DEF c
<1>3. x \in Seq(T) /\ Len(x) = l /\ \A d \in 1..l : x[d] = t[c + d]
  <2> DEFINE n == c + l
             m == c + 1
  <2>1. m \in Int /\ n \in Int /\ \A q \in m..n : t[q] \in T
    BY <1>1, <1>2
  <2>2. n - m + 1 = l /\ (m <= n \/ l = 0) /\ ~(m <= n /\ l = 0)
    BY <1>1, <1>2
  <2>3. \A d \in 1..l : m + d - 1 = c + d
    BY <1>2
  <2> HIDE DEF n, m, l
  <2>4. /\ SubSeq(t, m, n) \in Seq(T)
        /\ Len(SubSeq(t, m, n)) = IF m <= n THEN n - m + 1 ELSE 0
        /\ \A d \in 1..n - m + 1 : SubSeq(t, m, n)[d] = t[m + d - 1]
    BY <2>1, SubSeqProperties
  <2> QED
    BY <2>2, <2>3, <2>4 DEF n, m
<1>4. ASSUME NEW d \in 1..l PROVE t[c + d] = s[d]
  <2>1. c + d \in 1..Len(t) /\ i + d - 1 = k + (c + d) - 1
    BY <1>1, <1>2
  <2> DEFINE q == c + d
  <2> HIDE DEF q
  <2>2. output[k + q - 1] = t[q]
    BY <1>1, <2>1 DEF Spells, q
  <2>3. output[i + d - 1] = s[d]
    BY <1>1 DEF Spells
  <2> QED
    BY <2>1, <2>2, <2>3 DEF q
<1> HIDE DEF x
<1>5. x = s
  <2>1. \A d \in 1..l : x[d] = s[d]
    BY <1>3, <1>4
  <2> QED
    BY <1>1, <1>3, <2>1
<1> QED
  BY <1>2, <1>5 DEF Nested, x, l

\* The stretches up to fed, and those of the first m secrets up to end.
Spans(output, secrets, m, fed, end) ==
  {f \in (Nat \ {0}) \X Nat :
     \E j \in DOMAIN secrets :
       /\ f[2] = f[1] + Len(secrets[j]) - 1 /\ Spells(output, f[1], secrets[j])
       /\ f[2] <= end /\ (f[2] <= fed \/ j <= m)}

\* Those of one secret.
SpansOf(output, secret, end) ==
  {f \in (Nat \ {0}) \X Nat :
     f[2] = f[1] + Len(secret) - 1 /\ Spells(output, f[1], secret) /\ f[2] <= end}

\* All of them.
All(output, secrets, fed) == Spans(output, secrets, 0, fed, fed)

\* The last symbols of a secret were written together with those that begin it or the
\* latter are all held back, from lo on, and nothing in it is hidden.
Steady(output, secrets, fed, end, lo) ==
  \A k \in DOMAIN secrets : \A i \in Nat \ {0} :
    Spells(output, i, secrets[k]) /\ fed < i + Len(secrets[k]) - 1 /\ i + Len(secrets[k]) - 1 <= end =>
      lo <= i /\ \A p \in i..i + Len(secrets[k]) - 1 : p \notin Hidden(All(output, secrets, fed))

Separate(secrets) == \A j, k \in DOMAIN secrets : ~Overlap(secrets[j], secrets[k])
Longest(secrets) == \A j, k \in DOMAIN secrets : j < k => Len(secrets[j]) >= Len(secrets[k])

\* What one more pass of replace does.
LEMMA PassShows ==
  ASSUME NEW T, NEW output, NEW secrets \in Seq(Seq(T)), \A j \in DOMAIN secrets : secrets[j] # <<>>,
         Separate(secrets), Longest(secrets),
         NEW fed \in Nat, NEW end \in Nat, fed <= end, NEW lo \in Nat \ {0}, lo <= end + 1,
         Steady(output, secrets, fed, end, lo),
         NEW m \in 1..Len(secrets), NEW old, old = Spans(output, secrets, m - 1, fed, end),
         NEW t, Shows(t, lo, end, Starts(old), Gone(old)),
         NEW new, new = Spans(output, secrets, m, fed, end)
  PROVE  Shows(ReplacedAll(output, t, secrets[m]), lo, end, Starts(new), Gone(new))
<1> DEFINE secret == secrets[m]
           l == Len(secret)
           more == SpansOf(output, secret, end)
           raw == Raw(output, secret, lo, end, Hidden(old))
<1>1. /\ secret \in Seq(T) /\ secret # <<>> /\ l \in Nat \ {0} /\ m \in DOMAIN secrets
      /\ \A j \in DOMAIN secrets : secrets[j] \in Seq(T) /\ Len(secrets[j]) \in Nat \ {0} /\ j \in Nat
  <2>1. \A j \in DOMAIN secrets : secrets[j] \in Seq(T) /\ secrets[j] # <<>> /\ j \in Nat
    OBVIOUS
  <2>2. \A j \in DOMAIN secrets : Len(secrets[j]) \in Nat \ {0}
    BY <2>1
  <2>3. m \in DOMAIN secrets
    OBVIOUS
  <2> QED
    BY <2>1, <2>2, <2>3
<1> HIDE DEF secret, l
<1>2. ASSUME NEW f \in old
      PROVE  /\ f[1] \in Nat \ {0} /\ f[2] \in Nat /\ f[1] <= f[2]
             /\ \E j \in DOMAIN secrets :
                  /\ f[2] = f[1] + Len(secrets[j]) - 1 /\ Spells(output, f[1], secrets[j])
                  /\ f[2] <= end /\ (f[2] <= fed \/ j <= m - 1)
  <2>1. f \in (Nat \ {0}) \X Nat
    BY DEF Spans
  <2>2. PICK j \in DOMAIN secrets :
                  /\ f[2] = f[1] + Len(secrets[j]) - 1 /\ Spells(output, f[1], secrets[j])
                  /\ f[2] <= end /\ (f[2] <= fed \/ j <= m - 1)
    BY DEF Spans
  <2>3. f[1] \in Nat \ {0} /\ f[2] \in Nat
    BY <2>1
  <2>4. Len(secrets[j]) \in Nat \ {0}
    BY <1>1
  <2> QED
    BY <2>2, <2>3, <2>4, EndsBehind, Zenon
<1>3. Stretched(old)
  BY <1>2 DEF Stretched, Spans
<1>4. ASSUME NEW q \in more
      PROVE  /\ q[1] \in Nat \ {0} /\ q[2] \in Nat /\ q[1] <= q[2]
             /\ q[2] = q[1] + l - 1 /\ Spells(output, q[1], secret) /\ q[2] <= end
  BY <1>1 DEF SpansOf, l
<1>5. Stretched(more)
  BY <1>4 DEF Stretched, SpansOf
<1>6. new = old \cup more
  <2>1. ASSUME NEW f \in new PROVE f \in old \cup more
    <3>1. PICK j \in DOMAIN secrets :
                  /\ f[2] = f[1] + Len(secrets[j]) - 1 /\ Spells(output, f[1], secrets[j])
                  /\ f[2] <= end /\ (f[2] <= fed \/ j <= m)
      BY DEF Spans
    <3>2. f \in (Nat \ {0}) \X Nat
      BY DEF Spans
    <3>3. CASE j = m
      BY <3>1, <3>2, <3>3 DEF SpansOf, secret
    <3>4. CASE j # m
      <4>1. f[2] <= fed \/ j <= m - 1
        BY <1>1, <3>1, <3>4
      <4> QED
        BY <3>1, <3>2, <4>1 DEF Spans
    <3> QED
      BY <3>3, <3>4
  <2>2. ASSUME NEW f \in old PROVE f \in new
    <3>1. PICK j \in DOMAIN secrets :
                  /\ f[2] = f[1] + Len(secrets[j]) - 1 /\ Spells(output, f[1], secrets[j])
                  /\ f[2] <= end /\ (f[2] <= fed \/ j <= m - 1)
      BY <1>2
    <3>2. f \in (Nat \ {0}) \X Nat
      BY DEF Spans
    <3>3. j <= m - 1 => j <= m
      BY <1>1
    <3> QED
      BY <3>1, <3>2, <3>3 DEF Spans
  <2>3. ASSUME NEW f \in more PROVE f \in new
    <3>1. f \in (Nat \ {0}) \X Nat
      BY DEF SpansOf
    <3>2. m <= m
      OBVIOUS
    <3> QED
      BY <1>1, <1>4, <3>1, <3>2 DEF Spans, secret, l
  <2> QED
    BY <2>1, <2>2, <2>3
<1> HIDE DEF more
\* A stretch of this secret that has a position in common with another is inside of it.
<1>7. ASSUME NEW q \in more, NEW p \in q[1]..q[2], p \in Hidden(old)
      PROVE  \E f \in old : f[1] <= q[1] /\ q[2] <= f[2]
  <2>0. /\ q[1] \in Nat \ {0} /\ q[2] \in Nat /\ q[1] <= q[2]
        /\ q[2] = q[1] + l - 1 /\ Spells(output, q[1], secret) /\ q[2] <= end
    BY <1>4
  <2>1. CASE q[2] <= fed
    <3>1. q \in old
      BY <1>1, <2>0, <2>1 DEF Spans, SpansOf, more, secret, l
    <3>2. q[1] <= q[1] /\ q[2] <= q[2]
      BY <2>0
    <3> QED
      BY <3>1, <3>2
  <2>2. CASE ~(q[2] <= fed)
    <3>1. fed < q[1] + Len(secrets[m]) - 1 /\ q[1] + Len(secrets[m]) - 1 <= end
      BY <2>0, <2>2 DEF l, secret
    <3>2. p \notin Hidden(All(output, secrets, fed))
      BY <1>1, <2>0, <3>1 DEF Steady, l, secret
    <3>3. PICK f \in old : f[1] <= p /\ p <= f[2]
      BY <1>7 DEF Hidden
    <3>4. PICK j \in DOMAIN secrets :
                  /\ f[2] = f[1] + Len(secrets[j]) - 1 /\ Spells(output, f[1], secrets[j])
                  /\ f[2] <= end /\ (f[2] <= fed \/ j <= m - 1)
      BY <1>2
    <3>5. f[1] \in Nat \ {0} /\ f[2] \in Nat /\ f[1] <= f[2] /\ f \in (Nat \ {0}) \X Nat
      BY <1>2 DEF Spans
    <3>6. ~(f[2] <= fed)
      <4> SUFFICES ASSUME f[2] <= fed PROVE FALSE
        OBVIOUS
      <4>1. f \in All(output, secrets, fed)
        BY <3>4, <3>5 DEF All, Spans
      <4>2. p \in Nat
        BY <1>7 DEF Hidden
      <4> QED
        BY <3>2, <3>3, <4>1, <4>2 DEF Hidden
    <3>7. j <= m - 1
      BY <3>4, <3>6
    <3> DEFINE longer == Len(secrets[j])
    <3>8. longer >= l /\ longer \in Nat
      <4>1. j < m
        BY <1>1, <3>7
      <4> QED
        BY <1>1, <4>1 DEF Longest, l, secret
    <3>9. ~Overlap(secrets[j], secret) /\ ~Overlap(secret, secrets[j])
      BY <1>1 DEF Separate, secret
    <3>10. f[1] <= q[1]
      <4> SUFFICES ASSUME q[1] < f[1] PROVE FALSE
        BY <2>0, <3>5, SMTT(30)
      <4>1. f[1] <= q[1] + Len(secret) - 1
        BY <1>7, <2>0, <3>3, <3>5 DEF l
      <4>2. f[1] + Len(secrets[j]) <= q[1] + Len(secret)
        BY <1>1, <2>0, <3>4, <3>5, <3>9, <4>1, NoOverlap
      <4> DEFINE x == f[1]
                 y == q[1]
      <4> HIDE DEF x, y, longer
      <4>3. x \in Nat /\ y \in Nat /\ l \in Nat /\ longer \in Nat /\ longer >= l /\ y < x /\ x + longer <= y + l
        BY <1>1, <2>0, <3>5, <3>8, <4>2 DEF x, y, l, longer
      <4> QED
        BY ONLY <4>3
    <3> DEFINE x == f[1]
               y == q[1]
               x2 == f[2]
               y2 == q[2]
    <3>n. /\ x \in Nat /\ y \in Nat /\ l \in Nat /\ longer \in Nat /\ longer >= l /\ x <= y /\ p \in y..y2
          /\ x2 = x + longer - 1 /\ y2 = y + l - 1 /\ x2 \in Nat /\ y2 \in Nat /\ p <= x2
      BY <1>1, <1>7, <2>0, <3>3, <3>4, <3>5, <3>8, <3>10
    <3> HIDE DEF x, y, x2, y2, longer
    <3>11. y2 <= x2
      <4>1. CASE x = y
        BY ONLY <3>n, <4>1
      <4>2. CASE x # y
        <5>1. x < y /\ y <= x + longer - 1
          BY ONLY <3>n, <4>2
        <5>2. f[1] < q[1] /\ q[1] <= f[1] + Len(secrets[j]) - 1
          BY <5>1 DEF x, y, longer
        <5>3. q[1] + Len(secret) <= f[1] + Len(secrets[j])
          BY <1>1, <2>0, <3>4, <3>5, <3>9, <5>2, NoOverlap
        <5>4. y + l <= x + longer
          BY <5>3 DEF x, y, longer, l
        <5> QED
          BY ONLY <3>n, <5>4
      <4> QED
        BY <4>1, <4>2
    <3> QED
      BY <3>10, <3>11 DEF x2, y2
  <2> QED
    BY <2>1, <2>2
<1>8. \A q \in more : \/ \E f \in old : f[1] <= q[1] /\ q[2] <= f[2]
                      \/ \A p \in q[1]..q[2] : p \notin Hidden(old)
  BY <1>7
<1>9. raw \in SUBSET Nat /\ \A i \in raw : i \in Nat \ {0}
  BY DEF Raw
<1>10. ASSUME NEW i \in raw
       PROVE  \E q \in more : q[1] = i /\ \A p \in i..q[2] : p \notin Hidden(old)
  <2>1. i \in Nat \ {0} /\ i + l - 1 \in Nat
    BY <1>1, <1>9, SMTT(30)
  <2> DEFINE q == <<i, i + l - 1>>
  <2>2. /\ i + l - 1 <= end /\ Spells(output, i, secret)
        /\ \A p \in i..i + l - 1 : p \notin Hidden(old)
    BY DEF Raw, l
  <2>3. q \in (Nat \ {0}) \X Nat /\ q[1] = i /\ q[2] = i + l - 1
    BY <2>1
  <2> HIDE DEF q
  <2>4. q \in more
    BY <2>2, <2>3 DEF more, SpansOf, l
  <2> QED
    BY <2>2, <2>3, <2>4
<1>11. ASSUME NEW q \in more, \A p \in q[1]..q[2] : p \notin Hidden(old) PROVE q[1] \in raw
  <2>0. /\ q[1] \in Nat \ {0} /\ q[2] \in Nat /\ q[1] <= q[2]
        /\ q[2] = q[1] + l - 1 /\ Spells(output, q[1], secret) /\ q[2] <= end
    BY <1>4
  <2>1. ~(q[2] <= fed)
    <3> SUFFICES ASSUME q[2] <= fed PROVE FALSE
      OBVIOUS
    <3>1. q \in old
      BY <1>1, <2>0 DEF Spans, SpansOf, more, secret, l
    <3>2. q[1] \in q[1]..q[2]
      BY <2>0
    <3>3. q[1] \in Hidden(old)
      BY <2>0, <3>1 DEF Hidden
    <3> QED
      BY <1>11, <3>2, <3>3
  <2>2. lo <= q[1]
    <3>1. fed < q[1] + Len(secrets[m]) - 1 /\ q[1] + Len(secrets[m]) - 1 <= end
      BY <2>0, <2>1 DEF l, secret
    <3> QED
      BY <1>1, <2>0, <3>1 DEF Steady, l, secret
  <2>3. q[1] \in lo..end
    BY <2>0, <2>2
  <2> QED
    BY <1>11, <2>0, <2>3 DEF Raw, l
<1>12. Apart(raw, l)
  <2> SUFFICES ASSUME NEW i \in raw, NEW k \in raw, i < k, ~(i + l <= k) PROVE FALSE
    BY DEF Apart
  <2>1. i \in Nat \ {0} /\ k \in Nat \ {0}
    BY <1>9
  <2>2. Spells(output, i, secret) /\ Spells(output, k, secret)
    BY DEF Raw
  <2>3. k <= i + Len(secret) - 1
    BY <1>1, <2>1 DEF l
  <2>4. ~Overlap(secret, secret)
    BY <1>1 DEF Separate, secret
  <2>5. k + Len(secret) <= i + Len(secret)
    BY <1>1, <2>1, <2>2, <2>3, <2>4, NoOverlap
  <2> QED
    BY <1>1, <2>1, <2>5 DEF l
<1> HIDE DEF raw
<1>13. Starts(new) = Starts(old) \cup raw /\ Gone(new) = Gone(old) \cup Rest(raw, l)
  <2>1. \A q \in more : q[2] = q[1] + l - 1
    BY <1>4
  <2>2. \A q \in more : (\A p \in q[1]..q[2] : p \notin Hidden(old)) => q[1] \in raw
    BY <1>11
  <2>3. \A i \in raw : \E q \in more : q[1] = i /\ \A p \in i..q[2] : p \notin Hidden(old)
    BY <1>10
  <2>4. Adds(old, more, raw, l)
    BY <1>1, <1>3, <1>5, <1>8, <1>9, <1>12, <2>1, <2>2, <2>3 DEF Adds
  <2>5. Grown(old, more, raw, l)
    BY ONLY <2>4, OneMore
  <2> QED
    BY <1>6, <2>5 DEF Grown
<1> DEFINE stars == Starts(old)
           gone == Gone(old)
<1>14. /\ Hidden(old) = stars \cup gone
       /\ \A i \in lo + 1..end : i \in gone => i - 1 \in stars \cup gone
  <2>1. /\ Hidden(old) = stars \cup gone
        /\ \A i \in Nat \ {0} : i \in gone => i - 1 \in Hidden(old)
    BY <1>3, HiddenParts
  <2>2. \A i \in lo + 1..end : i \in Nat \ {0}
    OBVIOUS
  <2> QED
    BY <2>1, <2>2
<1> HIDE DEF stars, gone
<1>15. raw = Raw(output, secret, lo, end, stars \cup gone)
  BY <1>14 DEF raw
<1>16. Shows(t, lo, end, stars, gone)
  BY DEF stars, gone
<1>17. Shows(ReplacedAll(output, t, secret), lo, end, stars \cup raw, gone \cup Rest(raw, Len(secret)))
  BY <1>1, <1>12, <1>14, <1>15, <1>16, ScanShows DEF l
<1> QED
  BY <1>13, <1>17 DEF stars, gone, secret, l

\* What is hidden up to fed in what the buffer holds is hidden up to end by replace.
LEMMA ReplacedShows ==
  ASSUME NEW T, NEW output, NEW secrets \in Seq(Seq(T)), \A j \in DOMAIN secrets : secrets[j] # <<>>,
         Separate(secrets), Longest(secrets),
         NEW fed \in Nat, NEW end \in Nat, fed <= end, NEW lo \in Nat \ {0}, lo <= end + 1,
         Steady(output, secrets, fed, end, lo),
         NEW old, old = All(output, secrets, fed),
         NEW t, Shows(t, lo, end, Starts(old), Gone(old)),
         NEW new, new = All(output, secrets, end)
  PROVE  Shows(Replaced(output, t, secrets), lo, end, Starts(new), Gone(new))
<1> DEFINE n == Len(secrets)
           Upto(m) == Spans(output, secrets, m, fed, end)
           Marked(u, m) == Shows(u, lo, end, Starts(Upto(m)), Gone(Upto(m)))
<1>1. n \in Nat /\ DOMAIN secrets = 1..n
  OBVIOUS
<1>2. PICK f : Passing(f, output, t, secrets)
  BY <1>1, Passes
<1>3. /\ f[0] = t /\ \A i \in 1..n : f[i] = ReplacedAll(output, f[i - 1], secrets[i])
      /\ Replaced(output, t, secrets) = f[n]
  BY <1>2 DEF Passing
<1>4. Upto(0) = old
  <2>1. \A f1 \in Nat, j \in DOMAIN secrets : f1 <= end /\ (f1 <= fed \/ j <= 0) <=> f1 <= fed /\ (f1 <= fed \/ j <= 0)
    BY <1>1
  <2> QED
    BY <2>1 DEF All, Spans
<1>5. Upto(n) = new
  <2>1. \A f1 \in Nat, j \in DOMAIN secrets : f1 <= end /\ (f1 <= fed \/ j <= n) <=> f1 <= end /\ (f1 <= end \/ j <= 0)
    BY <1>1
  <2> QED
    BY <2>1 DEF All, Spans
<1> DEFINE Bad == {m \in Nat : m \in 0..n /\ ~Marked(f[m], m)}
<1>6. ASSUME NEW m \in Nat, \A i \in 0..m - 1 : i \notin Bad PROVE m \notin Bad
  <2> SUFFICES ASSUME m \in 0..n PROVE Marked(f[m], m)
    OBVIOUS
  <2>1. CASE m = 0
    BY <1>3, <1>4, <2>1
  <2>2. CASE m # 0
    <3>1. m \in 1..n /\ m - 1 \in 0..n /\ m - 1 \in Nat /\ m - 1 \in 0..m - 1
      BY <1>1, <2>2
    <3> DEFINE a == Upto(m - 1)
               b == Upto(m)
               u == f[m - 1]
    <3>2. Shows(u, lo, end, Starts(a), Gone(a))
      BY <1>6, <3>1
    <3>3. a = Spans(output, secrets, m - 1, fed, end) /\ b = Spans(output, secrets, m, fed, end)
      OBVIOUS
    <3>4. m \in 1..Len(secrets)
      BY <3>1
    <3> HIDE DEF a, b, u
    <3>5. Shows(ReplacedAll(output, u, secrets[m]), lo, end, Starts(b), Gone(b))
      BY <3>2, <3>3, <3>4, PassShows
    <3>6. f[m] = ReplacedAll(output, u, secrets[m])
      BY <1>3, <3>1 DEF u
    <3> QED
      BY <3>5, <3>6 DEF b
  <2> QED
    BY <2>1, <2>2
<1>7. Bad = {}
  <2>1. Bad \in SUBSET Nat
    OBVIOUS
  <2> HIDE DEF Bad
  <2> QED
    BY <1>6, <2>1, Upwards
<1>8. Marked(f[n], n)
  <2>1. n \in 0..n
    BY <1>1
  <2> HIDE DEF Marked, n
  <2> QED
    BY <1>1, <1>7, <2>1
<1> HIDE DEF n, Upto
<1> QED
  BY <1>3, <1>5, <1>8

\* No write cut a secret that contains another, up to end.
Uncut(output, secrets, end, cuts) ==
  \A j, k \in DOMAIN secrets : Nested(secrets[j], secrets[k]) =>
    \A i \in Nat \ {0} : Spells(output, i, secrets[k]) /\ i + Len(secrets[k]) - 1 <= end =>
      \A c \in i..i + Len(secrets[k]) - 2 : c \notin cuts

\* The log shows what is left of the output before lo, and the buffer what is left of
\* the rest of what was written.
Halves(output, secrets, fed, buf, shown, lo) ==
  /\ lo \in 1..fed + 1
  /\ Shows(shown, 1, lo - 1, Starts(All(output, secrets, fed)), Gone(All(output, secrets, fed)))
  /\ Shows(buf, lo, fed, Starts(All(output, secrets, fed)), Gone(All(output, secrets, fed)))

\* Stretches up to fed.
LEMMA AllAre ==
  ASSUME NEW T, NEW output, NEW secrets \in Seq(Seq(T)), \A j \in DOMAIN secrets : secrets[j] # <<>>,
         NEW fed \in Nat
  PROVE  /\ Stretched(All(output, secrets, fed))
         /\ \A f \in All(output, secrets, fed) :
              /\ f[1] \in Nat \ {0} /\ f[2] \in Nat /\ f[1] <= f[2] /\ f[2] <= fed
              /\ \E j \in DOMAIN secrets :
                   f[2] = f[1] + Len(secrets[j]) - 1 /\ Spells(output, f[1], secrets[j])
         /\ \A j \in DOMAIN secrets : \A i \in Nat \ {0} :
              Spells(output, i, secrets[j]) /\ i + Len(secrets[j]) - 1 <= fed =>
                <<i, i + Len(secrets[j]) - 1>> \in All(output, secrets, fed)
<1> DEFINE all == All(output, secrets, fed)
<1>1. \A j \in DOMAIN secrets : Len(secrets[j]) \in Nat \ {0}
  <2> SUFFICES ASSUME NEW j \in DOMAIN secrets PROVE Len(secrets[j]) \in Nat \ {0}
    OBVIOUS
  <2>1. secrets[j] \in Seq(T) /\ secrets[j] # <<>>
    OBVIOUS
  <2> QED
    BY <2>1
<1>2. ASSUME NEW f \in all
      PROVE  /\ f \in (Nat \ {0}) \X Nat
             /\ f[1] \in Nat \ {0} /\ f[2] \in Nat /\ f[1] <= f[2] /\ f[2] <= fed
             /\ \E j \in DOMAIN secrets :
                  f[2] = f[1] + Len(secrets[j]) - 1 /\ Spells(output, f[1], secrets[j])
  <2>1. f \in (Nat \ {0}) \X Nat
    BY DEF All, Spans
  <2>2. PICK j \in DOMAIN secrets :
          f[2] = f[1] + Len(secrets[j]) - 1 /\ Spells(output, f[1], secrets[j]) /\ f[2] <= fed
    BY DEF All, Spans
  <2>3. f[1] \in Nat \ {0} /\ f[2] \in Nat
    BY <2>1
  <2>4. f[1] <= f[2]
    BY <1>1, <2>2, <2>3
  <2> QED
    BY <2>1, <2>2, <2>3, <2>4
<1>3. ASSUME NEW j \in DOMAIN secrets, NEW i \in Nat \ {0}, Spells(output, i, secrets[j]),
             i + Len(secrets[j]) - 1 <= fed
      PROVE  <<i, i + Len(secrets[j]) - 1>> \in all
  <2> DEFINE f == <<i, i + Len(secrets[j]) - 1>>
  <2>1. f \in (Nat \ {0}) \X Nat /\ f[1] = i /\ f[2] = i + Len(secrets[j]) - 1
    BY <1>1
  <2> HIDE DEF f
  <2>2. f \in all
    BY <1>3, <2>1 DEF All, Spans
  <2> QED
    BY <2>2 DEF f
<1>4. Stretched(all)
  BY <1>2 DEF Stretched
<1> QED
  BY <1>2, <1>3, <1>4

\* mask.go:82-86: nothing of a secret that is still to be completed is hidden already, and
\* what was written of it is held back.
LEMMA StaysSteady ==
  ASSUME NEW T, NEW output, NEW secrets \in Seq(Seq(T)), \A j \in DOMAIN secrets : secrets[j] # <<>>,
         Separate(secrets), NEW fed \in Nat, NEW end \in Nat, fed <= end,
         NEW cuts, fed = 0 \/ fed \in cuts, Uncut(output, secrets, end, cuts),
         NEW buf, NEW shown, Safe(output, secrets, fed, buf, shown),
         NEW lo, Halves(output, secrets, fed, buf, shown, lo)
  PROVE  Steady(output, secrets, fed, end, lo)
<1> DEFINE old == All(output, secrets, fed)
<1>0. \A j \in DOMAIN secrets : secrets[j] \in Seq(T) /\ Len(secrets[j]) \in Nat \ {0} /\ DOMAIN secrets[j] = 1..Len(secrets[j])
  <2> SUFFICES ASSUME NEW j \in DOMAIN secrets
               PROVE  secrets[j] \in Seq(T) /\ Len(secrets[j]) \in Nat \ {0} /\ DOMAIN secrets[j] = 1..Len(secrets[j])
    OBVIOUS
  <2>1. secrets[j] \in Seq(T) /\ secrets[j] # <<>>
    OBVIOUS
  <2> QED
    BY <2>1
<1>1. /\ Stretched(old)
      /\ \A f \in old :
           /\ f[1] \in Nat \ {0} /\ f[2] \in Nat /\ f[1] <= f[2] /\ f[2] <= fed
           /\ \E j \in DOMAIN secrets :
                f[2] = f[1] + Len(secrets[j]) - 1 /\ Spells(output, f[1], secrets[j])
  BY AllAre
<1>2. /\ lo \in 1..fed + 1
      /\ Shows(shown, 1, lo - 1, Starts(old), Gone(old)) /\ Shows(buf, lo, fed, Starts(old), Gone(old))
  BY DEF Halves
<1> SUFFICES ASSUME NEW k \in DOMAIN secrets, NEW i \in Nat \ {0}, Spells(output, i, secrets[k]),
                    fed < i + Len(secrets[k]) - 1, i + Len(secrets[k]) - 1 <= end
             PROVE  lo <= i /\ \A p \in i..i + Len(secrets[k]) - 1 : p \notin Hidden(old)
  BY DEF Steady
<1> DEFINE l == Len(secrets[k])
<1>3. l \in Nat \ {0} /\ secrets[k] \in Seq(T) /\ fed < i + l - 1
  BY <1>0
<1>4. ASSUME NEW p \in i..i + l - 1, p \in Hidden(old) PROVE FALSE
  <2>1. PICK f \in old : f[1] <= p /\ p <= f[2]
    BY <1>4 DEF Hidden
  <2>2. f[1] \in Nat \ {0} /\ f[2] \in Nat /\ f[1] <= f[2] /\ f[2] <= fed
    BY <1>1
  <2>3. PICK j \in DOMAIN secrets : f[2] = f[1] + Len(secrets[j]) - 1 /\ Spells(output, f[1], secrets[j])
    BY <1>1
  <2> DEFINE x == f[1]
             y == f[2]
             m == Len(secrets[j])
  <2>n. /\ x \in Nat /\ y \in Nat /\ x <= y /\ y <= fed /\ m \in Nat \ {0} /\ y = x + m - 1
        /\ p \in i..i + l - 1 /\ x <= p /\ p <= y /\ l \in Nat /\ fed < i + l - 1 /\ x # 0
    BY <1>0, <1>3, <2>1, <2>2, <2>3
  <2>m. secrets[j] \in Seq(T) /\ secrets[k] \in Seq(T) /\ Spells(output, x, secrets[j])
    BY <1>0, <2>3
  <2> HIDE DEF x, y
  <2>4. CASE i <= x
    <3>1. x + m <= i + l
      BY ONLY <2>n, fed \in Nat, i \in Nat
    <3>2. secrets[j] # secrets[k]
      <4> SUFFICES ASSUME m = l PROVE FALSE
        OBVIOUS
      <4> HIDE DEF m, l
      <4> QED
        BY ONLY <2>n, <2>4, m = l, fed \in Nat, i \in Nat
    <3>3. x \in Nat /\ i \in Nat
      BY <2>n
    <3>4. Nested(secrets[j], secrets[k])
      BY <2>m, <2>4, <3>1, <3>2, <3>3, NestedIn
    <3>5. fed \in i..i + l - 2 /\ fed # 0
      <4> HIDE DEF l, m
      <4> QED
        BY ONLY <2>n, <2>4, fed \in Nat, i \in Nat
    <3> QED
      BY <3>4, <3>5 DEF Uncut
  <2>5. CASE x < i
    <3>1. x \in Nat /\ i \in Nat /\ i <= x + Len(secrets[j]) - 1
      BY <2>n
    <3>2. ~Overlap(secrets[j], secrets[k])
      BY DEF Separate
    <3>3. i + Len(secrets[k]) <= x + Len(secrets[j])
      BY <2>m, <2>5, <3>1, <3>2, NoOverlap
    <3>4. i + l <= x + m
      BY <3>3
    <3> HIDE DEF l, m
    <3> QED
      BY ONLY <2>n, <3>4, fed \in Nat, i \in Nat
  <2>6. i <= x \/ x < i
    BY <2>n
  <2> QED
    BY <2>4, <2>5, <2>6
<1>5. lo <= i
  <2>1. CASE fed < i
    BY <1>2, <2>1
  <2>2. CASE ~(fed < i)
    <3> DEFINE n == fed - i + 1
    <3>0. l \in Nat /\ fed < i + l - 1 /\ ~(fed < i)
      BY <1>3, <2>2
    <3>1. n \in 1..l - 1 /\ i + n - 1 = fed /\ n \in Nat
      <4> HIDE DEF l
      <4> QED
        BY ONLY <3>0, fed \in Nat, i \in Nat
    <3> HIDE DEF n
    <3>2. Begun(output, i, secrets[k], n)
      <4>1. \A d \in 1..n : d \in DOMAIN secrets[k]
        BY <1>0, <1>3, <3>1
      <4> QED
        BY <4>1 DEF Begun, Spells
    <3>3. \/ \E d \in 1..n : ~Holds(shown, i + d - 1) /\ ~Holds(buf, i + d - 1)
          \/ \A d \in 1..n : Holds(buf, i + d - 1)
      BY <3>1, <3>2 DEF Safe
    <3>4. ASSUME NEW d \in 1..n PROVE Holds(shown, i + d - 1) \/ Holds(buf, i + d - 1)
      <4> DEFINE q == i + d - 1
      <4>1. q \in i..i + l - 1 /\ q \in 1..fed /\ q \in Nat
        BY <1>3, <3>1
      <4> HIDE DEF q
      <4>2. q \notin Starts(old) /\ q \notin Gone(old)
        <5>1. q \notin Hidden(old)
          BY <1>4, <4>1
        <5>2. Hidden(old) = Starts(old) \cup Gone(old)
          BY <1>1, HiddenParts
        <5> QED
          BY <5>1, <5>2
      <4>3. CASE q < lo
        <5>1. q \in 1..lo - 1 /\ 1 \in Nat /\ lo - 1 \in Nat
          BY <1>2, <4>1, <4>3
        <5>2. Holds(shown, q)
          BY <1>2, <4>2, <5>1, ShowsHolds
        <5> QED
          BY <5>2 DEF q
      <4>4. CASE ~(q < lo)
        <5>1. q \in lo..fed /\ lo \in Nat
          BY <1>2, <4>1, <4>4
        <5>2. Holds(buf, q)
          BY <1>2, <4>2, <5>1, ShowsHolds
        <5> QED
          BY <5>2 DEF q
      <4> QED
        BY <4>3, <4>4
    <3>5. Holds(buf, i)
      <4>1. 1 \in 1..n /\ i + 1 - 1 = i
        BY <3>1
      <4> QED
        BY <3>3, <3>4, <4>1
    <3>6. i # Star /\ lo \in Nat
      BY <1>2 DEF Star
    <3>7. i \in lo..fed
      BY <1>2, <3>5, <3>6, ShowsOnly
    <3> QED
      BY <1>2, <3>7
  <2> QED
    BY <2>1, <2>2
<1> QED
  BY <1>4, <1>5

\* What was just written is hidden nowhere.
LEMMA FreshShows ==
  ASSUME NEW T, NEW output, NEW secrets \in Seq(Seq(T)), \A j \in DOMAIN secrets : secrets[j] # <<>>,
         NEW fed \in Nat, NEW n \in Nat, NEW e, Fresh(e, fed, n),
         NEW old, old = All(output, secrets, fed)
  PROVE  Shows(e, fed + 1, fed + n, Starts(old), Gone(old))
<1> DEFINE stars == Starts(old)
           gone == Gone(old)
<1>1. ASSUME NEW q \in fed + 1..fed + n PROVE q \notin stars /\ q \notin gone
  <2>1. Stretched(old) /\ \A f \in old : f[2] \in Nat /\ f[2] <= fed
    BY AllAre
  <2>2. q \notin Hidden(old)
    <3> SUFFICES ASSUME q \in Hidden(old) PROVE FALSE
      OBVIOUS
    <3>1. PICK f \in old : q <= f[2]
      BY DEF Hidden
    <3>2. f[2] \in Nat /\ f[2] <= fed
      BY <2>1
    <3> QED
      BY <3>1, <3>2
  <2>3. Hidden(old) = stars \cup gone
    BY <2>1, HiddenParts
  <2> QED
    BY <2>2, <2>3
<1> HIDE DEF stars, gone
<1>2. e = [i \in 1..n |-> fed + i]
  BY DEF Fresh
<1>3. e \in Seq(Nat) /\ Len(e) = n /\ \A i \in 1..n : e[i] = fed + i
  BY <1>2
<1>4. ASSUME NEW a \in 1..n PROVE e[a] \in fed + 1..fed + n /\ e[a] \notin gone /\ e[a] = IF e[a] \in stars THEN Star ELSE e[a]
  <2>1. e[a] \in fed + 1..fed + n
    BY <1>3
  <2> QED
    BY <1>1, <2>1
<1>5. ASSUME NEW i \in fed + 1..fed + n PROVE \E a \in 1..n : e[a] = i
  <2>1. i - fed \in 1..n /\ fed + (i - fed) = i
    OBVIOUS
  <2> QED
    BY <1>3, <2>1
<1>6. \A a, b \in 1..n : a < b => e[a] < e[b]
  BY <1>3
<1>7. Sees(e, e, fed + 1, fed + n, stars, gone)
  BY <1>3, <1>4, <1>5, <1>6 DEF Sees
<1> QED
  BY <1>7 DEF Shows, stars, gone

\* A position has the same part in the occurrences of old and in those of new.
SamePart(q, old, new) ==
  (q \in Starts(new) <=> q \in Starts(old)) /\ (q \in Gone(new) <=> q \in Gone(old))

\* What is hidden before lo does not change any more.
LEMMA StillHidden ==
  ASSUME NEW T, NEW output, NEW secrets \in Seq(Seq(T)), \A j \in DOMAIN secrets : secrets[j] # <<>>,
         NEW fed \in Nat, NEW end \in Nat, fed <= end, NEW lo \in Nat \ {0},
         Steady(output, secrets, fed, end, lo),
         NEW q \in 1..lo - 1
  PROVE  SamePart(q, All(output, secrets, fed), All(output, secrets, end))
<1> DEFINE old == All(output, secrets, fed)
           new == All(output, secrets, end)
<1>1. \A f \in old : f[1] \in Nat /\ f[2] \in Nat
  BY AllAre
<1>2. ASSUME NEW f \in new PROVE f[1] \in Nat /\ f[2] \in Nat /\ (f[1] <= q => f \in old)
  <2>1. /\ f[1] \in Nat \ {0} /\ f[2] \in Nat /\ f[2] <= end
        /\ \E j \in DOMAIN secrets :
             f[2] = f[1] + Len(secrets[j]) - 1 /\ Spells(output, f[1], secrets[j])
    BY AllAre
  <2>2. PICK j \in DOMAIN secrets :
             f[2] = f[1] + Len(secrets[j]) - 1 /\ Spells(output, f[1], secrets[j])
    BY <2>1
  <2>3. ASSUME f[1] <= q PROVE f[2] <= fed
    <3> SUFFICES ASSUME ~(f[2] <= fed) PROVE FALSE
      OBVIOUS
    <3>1. fed < f[1] + Len(secrets[j]) - 1 /\ f[1] + Len(secrets[j]) - 1 <= end
      BY <2>1, <2>2
    <3>2. lo <= f[1]
      BY <2>1, <2>2, <3>1 DEF Steady
    <3> QED
      BY <2>1, <2>3, <3>2, SMTT(30)
  <2>4. f \in (Nat \ {0}) \X Nat
    BY DEF All, Spans
  <2>5. f[1] <= q => f \in old
    BY <2>2, <2>3, <2>4 DEF All, Spans
  <2> QED
    BY <2>1, <2>5
<1>3. ASSUME NEW f \in old PROVE f \in new
  <2>1. f[2] \in Nat /\ f[2] <= fed
    BY AllAre
  <2>2. f[2] <= end
    BY <2>1
  <2> QED
    BY <2>2 DEF All, Spans
<1>4. q \in Nat
  OBVIOUS
<1>5. q \in Hidden(new) <=> q \in Hidden(old)
  BY <1>2, <1>3, <1>4 DEF Hidden
<1>6. ASSUME q \in Starts(new) PROVE q \in Starts(old)
  <2>1. PICK f \in new : f[1] = q
    BY <1>6 DEF Starts
  <2>2. f \in old
    BY <1>2, <1>4, <2>1
  <2>3. \A g \in old : g[1] < q => g[2] < q
    BY <1>3, <1>6 DEF Starts
  <2> QED
    BY <1>4, <2>1, <2>2, <2>3 DEF Starts
<1>7. ASSUME q \in Starts(old) PROVE q \in Starts(new)
  <2>1. PICK f \in old : f[1] = q
    BY <1>7 DEF Starts
  <2>2. f \in new
    BY <1>3
  <2>3. ASSUME NEW g \in new, g[1] < q PROVE g[2] < q
    <3>1. g \in old
      BY <1>2, <1>4, <2>3
    <3> QED
      BY <1>7, <2>3, <3>1 DEF Starts
  <2> QED
    BY <1>4, <2>1, <2>2, <2>3 DEF Starts
<1> QED
  BY <1>5, <1>6, <1>7 DEF Gone, SamePart

\* mask.go:48-61: Write, when the log takes what it flushes.
LEMMA WriteHalves ==
  ASSUME NEW T, NEW output, NEW secrets \in Seq(Seq(T)), \A j \in DOMAIN secrets : secrets[j] # <<>>,
         Separate(secrets), Longest(secrets), NEW fed \in Nat, NEW n \in Nat,
         NEW cuts, fed = 0 \/ fed \in cuts, Uncut(output, secrets, fed + n, cuts),
         NEW buf, NEW shown, Safe(output, secrets, fed, buf, shown),
         NEW lo, Halves(output, secrets, fed, buf, shown, lo),
         NEW e, Fresh(e, fed, n), NEW t, t = Replaced(output, buf \o e, secrets),
         NEW size \in 0..Len(t)
  PROVE  \E k : Halves(output, secrets, fed + n, SubSeq(t, size + 1, Len(t)), shown \o SubSeq(t, 1, size), k)
<1> DEFINE end == fed + n
           old == All(output, secrets, fed)
           new == All(output, secrets, end)
           u == buf \o e
<1>1. end \in Nat /\ fed <= end
  OBVIOUS
<1>2. lo \in Nat \ {0} /\ lo - 1 \in Nat /\ lo <= fed + 1 /\ lo <= end + 1 /\ 1 \in Nat /\ 1 \in Nat \ {0}
  BY DEF Halves
<1>3. Uncut(output, secrets, end, cuts)
  OBVIOUS
<1>4. Shows(e, fed + 1, end, Starts(old), Gone(old))
  BY FreshShows
<1> HIDE DEF end
<1>5. Steady(output, secrets, fed, end, lo)
  BY <1>1, <1>3, StaysSteady
<1>6. /\ Shows(shown, 1, lo - 1, Starts(old), Gone(old))
      /\ Shows(buf, lo, fed, Starts(old), Gone(old))
  BY DEF Halves
<1>7. Shows(u, lo, end, Starts(old), Gone(old))
  <2> DEFINE stars == Starts(old)
             gone == Gone(old)
  <2>1. Shows(buf, lo, fed, stars, gone) /\ Shows(e, fed + 1, end, stars, gone)
    BY <1>4, <1>6
  <2> HIDE DEF stars, gone
  <2>2. Shows(u, lo, end, stars, gone)
    BY <1>1, <1>2, <2>1, ShowsConcat
  <2> QED
    BY <2>2 DEF stars, gone
<1>8. old = All(output, secrets, fed) /\ new = All(output, secrets, end) /\ t = Replaced(output, u, secrets)
  OBVIOUS
<1> HIDE DEF old, new, u
<1>9. Shows(t, lo, end, Starts(new), Gone(new))
  <2>1. Shows(Replaced(output, u, secrets), lo, end, Starts(new), Gone(new))
    BY <1>1, <1>2, <1>5, <1>7, <1>8, ReplacedShows
  <2> QED
    BY <1>8, <2>1
<1>10. ASSUME NEW q \in 1..lo - 1
       PROVE  (q \in Starts(new) <=> q \in Starts(old)) /\ (q \in Gone(new) <=> q \in Gone(old))
  <2>1. SamePart(q, All(output, secrets, fed), All(output, secrets, end))
    BY <1>1, <1>2, <1>5, StillHidden
  <2> QED
    BY <1>8, <2>1 DEF SamePart
<1> DEFINE stars == Starts(new)
           gone == Gone(new)
           stars1 == Starts(old)
           gone1 == Gone(old)
<1>11. /\ \A q \in 1..lo - 1 : q \in stars <=> q \in stars1
       /\ \A q \in 1..lo - 1 : q \in gone <=> q \in gone1
       /\ Shows(t, lo, end, stars, gone) /\ Shows(shown, 1, lo - 1, stars1, gone1)
  BY <1>6, <1>9, <1>10
<1> HIDE DEF stars, gone, stars1, gone1
<1>12. Shows(shown, 1, lo - 1, stars, gone)
  BY <1>2, <1>11, ShowsSame
<1> DEFINE v == SubSeq(t, 1, size)
           b == SubSeq(t, size + 1, Len(t))
<1>13. PICK mid \in lo - 1..end : Shows(v, lo, mid, stars, gone) /\ Shows(b, mid + 1, end, stars, gone)
  BY <1>1, <1>2, <1>11, ShowsSplit
<1> HIDE DEF v, b
<1>14. Shows(shown \o v, 1, mid, stars, gone)
  <2> DEFINE c == lo - 1
  <2>1. c \in Nat /\ c + 1 = lo /\ mid \in Nat /\ c <= mid /\ 1 <= c + 1
    BY <1>1, <1>2
  <2> HIDE DEF c
  <2>2. Shows(shown, 1, c, stars, gone) /\ Shows(v, c + 1, mid, stars, gone)
    BY <1>12, <1>13, <2>1 DEF c
  <2> QED
    BY <1>2, <2>1, <2>2, ShowsConcat
<1> DEFINE k == mid + 1
<1>15. k \in 1..end + 1 /\ k - 1 = mid
  BY <1>1, <1>2
<1> HIDE DEF k
<1>16. Shows(b, k, end, stars, gone) /\ Shows(shown \o v, 1, k - 1, stars, gone)
  BY <1>13, <1>14, <1>15 DEF k
<1>17. Halves(output, secrets, end, b, shown \o v, k)
  BY <1>8, <1>15, <1>16 DEF Halves, stars, gone
<1> QED
  BY <1>17 DEF b, v, end

\* mask.go:66-73: Close, when the log takes what was held back.
LEMMA CloseShows ==
  ASSUME NEW T, NEW output, NEW secrets \in Seq(Seq(T)), \A j \in DOMAIN secrets : secrets[j] # <<>>,
         Separate(secrets), Longest(secrets), NEW fed \in Nat,
         NEW buf, NEW shown, NEW lo, Halves(output, secrets, fed, buf, shown, lo),
         NEW t, t = Replaced(output, buf, secrets), NEW new, new = All(output, secrets, fed)
  PROVE  /\ Shows(shown \o SubSeq(t, 1, Len(t)), 1, fed, Starts(new), Gone(new))
         /\ t \in Seq(Nat)
<1>1. /\ Shows(shown, 1, lo - 1, Starts(new), Gone(new)) /\ Shows(buf, lo, fed, Starts(new), Gone(new))
      /\ lo \in 1..fed + 1
  BY DEF Halves
<1>2. lo \in Nat \ {0} /\ lo <= fed + 1 /\ fed <= fed
  BY <1>1
<1>3. Steady(output, secrets, fed, fed, lo)
  <2> SUFFICES ASSUME NEW k \in DOMAIN secrets, NEW i \in Nat \ {0}, 
                      fed < i + Len(secrets[k]) - 1, i + Len(secrets[k]) - 1 <= fed
               PROVE  FALSE
    BY DEF Steady
  <2>1. secrets[k] \in Seq(T) /\ Len(secrets[k]) \in Nat
    OBVIOUS
  <2> QED
    BY <2>1
<1>4. Shows(Replaced(output, buf, secrets), lo, fed, Starts(new), Gone(new))
  BY <1>1, <1>2, <1>3, ReplacedShows
<1> DEFINE stars == Starts(new)
           gone == Gone(new)
           c == lo - 1
           v == SubSeq(t, 1, Len(t))
<1>5. c \in Nat /\ c + 1 = lo /\ c <= fed /\ 1 <= c + 1 /\ 1 \in Nat
  BY <1>2
<1>s. t \in Seq(Nat)
  BY <1>4 DEF Shows, Sees
<1>6. v = t
  BY <1>s
<1>7. Shows(shown, 1, c, stars, gone) /\ Shows(v, c + 1, fed, stars, gone)
  BY <1>1, <1>4, <1>5, <1>6
<1> HIDE DEF stars, gone, c, v
<1>8. Shows(shown \o v, 1, fed, stars, gone)
  BY <1>5, <1>7, ShowsConcat
<1> QED
  BY <1>8, <1>s DEF stars, gone, v

\* f is what FlattenSeq has joined, one list at a time.
Joins(f, ss) ==
  /\ f[1] = ss[1] /\ \A i \in 2..Len(ss) : f[i] = f[i - 1] \o ss[i]
  /\ FlattenSeq(ss) = f[Len(ss)]

\* What FlattenSeq computes, unfolded.
LEMMA FlattenSteps ==
  ASSUME NEW ss, Len(ss) \in Nat \ {0}
  PROVE  \E f : Joins(f, ss)
<1> DEFINE n == Len(ss)
           Eq(g) == g = [i \in 1..n |-> IF i = 1 THEN ss[i] ELSE g[i - 1] \o ss[i]]
           flatten == CHOOSE g : Eq(g)
           Solves(f, m) == /\ f = [i \in 1..m |-> f[i]] /\ f[1] = ss[1]
                           /\ \A i \in 2..m : f[i] = f[i - 1] \o ss[i]
           Bad == {m \in Nat : m # 0 /\ ~ \E f : Solves(f, m)}
<1>1. FlattenSeq(ss) = flatten[n]
  BY DEF FlattenSeq
<1>2. ASSUME NEW m \in Nat, \A i \in 0..m - 1 : i \notin Bad PROVE m \notin Bad
  <2> SUFFICES ASSUME m # 0 PROVE \E f : Solves(f, m)
    OBVIOUS
  <2>1. CASE m = 1
    <3> DEFINE g == [i \in 1..m |-> ss[1]]
    <3>1. g = [i \in 1..m |-> g[i]] /\ g[1] = ss[1] /\ 2..m = {}
      BY <2>1
    <3> HIDE DEF g
    <3>2. Solves(g, m)
      BY <3>1
    <3> QED
      BY <3>2
  <2>2. CASE m # 1
    <3>1. m - 1 \in 0..m - 1 /\ m - 1 \in Nat /\ m - 1 # 0 /\ 1 \in 1..m - 1
      BY <2>2
    <3>2. PICK f : Solves(f, m - 1)
      BY <1>2, <3>1
    <3> DEFINE v == f[m - 1] \o ss[m]
               g == [i \in 1..m |-> IF i = m THEN v ELSE f[i]]
    <3> HIDE DEF v
    <3>3. g = [i \in 1..m |-> g[i]] /\ g[m] = v /\ \A i \in 1..m - 1 : g[i] = f[i]
      OBVIOUS
    <3> HIDE DEF g
    <3>4. g[1] = ss[1]
      BY <3>1, <3>2, <3>3
    <3>5. ASSUME NEW i \in 2..m PROVE g[i] = g[i - 1] \o ss[i]
      <4>1. i - 1 \in 1..m - 1
        OBVIOUS
      <4>2. g[i - 1] = f[i - 1]
        BY <3>3, <4>1
      <4>3. CASE i = m
        BY <3>3, <4>2, <4>3 DEF v
      <4>4. CASE i # m
        <5>1. i \in 2..m - 1 /\ i \in 1..m - 1
          BY <4>4
        <5> QED
          BY <3>2, <3>3, <4>2, <5>1
      <4> QED
        BY <4>3, <4>4
    <3>6. Solves(g, m)
      BY <3>3, <3>4, <3>5
    <3> QED
      BY <3>6
  <2> QED
    BY <2>1, <2>2
<1>3. n \in Nat /\ n # 0
  OBVIOUS
<1>4. PICK f : Solves(f, n)
  <2>1. Bad \in SUBSET Nat
    OBVIOUS
  <2>2. Bad = {}
    <3> HIDE DEF Bad
    <3> QED
      BY <1>2, <2>1, Upwards
  <2> HIDE DEF Solves, n
  <2> QED
    BY <1>3, <2>2
<1>5. Eq(f)
  <2> DEFINE h == [i \in 1..n |-> IF i = 1 THEN ss[i] ELSE f[i - 1] \o ss[i]]
  <2>1. ASSUME NEW i \in 1..n PROVE f[i] = h[i]
    <3>1. CASE i = 1
      BY <1>4, <3>1
    <3>2. CASE i # 1
      <4>1. i \in 2..n
        BY <3>2
      <4> QED
        BY <1>4, <3>2, <4>1
    <3> QED
      BY <3>1, <3>2
  <2> HIDE DEF n
  <2>2. f = [i \in 1..n |-> f[i]] /\ h = [i \in 1..n |-> h[i]]
    BY <1>4
  <2> HIDE DEF h
  <2>3. f = h
    BY <2>1, <2>2
  <2> QED
    BY <2>3 DEF h
<1>6. Eq(flatten)
  BY <1>5
<1> HIDE DEF flatten
<1>7. \A i \in 1..n : flatten[i] = IF i = 1 THEN ss[i] ELSE flatten[i - 1] \o ss[i]
  BY <1>6, Zenon
<1>8. flatten[1] = ss[1] /\ \A i \in 2..n : flatten[i] = flatten[i - 1] \o ss[i]
  <2>1. 1 \in 1..n /\ \A i \in 2..n : i \in 1..n /\ i # 1
    BY <1>3
  <2> QED
    BY <1>7, <2>1, Zenon
<1> QED
  BY <1>1, <1>8 DEF Joins

\* The pieces of fed positions, joined.
LEMMA FlattenShows ==
  ASSUME NEW stars, NEW gone, NEW fed \in Nat, NEW p, Len(p) = fed, p \in Seq(Seq(Nat)),
         \A i \in 1..fed : Shows(p[i], i, i, stars, gone)
  PROVE  Shows(FlattenSeq(p), 1, fed, stars, gone)
<1>1. CASE fed = 0
  <2>1. FlattenSeq(p) = p /\ p = <<>>
    BY <1>1 DEF FlattenSeq
  <2>2. 1 \in Nat /\ \A i \in 1..fed : i \in gone
    BY <1>1
  <2> QED
    BY <2>1, <2>2, ShowsNone
<1>2. CASE fed # 0
  <2>1. PICK f : Joins(f, p)
    BY <1>2, FlattenSteps
  <2>2. f[1] = p[1] /\ (\A i \in 2..fed : f[i] = f[i - 1] \o p[i]) /\ FlattenSeq(p) = f[fed]
    BY <2>1 DEF Joins
  <2> DEFINE Bad == {i \in Nat : i \in 1..fed /\ ~Shows(f[i], 1, i, stars, gone)}
  <2>3. ASSUME NEW i \in Nat, \A k \in 0..i - 1 : k \notin Bad PROVE i \notin Bad
    <3> SUFFICES ASSUME i \in 1..fed PROVE Shows(f[i], 1, i, stars, gone)
      OBVIOUS
    <3>1. CASE i = 1
      BY <2>2, <3>1
    <3>2. CASE i # 1
      <4> DEFINE m == i - 1
                 u == f[m]
                 v == p[i]
      <4>1. i \in 2..fed /\ m \in 1..fed /\ m \in Nat /\ m \in 0..i - 1 /\ 1 <= m + 1 /\ m <= i /\ m + 1 = i /\ 1 \in Nat
        BY <3>2
      <4> HIDE DEF m
      <4>2. Shows(u, 1, m, stars, gone)
        BY <2>3, <4>1
      <4>3. Shows(v, m + 1, i, stars, gone)
        BY <4>1
      <4>4. f[i] = u \o v
        BY <2>2, <4>1 DEF m
      <4> HIDE DEF u, v
      <4>5. Shows(u \o v, 1, i, stars, gone)
        BY <4>1, <4>2, <4>3, ShowsConcat
      <4> QED
        BY <4>4, <4>5
    <3> QED
      BY <3>1, <3>2
  <2>4. Bad = {}
    <3>1. Bad \in SUBSET Nat
      OBVIOUS
    <3> HIDE DEF Bad
    <3> QED
      BY <2>3, <3>1, Upwards
  <2>5. fed \in 1..fed
    BY <1>2
  <2> QED
    BY <2>2, <2>4, <2>5
<1> QED
  BY <1>1, <1>2

----------------------------------------------------------------------------
(* The writers of the processes.                                           *)

\* A closed writer has shown no complete secret whole.
Hides(w) ==
  \A j \in DOMAIN w.secrets : \A i \in Nat \ {0} :
    Spells(w.output, i, w.secrets[j]) /\ i + Len(w.secrets[j]) - 1 <= w.fed =>
      \E d \in DOMAIN w.secrets[j] : ~Holds(w.shown, i + d - 1)

\* A writer that can go on.
SafeWriter(w) == Safe(w.output, w.secrets, w.fed, w.buf, w.shown)

\* The type of writers.
Writers ==
  {w \in [output : Seq(Symbols), fed : Nat, cuts : SUBSET Nat, secrets : Seq(Seq(Symbols)),
          buf : Seq(Nat), shown : Seq(Nat), lost : BOOLEAN] :
     w.fed <= Len(w.output) /\ \A j \in DOMAIN w.secrets : w.secrets[j] # <<>>}

\* A safe writer hides every complete secret.
LEMMA SafeHides == ASSUME NEW w, SafeWriter(w) PROVE Hides(w)
<1> SUFFICES ASSUME NEW j \in DOMAIN w.secrets, NEW i \in Nat \ {0}, Spells(w.output, i, w.secrets[j]),
                    i + Len(w.secrets[j]) - 1 <= w.fed
             PROVE  \E d \in DOMAIN w.secrets[j] : ~Holds(w.shown, i + d - 1)
  BY DEF Hides
<1> QED
  BY DEF SafeWriter, Safe

\* A new writer, which was given nothing, is safe.
LEMMA NewWriterSafe ==
  ASSUME NEW output \in Seq(Symbols), NEW secrets \in Seq(Seq(Symbols)),
         \A j \in DOMAIN secrets : secrets[j] # <<>>
  PROVE  Writer(output, secrets) \in Writers /\ SafeWriter(Writer(output, secrets))
<1> DEFINE w == Writer(output, secrets)
<1>1. /\ w.output = output /\ w.secrets = secrets /\ w.fed = 0 /\ w.buf = <<>> /\ w.shown = <<>>
      /\ w \in Writers
  BY DEF Writer, Writers
<1>2. \A y : ~Holds(<<>>, y)
  BY DEF Holds
<1>3. \A j \in DOMAIN secrets : secrets[j] \in Seq(Symbols) /\ Len(secrets[j]) \in Nat \ {0}
  OBVIOUS
<1>4. Safe(output, secrets, 0, <<>>, <<>>)
  <2>1. Ordered(<<>>) /\ EndsBy(<<>>, 0)
    BY DEF Ordered, EndsBy
  <2>2. \A j \in DOMAIN secrets : \A i \in Nat \ {0} : ~(i + Len(secrets[j]) - 1 <= 0)
    BY <1>3
  <2>3. \A j \in DOMAIN secrets : \A l \in 1..Len(secrets[j]) - 1 : \A i \in Nat \ {0} : i + l - 1 # 0
    OBVIOUS
  <2> QED
    BY <1>2, <2>1, <2>2, <2>3 DEF Safe
<1> QED
  BY <1>1, <1>4 DEF SafeWriter

\* Write, wherever it cuts and whether or not the log takes it.
LEMMA WriteIsSafe ==
  ASSUME NEW w \in Writers, SafeWriter(w), NEW n \in 1..Len(w.output) - w.fed, NEW v \in Written(w, n)
  PROVE  v \in Writers /\ SafeWriter(v)
<1> DEFINE t    == Replaced(w.output, w.buf \o [i \in 1..n |-> w.fed + i], w.secrets)
           size == Len(t) - HoldLen(w.output, t, w.secrets)
           held == SubSeq(t, size + 1, Len(t))
           through(m) == w.shown \o SubSeq(t, 1, m)
<1>1. PICK m \in {0, size} :
        v = [w EXCEPT !.fed = @ + n, !.cuts = @ \cup {w.fed + n}, !.buf = held,
                      !.shown = through(m), !.lost = @ \/ m < size]
  BY Zenon DEF Written
<1>2. /\ w.output \in Seq(Symbols) /\ w.fed \in Nat /\ w.secrets \in Seq(Seq(Symbols))
      /\ w.buf \in Seq(Nat) /\ w.shown \in Seq(Nat) /\ w.cuts \in SUBSET Nat /\ w.lost \in BOOLEAN
      /\ \A j \in DOMAIN w.secrets : w.secrets[j] # <<>>
  BY DEF Writers
<1>3. n \in Nat /\ w.fed + n \in Nat /\ w.fed + n <= Len(w.output)
  BY <1>2
<1>4. /\ held \in Seq(Nat) /\ through(m) \in Seq(Nat)
      /\ Safe(w.output, w.secrets, w.fed + n, held, through(m))
  <2> DEFINE output == w.output
             secrets == w.secrets
             fed == w.fed
             buf == w.buf
             shown == w.shown
  <2>1. /\ secrets \in Seq(Seq(Symbols)) /\ buf \in Seq(Nat) /\ shown \in Seq(Nat) /\ fed \in Nat
        /\ \A j \in DOMAIN secrets : secrets[j] # <<>>
        /\ Safe(output, secrets, fed, buf, shown)
    BY <1>2 DEF SafeWriter
  <2> DEFINE e == [i \in 1..n |-> fed + i]
  <2>f. Fresh(e, fed, n)
    BY DEF Fresh
  <2> HIDE DEF output, secrets, fed, buf, shown, e
  <2>2. LET u    == Replaced(output, buf \o e, secrets)
            most == Len(u) - HoldLen(output, u, secrets)
         IN  \A k \in {0, most} :
               /\ SubSeq(u, most + 1, Len(u)) \in Seq(Nat)
               /\ shown \o SubSeq(u, 1, k) \in Seq(Nat)
               /\ Safe(output, secrets, fed + n, SubSeq(u, most + 1, Len(u)), shown \o SubSeq(u, 1, k))
    BY <1>3, <2>1, <2>f, WriteKeepsSafe
  <2> QED
    BY <2>2, Zenon DEF output, secrets, fed, buf, shown, e
<1> DEFINE s == through(m)
           gone == m < size
           fed == w.fed + n
           cuts == w.cuts \cup {w.fed + n}
<1> HIDE DEF held, through, gone
<1>5. v = [w EXCEPT !.fed = fed, !.cuts = cuts, !.buf = held, !.shown = s, !.lost = w.lost \/ gone]
  BY <1>1 DEF gone
<1>6. fed \in Nat /\ cuts \in SUBSET Nat /\ fed <= Len(w.output) /\ s \in Seq(Nat)
  BY <1>2, <1>3, <1>4
<1> HIDE DEF fed, cuts, s
<1>7. /\ v.output = w.output /\ v.secrets = w.secrets /\ v.fed = fed /\ v.buf = held /\ v.shown = s
      /\ v \in Writers
  BY <1>2, <1>4, <1>5, <1>6 DEF Writers
<1> QED
  BY <1>4, <1>7 DEF SafeWriter, s, fed

\* Close flushes what was held back: it may begin a secret, which was not completed.
LEMMA CloseHides ==
  ASSUME NEW w \in Writers, SafeWriter(w), NEW v \in Closed(w)
  PROVE  v \in Writers /\ Hides(v)
<1> DEFINE t == Replaced(w.output, w.buf, w.secrets)
           through(m) == w.shown \o SubSeq(t, 1, m)
<1>1. PICK m \in {0, Len(t)} :
        v = [w EXCEPT !.buf = <<>>, !.shown = through(m), !.lost = @ \/ m < Len(t)]
  BY Zenon DEF Closed
<1>2. /\ w.output \in Seq(Symbols) /\ w.fed \in Nat /\ w.secrets \in Seq(Seq(Symbols))
      /\ w.buf \in Seq(Nat) /\ w.shown \in Seq(Nat) /\ w.cuts \in SUBSET Nat /\ w.lost \in BOOLEAN
      /\ \A j \in DOMAIN w.secrets : w.secrets[j] # <<>>
  BY DEF Writers
<1>3. /\ t \in Seq(Nat) /\ Ordered(t) /\ EndsBy(t, w.fed)
      /\ \A y : y # Star /\ Holds(t, y) => Holds(w.buf, y)
  <2> DEFINE output == w.output
             secrets == w.secrets
             fed == w.fed
             buf == w.buf
  <2>1. /\ secrets \in Seq(Seq(Symbols)) /\ buf \in Seq(Nat) /\ fed \in Nat
        /\ \A j \in DOMAIN secrets : secrets[j] # <<>>
        /\ Ordered(buf) /\ EndsBy(buf, fed)
    BY <1>2 DEF SafeWriter, Safe
  <2> HIDE DEF output, secrets, fed, buf
  <2>2. LET u == Replaced(output, buf, secrets)
         IN  /\ u \in Seq(Nat) /\ Ordered(u) /\ EndsBy(u, fed)
             /\ \A y : y # Star /\ Holds(u, y) => Holds(buf, y)
             /\ \A j \in DOMAIN secrets : \A i \in Nat \ {0} :
                  Spells(output, i, secrets[j]) => Torn(u, i, secrets[j])
    BY <2>1, ReplacedTears
  <2> QED
    BY <2>2, Zenon DEF output, secrets, fed, buf
<1> HIDE DEF t
<1>4. through(m) \in Seq(Nat) /\ \A y : Holds(through(m), y) => Holds(w.shown, y) \/ Holds(t, y)
  <2> DEFINE shown == w.shown
             fed == w.fed
             n == Len(t)
  <2>1. shown \in Seq(Nat) /\ fed \in Nat /\ n \in 0..Len(t) /\ m \in 0..n /\ EndsBy(t, fed)
    BY <1>2, <1>3
  <2> HIDE DEF shown, fed, n
  <2>2. LET b == SubSeq(t, n + 1, Len(t))
            s == shown \o SubSeq(t, 1, m)
         IN  /\ b \in Seq(Nat) /\ Ordered(b) /\ EndsBy(b, fed) /\ s \in Seq(Nat)
             /\ \A y : Holds(b, y) => Holds(t, y)
             /\ \A y : Holds(s, y) => Holds(shown, y) \/ Holds(t, y)
             /\ \A y : y # Star /\ Holds(b, y) /\ Holds(s, y) => Holds(shown, y)
             /\ \A a \in n + 1..Len(t) : Holds(b, t[a])
    BY <1>3, <2>1, Cut
  <2> QED
    BY <2>2 DEF shown
<1> DEFINE s == through(m)
           gone == m < Len(t)
<1>5. v = [w EXCEPT !.buf = <<>>, !.shown = s, !.lost = w.lost \/ gone] /\ s \in Seq(Nat)
  BY <1>1, <1>4
<1> DEFINE none == <<>>
<1>n. none \in Seq(Nat)
  OBVIOUS
<1>6. \A y : Holds(s, y) => Holds(w.shown, y) \/ Holds(t, y)
  BY <1>4
<1> HIDE DEF gone, through, s
<1>o. v = [w EXCEPT !.buf = none, !.shown = s, !.lost = w.lost \/ gone]
  BY <1>5
<1> HIDE DEF none
<1>7. /\ v.output = w.output /\ v.secrets = w.secrets /\ v.fed = w.fed /\ v.shown = s
      /\ v \in Writers
  BY <1>2, <1>5, <1>n, <1>o DEF Writers
<1>8. Hides(v)
  <2> SUFFICES ASSUME NEW j \in DOMAIN w.secrets, NEW i \in Nat \ {0}, Spells(w.output, i, w.secrets[j]),
                      i + Len(w.secrets[j]) - 1 <= w.fed
               PROVE  \E d \in DOMAIN w.secrets[j] : ~Holds(s, i + d - 1)
    BY <1>7 DEF Hides
  <2>1. PICK d \in DOMAIN w.secrets[j] : ~Holds(w.shown, i + d - 1) /\ ~Holds(w.buf, i + d - 1)
    BY DEF SafeWriter, Safe
  <2>2. i + d - 1 # Star
    <3>1. w.secrets[j] \in Seq(Symbols)
      BY <1>2
    <3>2. d \in Nat \ {0}
      BY <3>1
    <3> QED
      BY <3>2 DEF Star
  <2>3. ~Holds(t, i + d - 1)
    BY <1>3, <2>1, <2>2
  <2> QED
    BY <1>6, <2>1, <2>3
<1> QED
  BY <1>7, <1>8

\* Every writer hides the secrets; while its job runs, so that the rest can be hidden, too.
MaskInv ==
  /\ DOMAIN stage = Procs /\ DOMAIN writer = Procs /\ (\E family \in Scenes : scene \in family)
  /\ \A p \in Procs :
       /\ writer[p] \in Writers /\ Hides(writer[p])
       /\ stage[p] # "absent" => scene.run[p] # NoRun
       /\ In(p, "jobs") => SafeWriter(writer[p])

LEMMA InitMask == Init => MaskInv
<1> SUFFICES ASSUME Init PROVE MaskInv
  OBVIOUS
<1>1. NoWriter \in Writers /\ Hides(NoWriter)
  <2> DEFINE none == <<>>
  <2>1. /\ none \in Seq(Symbols) /\ none \in Seq(Seq(Symbols))
        /\ \A j \in DOMAIN none : none[j] # <<>>
    OBVIOUS
  <2>2. NoWriter = Writer(none, none)
    BY DEF NoWriter
  <2> HIDE DEF none
  <2> QED
    BY <2>1, <2>2, NewWriterSafe, SafeHides
<1> QED
  BY <1>1 DEF Init, MaskInv, In

\* What LongestFirst arranges are the secrets that are not empty.
LEMMA LongestFirstAre ==
  ASSUME NEW values \in SUBSET Seq(Symbols), IsFiniteSet(values), NEW secrets \in LongestFirst(values)
  PROVE  secrets \in Seq(Seq(Symbols)) /\ \A j \in DOMAIN secrets : secrets[j] # <<>>
<1> DEFINE full == values \ {<<>>}
           n == Cardinality(full)
<1>1. n \in Nat
  <2>1. IsFiniteSet(full)
    BY FS_Subset
  <2> QED
    BY <2>1, FS_CardinalityType
<1>2. secrets \in [1..n -> full]
  BY DEF LongestFirst, SetToSeqs
<1> HIDE DEF n
<1>3. DOMAIN secrets = 1..n /\ \A j \in 1..n : secrets[j] \in Seq(Symbols) /\ secrets[j] # <<>>
  BY <1>2
<1>4. secrets \in [1..n -> Seq(Symbols)]
  BY <1>2
<1> QED
  BY <1>1, <1>3, <1>4

LEMMA StepMask == MaskInv /\ [Next]_vars => MaskInv'
<1> SUFFICES ASSUME MaskInv, [Next]_vars PROVE MaskInv'
  OBVIOUS
<1>0. scene' = scene
  BY DEF Next, Step, Keys, MakeDir, Unlink, Link, StartJob, Output, EndJob, KillRun, Move, vars
<1>1. CASE UNCHANGED <<stage, writer>>
  BY <1>0, <1>1 DEF MaskInv, In
\* A step to another stage that is not the job's.
<1>2. ASSUME NEW p \in Procs, NEW s, Reach(p, s), s # "jobs", writer' = writer, stage[p] # "absent"
      PROVE  MaskInv'
  <2>1. DOMAIN stage' = Procs /\ stage'[p] = s /\ \A q \in Procs \ {p} : stage'[q] = stage[q]
    BY <1>2 DEF MaskInv, Reach
  <2> QED
    BY <1>0, <1>2, <2>1 DEF MaskInv, In
\* A step that writes one writer.
<1>3. ASSUME NEW p \in Procs, NEW s, NEW w \in Writers,
             Reach(p, s) \/ (stage' = stage /\ stage[p] = s),
             writer' = [writer EXCEPT ![p] = w], Hides(w), s = "jobs" => SafeWriter(w),
             stage[p] # "absent"
      PROVE  MaskInv'
  <2>1. DOMAIN stage' = Procs /\ stage'[p] = s /\ \A q \in Procs \ {p} : stage'[q] = stage[q]
    BY <1>3 DEF MaskInv, Reach
  <2>2. DOMAIN writer' = Procs /\ writer'[p] = w /\ \A q \in Procs \ {p} : writer'[q] = writer[q]
    BY <1>3 DEF MaskInv
  <2> QED
    BY <1>0, <1>3, <2>1, <2>2 DEF MaskInv, In
<1>4. CASE Move
  BY <1>1, <1>4 DEF Move
<1>5. ASSUME NEW p \in Procs, KillRun(p) PROVE MaskInv'
  BY <1>1, <1>5 DEF KillRun
<1>6. ASSUME NEW p \in Procs, Step(p) PROVE MaskInv'
  <2>1. CASE Keys(p)
    BY <1>2, <2>1 DEF Keys, In
  <2>2. CASE MakeDir(p)
    BY <1>2, <2>2 DEF MakeDir, In
  <2>3. CASE Unlink(p)
    BY <1>2, <2>3 DEF Unlink, In
  <2>4. CASE Link(p)
    BY <1>2, <2>4 DEF Link, In
  <2>5. CASE StartJob(p)
    <3> DEFINE run == scene.run[p]
    <3>1. run # NoRun /\ stage[p] # "absent"
      BY <2>5 DEF StartJob, MaskInv, In
    <3>2. run.output \in Seq(Symbols) /\ IsFiniteSet(run.secrets) /\ run.secrets \in SUBSET Seq(Symbols)
      BY <3>1, HostAssumption DEF MaskInv
    <3>3. PICK secrets \in LongestFirst(run.secrets) :
            writer' = [writer EXCEPT ![p] = Writer(run.output, secrets)]
      BY <2>5 DEF StartJob
    <3>4. secrets \in Seq(Seq(Symbols)) /\ \A j \in DOMAIN secrets : secrets[j] # <<>>
      BY <3>2, <3>3, LongestFirstAre
    <3> DEFINE w == Writer(run.output, secrets)
    <3>5. w \in Writers /\ SafeWriter(w)
      BY <3>2, <3>4, NewWriterSafe
    <3>6. Hides(w)
      BY <3>5, SafeHides
    <3>7. Reach(p, "jobs")
      BY <2>5 DEF StartJob
    <3> HIDE DEF w
    <3>8. writer' = [writer EXCEPT ![p] = w]
      BY <3>3 DEF w
    <3> QED
      BY <1>3, <3>1, <3>5, <3>6, <3>7, <3>8
  <2>6. CASE Output(p)
    <3>1. PICK n \in 1..Len(writer[p].output) - writer[p].fed :
            \E w \in Written(writer[p], n) : writer' = [writer EXCEPT ![p] = w]
      BY <2>6 DEF Output
    <3>2. PICK w \in Written(writer[p], n) : writer' = [writer EXCEPT ![p] = w]
      BY <3>1
    <3>3. writer[p] \in Writers /\ SafeWriter(writer[p]) /\ stage[p] = "jobs"
      BY <2>6 DEF Output, MaskInv, In
    <3>4. w \in Writers /\ SafeWriter(w)
      BY <3>2, <3>3, WriteIsSafe
    <3>5. Hides(w)
      BY <3>4, SafeHides
    <3>6. stage' = stage
      BY <2>6 DEF Output
    <3> QED
      BY <1>3, <3>2, <3>3, <3>4, <3>5, <3>6
  <2>7. CASE EndJob(p)
    <3>1. PICK w \in Closed(writer[p]) : writer' = [writer EXCEPT ![p] = w]
      BY <2>7 DEF EndJob
    <3>2. writer[p] \in Writers /\ SafeWriter(writer[p]) /\ stage[p] = "jobs"
      BY <2>7 DEF EndJob, MaskInv, In
    <3>3. w \in Writers /\ Hides(w)
      BY <3>1, <3>2, CloseHides
    <3>4. Reach(p, "ended")
      BY <2>7 DEF EndJob
    <3>5. "ended" # "jobs" /\ stage[p] # "absent"
      BY <3>2
    <3> QED
      BY <1>3, <3>1, <3>3, <3>4, <3>5
  <2> QED
    BY <1>6, <2>1, <2>2, <2>3, <2>4, <2>5, <2>6, <2>7 DEF Step
<1> QED
  BY <1>1, <1>4, <1>5, <1>6 DEF Next, vars

\* mask.go:48-73: nothing that spells a secret reaches the log whole, for all
\* outputs, secrets and cuts, failed writes and kills included.
THEOREM SecretsStayHidden == Spec => []NoSecretShown
<1>1. ASSUME MaskInv PROVE NoSecretShown
  <2> SUFFICES ASSUME NEW p \in Procs, NEW s \in Range(writer[p].secrets),
                      NEW i \in Occurrences(writer[p], s),
                      i..i + Len(s) - 1 \subseteq Range(writer[p].shown)
               PROVE  FALSE
    BY DEF NoSecretShown
  <2> DEFINE w == writer[p]
  <2>1. PICK j \in DOMAIN w.secrets : w.secrets[j] = s
    BY DEF Range
  <2>2. w \in Writers /\ Hides(w)
    BY <1>1 DEF MaskInv
  <2>3. /\ s \in Seq(Symbols) /\ Len(s) \in Nat /\ w.output \in Seq(Symbols) /\ w.fed \in Nat
        /\ w.fed <= Len(w.output)
    BY <2>1, <2>2 DEF Writers
  <2> HIDE DEF w
  <2> DEFINE n == Len(s)
  <2>4. /\ i \in Nat \ {0} /\ i + n - 1 <= w.fed
        /\ SubSeq(w.output, i, i + n - 1) = s
    BY <2>3 DEF Occurrences, w
  <2> DEFINE k == i + n - 1
  <2>5. \A d \in 1..n : s[d] = w.output[i + d - 1]
    <3>1. i \in Int /\ k \in Int /\ \A a \in i..k : w.output[a] \in Symbols
      BY <2>3, <2>4
    <3>2. SubSeq(w.output, i, k) = s
      BY <2>4
    <3> HIDE DEF k
    <3>3. \A d \in 1..k - i + 1 : SubSeq(w.output, i, k)[d] = w.output[i + d - 1]
      BY <3>1, SubSeqProperties
    <3>4. k - i + 1 = n
      BY <2>3, <2>4 DEF k
    <3> QED
      BY <3>2, <3>3, <3>4
  <2>6. DOMAIN s = 1..n
    BY <2>3
  <2>7. Spells(w.output, i, s)
    BY <2>5, <2>6 DEF Spells
  <2>8. PICK d \in DOMAIN s : ~Holds(w.shown, i + d - 1)
    BY <2>1, <2>2, <2>4, <2>7 DEF Hides
  <2>9. i + d - 1 \in i..i + Len(s) - 1
    BY <2>3, <2>4, <2>6
  <2>10. i + d - 1 \in Range(w.shown)
    BY <2>9 DEF w
  <2> QED
    BY <2>8, <2>10 DEF Range, Holds
<1> QED
  BY InitMask, StepMask, <1>1, PTL DEF Spec

----------------------------------------------------------------------------
(* The output masked as a whole.                                           *)

\* The stretches of the output that spell a secret.
LEMMA OccurrencesAre ==
  ASSUME NEW w \in Writers, NEW j \in DOMAIN w.secrets
  PROVE  Occurrences(w, w.secrets[j]) =
           {i \in Nat \ {0} : Spells(w.output, i, w.secrets[j]) /\ i + Len(w.secrets[j]) - 1 <= w.fed}
<1> DEFINE s == w.secrets[j]
           n == Len(s)
           output == w.output
           fed == w.fed
<1>1. s \in Seq(Symbols) /\ n \in Nat \ {0} /\ DOMAIN s = 1..n /\ output \in Seq(Symbols) /\ fed \in Nat /\ fed <= Len(output)
  <2>1. s \in Seq(Symbols) /\ s # <<>> /\ output \in Seq(Symbols) /\ fed \in Nat /\ fed <= Len(output)
    BY DEF Writers
  <2> HIDE DEF s
  <2> QED
    BY <2>1
<1> HIDE DEF output, fed, s
<1>2. ASSUME NEW i \in Nat \ {0}, i + n - 1 <= fed
      PROVE  SubSeq(output, i, i + n - 1) = s <=> Spells(output, i, s)
  <2> DEFINE k == i + n - 1
             x == SubSeq(output, i, k)
  <2>1. i \in Int /\ k \in Int /\ i <= k /\ k - i + 1 = n /\ \A a \in i..k : output[a] \in Symbols
    BY <1>1, <1>2
  <2> HIDE DEF k, n
  <2>2. /\ SubSeq(output, i, k) \in Seq(Symbols)
        /\ Len(SubSeq(output, i, k)) = IF i <= k THEN k - i + 1 ELSE 0
        /\ \A d \in 1..k - i + 1 : SubSeq(output, i, k)[d] = output[i + d - 1]
    BY <2>1, SubSeqProperties
  <2>3. x \in Seq(Symbols) /\ Len(x) = n /\ \A d \in 1..n : x[d] = output[i + d - 1]
    BY <2>1, <2>2
  <2> HIDE DEF x
  <2>4. ASSUME x = s PROVE Spells(output, i, s)
    BY <1>1, <2>3, <2>4 DEF Spells
  <2>5. ASSUME Spells(output, i, s) PROVE x = s
    <3>1. \A d \in 1..n : x[d] = s[d]
      BY <1>1, <2>3, <2>5 DEF Spells
    <3>2. Len(s) = n
      BY DEF n
    <3> QED
      BY <1>1, <2>3, <3>1, <3>2
  <2> QED
    BY <2>4, <2>5 DEF x, k
<1>3. ASSUME NEW i \in 1..fed - n + 1 PROVE i \in Nat \ {0} /\ i + n - 1 <= fed
  <2> HIDE DEF n
  <2> QED
    BY <1>1
<1>4. ASSUME NEW i \in Nat \ {0}, i + n - 1 <= fed PROVE i \in 1..fed - n + 1
  <2>1. n \in Nat
    BY <1>1
  <2> HIDE DEF n
  <2> QED
    BY <1>1, <1>4, <2>1
<1>5. Occurrences(w, s) = {i \in 1..fed - n + 1 : SubSeq(output, i, i + n - 1) = s}
  BY DEF Occurrences, output, fed
<1> HIDE DEF n
<1>6. Occurrences(w, s) = {i \in Nat \ {0} : Spells(output, i, s) /\ i + n - 1 <= fed}
  BY <1>2, <1>3, <1>4, <1>5
<1> QED
  BY <1>6 DEF s, n, output, fed

\* Those of the reference are the stretches up to what was written.
LEMMA StretchesAre ==
  ASSUME NEW w \in Writers
  PROVE  Stretches(w) = {f[1]..f[2] : f \in All(w.output, w.secrets, w.fed)}
<1> DEFINE all == All(w.output, w.secrets, w.fed)
           output == w.output
           secrets == w.secrets
           fed == w.fed
<1>1. secrets \in Seq(Seq(Symbols)) /\ (\A j \in DOMAIN secrets : secrets[j] # <<>>) /\ fed \in Nat
  BY DEF Writers
<1>2. /\ \A f \in all :
           /\ f[1] \in Nat \ {0} /\ f[2] \in Nat /\ f[1] <= f[2] /\ f[2] <= fed
           /\ \E j \in DOMAIN secrets :
                f[2] = f[1] + Len(secrets[j]) - 1 /\ Spells(output, f[1], secrets[j])
      /\ \A j \in DOMAIN secrets : \A i \in Nat \ {0} :
           Spells(output, i, secrets[j]) /\ i + Len(secrets[j]) - 1 <= fed =>
             <<i, i + Len(secrets[j]) - 1>> \in all
  <2>1. all = All(output, secrets, fed)
    OBVIOUS
  <2> HIDE DEF output, secrets, fed, all
  <2> QED
    BY <1>1, <2>1, AllAre
<1>3. \A j \in DOMAIN secrets : Occurrences(w, secrets[j]) =
           {i \in Nat \ {0} : Spells(output, i, secrets[j]) /\ i + Len(secrets[j]) - 1 <= fed}
  BY OccurrencesAre
<1>4. Stretches(w) = UNION {{i..i + Len(s) - 1 : i \in Occurrences(w, s)} : s \in Range(secrets)}
  BY DEF Stretches
<1>5. Range(secrets) = {secrets[j] : j \in DOMAIN secrets}
  BY DEF Range
<1> HIDE DEF output, secrets, fed, all
<1>6. ASSUME NEW o \in Stretches(w) PROVE o \in {f[1]..f[2] : f \in all}
  <2>1. PICK j \in DOMAIN secrets : o \in {i..i + Len(secrets[j]) - 1 : i \in Occurrences(w, secrets[j])}
    BY <1>4, <1>5
  <2>2. PICK i \in Occurrences(w, secrets[j]) : o = i..i + Len(secrets[j]) - 1
    BY <2>1
  <2>3. i \in Nat \ {0} /\ Spells(output, i, secrets[j]) /\ i + Len(secrets[j]) - 1 <= fed
    BY <1>3
  <2> DEFINE f == <<i, i + Len(secrets[j]) - 1>>
  <2>4. f \in all
    BY <1>2, <2>3
  <2>5. o = f[1]..f[2]
    BY <2>2
  <2> QED
    BY <2>4, <2>5
<1>7. ASSUME NEW f \in all PROVE f[1]..f[2] \in Stretches(w)
  <2>1. f[1] \in Nat \ {0} /\ f[2] <= fed
    BY <1>2
  <2>2. PICK j \in DOMAIN secrets : f[2] = f[1] + Len(secrets[j]) - 1 /\ Spells(output, f[1], secrets[j])
    BY <1>2
  <2>3. f[1] \in Occurrences(w, secrets[j])
    BY <1>3, <2>1, <2>2
  <2>4. f[1]..f[2] \in {i..i + Len(secrets[j]) - 1 : i \in Occurrences(w, secrets[j])}
    BY <2>2, <2>3
  <2> QED
    BY <1>4, <1>5, <2>4
<1>8. Stretches(w) = {f[1]..f[2] : f \in all}
  BY <1>6, <1>7
<1> QED
  BY <1>8 DEF all

\* The first positions of the outermost stretches are those that a Star takes.
LEMMA OutermostStart ==
  ASSUME NEW w \in Writers, Separate(w.secrets), NEW all, all = All(w.output, w.secrets, w.fed)
  PROVE  /\ {CHOOSE i \in o : \A k \in o : i <= k : o \in Outermost(w)} = Starts(all)
         /\ UNION Stretches(w) = Hidden(all)
<1> DEFINE output == w.output
           secrets == w.secrets
           fed == w.fed
           least(o) == CHOOSE i \in o : \A k \in o : i <= k
<1>1. secrets \in Seq(Seq(Symbols)) /\ (\A j \in DOMAIN secrets : secrets[j] # <<>>) /\ fed \in Nat
  BY DEF Writers
<1>2. \A f \in all :
           /\ f[1] \in Nat \ {0} /\ f[2] \in Nat /\ f[1] <= f[2] /\ f[2] <= fed
           /\ \E j \in DOMAIN secrets :
                f[2] = f[1] + Len(secrets[j]) - 1 /\ Spells(output, f[1], secrets[j])
  <2>1. all = All(output, secrets, fed)
    OBVIOUS
  <2> HIDE DEF output, secrets, fed
  <2> QED
    BY <1>1, <2>1, AllAre
<1>3. Stretches(w) = {f[1]..f[2] : f \in all}
  BY StretchesAre
<1>4. \A j, k \in DOMAIN secrets : ~Overlap(secrets[j], secrets[k])
  BY DEF Separate
<1>5. Outermost(w) = {o \in Stretches(w) : \A q \in Stretches(w) : o \subseteq q => q = o}
  BY DEF Outermost
<1> HIDE DEF output, secrets, fed
<1>6. ASSUME NEW f \in all PROVE least(f[1]..f[2]) = f[1]
  <2>1. f[1] \in Nat /\ f[2] \in Nat /\ f[1] <= f[2]
    BY <1>2
  <2> DEFINE x == f[1]
             y == f[2]
  <2> HIDE DEF x, y
  <2>2. x \in Nat /\ y \in Nat /\ x <= y
    BY <2>1 DEF x, y
  <2>3. x \in x..y /\ \A k \in x..y : x <= k
    BY <2>2
  <2>4. least(x..y) \in x..y /\ \A k \in x..y : least(x..y) <= k
    BY <2>3
  <2>5. least(x..y) = x
    <3> DEFINE z == least(x..y)
    <3> HIDE DEF z
    <3>1. z \in x..y /\ z <= x
      BY <2>3, <2>4 DEF z
    <3>2. z = x
      BY <2>2, <3>1
    <3> QED
      BY <3>2 DEF z
  <2> QED
    BY <2>5 DEF x, y
<1> HIDE DEF least
\* One stretch is in another when its ends are.
<1>7. ASSUME NEW f \in all, NEW g \in all
      PROVE  f[1]..f[2] \subseteq g[1]..g[2] <=> g[1] <= f[1] /\ f[2] <= g[2]
  <2> DEFINE x == f[1]
             y == f[2]
             u == g[1]
             v == g[2]
  <2>1. x \in Nat /\ y \in Nat /\ x <= y /\ u \in Nat /\ v \in Nat
    BY <1>2
  <2> HIDE DEF x, y, u, v
  <2>2. x \in x..y /\ y \in x..y
    BY <2>1
  <2>3. x..y \subseteq u..v => u <= x /\ y <= v
    BY <2>1, <2>2
  <2>4. u <= x /\ y <= v => x..y \subseteq u..v
    BY <2>1
  <2> QED
    BY <2>3, <2>4 DEF x, y, u, v
<1>8. ASSUME NEW q \in Starts(all) PROVE \E o \in Outermost(w) : least(o) = q
  <2>1. q \in Nat /\ (\E f \in all : f[1] = q) /\ \A f \in all : f[1] < q => f[2] < q
    BY DEF Starts
  <2> DEFINE ends == {e \in 1..fed : \E f \in all : f[1] = q /\ f[2] = e}
  <2>2. PICK f0 \in all : f0[1] = q
    BY <2>1
  <2>3. ends \in SUBSET (1..fed) /\ ends # {}
    <3>1. f0[2] \in 1..fed
      BY <1>1, <1>2
    <3>2. f0[2] \in ends
      BY <2>2, <3>1
    <3> QED
      BY <3>2
  <2> HIDE DEF ends
  <2>4. PICK e \in ends : \A m \in ends : m <= e
    BY <1>1, <2>3, Greatest
  <2>5. PICK f \in all : f[1] = q /\ f[2] = e
    BY DEF ends
  <2>6. ASSUME NEW g \in all, g[1] <= f[1], f[2] <= g[2] PROVE g[1] = f[1] /\ g[2] = f[2]
    <3>1. g[1] \in Nat /\ g[2] \in Nat /\ f[1] \in Nat \ {0} /\ f[2] \in Nat /\ f[1] <= f[2] /\ g[2] <= fed
      BY <1>2
    <3>2. ~(g[1] < q)
      <4> SUFFICES ASSUME g[1] < q PROVE FALSE
        OBVIOUS
      <4>1. g[2] < q
        BY <2>1
      <4> QED
        BY <2>5, <2>6, <3>1, <4>1
    <3>3. g[1] = q
      BY <2>1, <2>5, <2>6, <3>1, <3>2
    <3>4. g[2] \in ends
      <4>1. g[2] \in 1..fed
        <5> DEFINE x == f[1]
                   y == f[2]
                   z == g[2]
        <5>1. x \in Nat \ {0} /\ y \in Nat /\ x <= y /\ y <= z /\ z \in Nat /\ z <= fed /\ fed \in Nat
          BY <1>1, <2>6, <3>1
        <5> HIDE DEF x, y, z
        <5>2. z \in 1..fed
          BY ONLY <5>1
        <5> QED
          BY <5>2 DEF z
      <4> QED
        BY <3>3, <4>1 DEF ends
    <3>5. g[2] <= e
      BY <2>4, <3>4
    <3> QED
      BY <2>5, <2>6, <3>1, <3>3, <3>5
  <2>7. f[1]..f[2] \in Outermost(w)
    <3>1. f[1]..f[2] \in Stretches(w)
      BY <1>3
    <3>2. ASSUME NEW o \in Stretches(w), f[1]..f[2] \subseteq o PROVE o = f[1]..f[2]
      <4>1. PICK g \in all : o = g[1]..g[2]
        BY <1>3
      <4>2. g[1] <= f[1] /\ f[2] <= g[2]
        BY <1>7, <3>2, <4>1
      <4> QED
        BY <2>6, <4>1, <4>2
    <3> QED
      BY <1>5, <3>1, <3>2
  <2>8. least(f[1]..f[2]) = q
    BY <1>6, <2>5
  <2> QED
    BY <2>7, <2>8
<1>9. ASSUME NEW o \in Outermost(w) PROVE least(o) \in Starts(all)
  <2>1. PICK f \in all : o = f[1]..f[2]
    BY <1>3, <1>5
  <2>2. least(o) = f[1]
    BY <1>6, <2>1
  <2>3. ASSUME NEW g \in all, g[1] < f[1] PROVE g[2] < f[1]
    <3> SUFFICES ASSUME ~(g[2] < f[1]) PROVE FALSE
      OBVIOUS
    <3>1. /\ f[1] \in Nat /\ f[2] \in Nat /\ f[1] <= f[2]
          /\ g[1] \in Nat /\ g[2] \in Nat /\ g[1] <= g[2]
      BY <1>2
    <3>2. PICK j \in DOMAIN secrets : f[2] = f[1] + Len(secrets[j]) - 1 /\ Spells(output, f[1], secrets[j])
      BY <1>2
    <3>3. PICK k \in DOMAIN secrets : g[2] = g[1] + Len(secrets[k]) - 1 /\ Spells(output, g[1], secrets[k])
      BY <1>2
    <3>4. secrets[j] \in Seq(Symbols) /\ secrets[k] \in Seq(Symbols) /\ Len(secrets[j]) \in Nat /\ Len(secrets[k]) \in Nat
      <4>1. secrets[j] \in Seq(Symbols)
        BY <1>1
      <4>2. secrets[k] \in Seq(Symbols)
        BY <1>1
      <4> QED
        BY <4>1, <4>2
    <3> DEFINE x == f[1]
               u == g[1]
    <3>5. x \in Nat /\ u \in Nat /\ u < x /\ x <= u + Len(secrets[k]) - 1
      BY <2>3, <3>1, <3>3
    <3>6. Spells(output, x, secrets[j]) /\ Spells(output, u, secrets[k]) /\ ~Overlap(secrets[k], secrets[j])
      BY <1>4, <3>2, <3>3
    <3> HIDE DEF x, u
    <3>7. x + Len(secrets[j]) <= u + Len(secrets[k])
      BY <3>4, <3>5, <3>6, NoOverlap
    <3>8. g[1] <= f[1] /\ f[2] <= g[2]
      BY <3>1, <3>2, <3>3, <3>4, <3>5, <3>7, SMTT(30) DEF x, u
    <3>9. f[1]..f[2] \subseteq g[1]..g[2]
      BY <1>7, <3>8
    <3>10. g[1]..g[2] = f[1]..f[2]
      BY <1>3, <1>5, <2>1, <3>9
    <3>11. g[1] = f[1]
      BY <1>6, <3>10
    <3> QED
      BY <2>3, <3>1, <3>11
  <2>4. f[1] \in Nat
    BY <1>2
  <2> QED
    BY <2>2, <2>3, <2>4 DEF Starts
<1>10. {least(o) : o \in Outermost(w)} = Starts(all)
  BY <1>8, <1>9
<1>11. UNION Stretches(w) = Hidden(all)
  <2>1. ASSUME NEW q PROVE q \in UNION Stretches(w) <=> q \in Hidden(all)
    <3>1. ASSUME q \in UNION Stretches(w) PROVE q \in Hidden(all)
      <4>1. PICK f \in all : q \in f[1]..f[2]
        BY <1>3, <3>1
      <4>2. f[1] \in Nat /\ f[2] \in Nat
        BY <1>2
      <4>3. q \in Nat /\ f[1] <= q /\ q <= f[2]
        BY <4>1, <4>2
      <4> QED
        BY <4>3 DEF Hidden
    <3>2. ASSUME q \in Hidden(all) PROVE q \in UNION Stretches(w)
      <4>1. PICK f \in all : f[1] <= q /\ q <= f[2]
        BY <3>2 DEF Hidden
      <4>2. f[1] \in Nat /\ f[2] \in Nat /\ q \in Nat
        BY <1>2, <3>2 DEF Hidden
      <4>3. q \in f[1]..f[2]
        BY <4>1, <4>2
      <4> QED
        BY <1>3, <4>3
    <3> QED
      BY <3>1, <3>2
  <2> QED
    BY <2>1
<1> QED
  BY <1>10, <1>11 DEF least

\* The reference is what is left of what was written.
LEMMA WholeShows ==
  ASSUME NEW w \in Writers, Separate(w.secrets), NEW all, all = All(w.output, w.secrets, w.fed)
  PROVE  Shows(Whole(w), 1, w.fed, Starts(all), Gone(all))
<1> DEFINE fed == w.fed
           stars == Starts(all)
           gone == Gone(all)
           hidden == Hidden(all)
           p == [i \in 1..fed |-> IF i \in stars THEN <<Star>> ELSE IF i \in hidden THEN <<>> ELSE <<i>>]
<1>1. fed \in Nat
  BY DEF Writers
<1>2. /\ {CHOOSE i \in o : \A k \in o : i <= k : o \in Outermost(w)} = stars
      /\ UNION Stretches(w) = hidden
  BY OutermostStart
<1>3. Whole(w) = FlattenSeq(p)
  BY <1>2 DEF Whole
<1>4. hidden = stars \cup gone /\ stars \cap gone = {}
  <2>1. Stretched(all)
    <3> DEFINE secrets == w.secrets
               output == w.output
    <3>1. secrets \in Seq(Seq(Symbols)) /\ (\A j \in DOMAIN secrets : secrets[j] # <<>>) /\ all = All(output, secrets, fed)
      BY DEF Writers
    <3> HIDE DEF secrets, output, fed
    <3>2. Stretched(All(output, secrets, fed))
      BY <1>1, <3>1, AllAre
    <3> QED
      BY <3>1, <3>2
  <2> QED
    BY <2>1, HiddenParts DEF Gone
<1> HIDE DEF fed, stars, gone, hidden
<1>5. ASSUME NEW i \in 1..fed PROVE p[i] \in Seq(Nat) /\ Shows(p[i], i, i, stars, gone)
  <2>1. i \in Nat /\ i <= i /\ i + 1..i = {} /\ \A k \in i..i : k = i
    BY <1>1
  <2>2. CASE i \in stars
    <3>1. p[i] = <<Star>> /\ i \notin gone /\ Star \in Nat /\ Star = IF i \in stars THEN Star ELSE i
      BY <1>4, <2>2 DEF Star
    <3>2. Shows(<<Star>>, i, i, stars, gone)
      BY <2>1, <3>1, ShowsOne
    <3>3. <<Star>> \in Seq(Nat)
      BY <3>1
    <3> QED
      BY <3>1, <3>2, <3>3
  <2>3. CASE i \notin stars /\ i \in hidden
    <3>1. p[i] = <<>> /\ i \in gone
      BY <1>4, <2>3
    <3>2. Shows(<<>>, i, i, stars, gone)
      BY <2>1, <3>1, ShowsNone
    <3>3. <<>> \in Seq(Nat)
      OBVIOUS
    <3> QED
      BY <3>1, <3>2, <3>3
  <2>4. CASE i \notin stars /\ i \notin hidden
    <3>1. p[i] = <<i>> /\ i \notin gone /\ i = IF i \in stars THEN Star ELSE i
      BY <1>4, <2>4
    <3>2. Shows(<<i>>, i, i, stars, gone)
      BY <2>1, <3>1, ShowsOne
    <3>3. <<i>> \in Seq(Nat)
      BY <2>1
    <3> QED
      BY <3>1, <3>2, <3>3
  <2> QED
    BY <2>2, <2>3, <2>4
<1>6. Len(p) = fed /\ p \in Seq(Seq(Nat))
  <2>1. p = [i \in 1..fed |-> p[i]]
    OBVIOUS
  <2> HIDE DEF p
  <2>2. p \in [1..fed -> Seq(Nat)]
    BY <1>5, <2>1
  <2> QED
    BY <1>1, <2>2
<1> HIDE DEF p
<1>7. Shows(FlattenSeq(p), 1, fed, stars, gone)
  BY <1>1, <1>5, <1>6, FlattenShows
<1> QED
  BY <1>3, <1>7 DEF fed, stars, gone

\* What Tame says of the writer's parts.
Tamed(w) == Separate(w.secrets) /\ Uncut(w.output, w.secrets, w.fed, w.cuts)

\* A tame writer that lost nothing has let through what is left of a part of the output,
\* and holds what is left of the rest.
Going(w) ==
  /\ Longest(w.secrets) /\ (w.fed = 0 \/ w.fed \in w.cuts)
  /\ Tamed(w) /\ ~w.lost => \E lo : Halves(w.output, w.secrets, w.fed, w.buf, w.shown, lo)

\* Closed, it has let through what is left of all.
Finished(w) ==
  Tamed(w) /\ ~w.lost =>
    Shows(w.shown, 1, w.fed, Starts(All(w.output, w.secrets, w.fed)), Gone(All(w.output, w.secrets, w.fed)))

\* The writers that the property is about are tame.
LEMMA TameIs == ASSUME NEW w \in Writers, Tame(w) PROVE Tamed(w)
<1> DEFINE secrets == w.secrets
<1>1. \A j \in DOMAIN secrets : secrets[j] \in Range(secrets)
  BY DEF Range
<1>2. Separate(secrets)
  BY <1>1 DEF Tame, Separate
<1>3. ASSUME NEW j \in DOMAIN secrets, NEW k \in DOMAIN secrets, Nested(secrets[j], secrets[k]),
             NEW i \in Nat \ {0}, Spells(w.output, i, secrets[k]), i + Len(secrets[k]) - 1 <= w.fed,
             NEW c \in i..i + Len(secrets[k]) - 2
      PROVE  c \notin w.cuts
  <2>1. Occurrences(w, w.secrets[k]) =
          {q \in Nat \ {0} : Spells(w.output, q, w.secrets[k]) /\ q + Len(w.secrets[k]) - 1 <= w.fed}
    BY OccurrencesAre
  <2>2. i \in Occurrences(w, secrets[k])
    BY <1>3, <2>1
  <2>3. (i..i + Len(secrets[k]) - 2) \cap w.cuts = {}
    BY <1>1, <1>3, <2>2 DEF Tame
  <2> QED
    BY <2>3
<1>4. Uncut(w.output, secrets, w.fed, w.cuts)
  BY <1>3 DEF Uncut
<1> QED
  BY <1>2, <1>4 DEF Tamed

\* What a finished writer has let through is the reference: what is left of some positions
\* is one list.
LEMMA FinishedIsWhole ==
  ASSUME NEW w \in Writers, Finished(w), Tame(w), ~w.lost
  PROVE  w.shown = Whole(w)
<1>1. Tamed(w)
  BY TameIs
<1> DEFINE all == All(w.output, w.secrets, w.fed)
           stars == Starts(all)
           gone == Gone(all)
           fed == w.fed
           shown == w.shown
           whole == Whole(w)
<1>2. Shows(shown, 1, fed, stars, gone)
  BY <1>1 DEF Finished
<1>3. Separate(w.secrets) /\ all = All(w.output, w.secrets, w.fed) /\ fed \in Nat /\ 1 \in Nat
  BY <1>1 DEF Tamed, Writers
<1> HIDE DEF all
<1>4. Shows(whole, 1, fed, stars, gone)
  BY <1>3, WholeShows
<1> HIDE DEF stars, gone, fed, shown, whole
<1>5. shown = whole
  BY <1>2, <1>3, <1>4, ShowsUnique
<1> QED
  BY <1>5 DEF shown, whole

\* A new writer, which was given nothing.
LEMMA NewWriterGoes ==
  ASSUME NEW output, NEW secrets, Longest(secrets)
  PROVE  Going(Writer(output, secrets)) /\ Finished(Writer(output, secrets))
<1> DEFINE w == Writer(output, secrets)
           all == All(output, secrets, 0)
           none == <<>>
<1>1. w.output = output /\ w.secrets = secrets /\ w.fed = 0 /\ w.buf = none /\ w.shown = none
  BY DEF Writer
<1>2. Shows(none, 1, 0, Starts(all), Gone(all))
  <2>1. 1 \in Nat /\ 0 \in Nat /\ \A i \in 1..0 : i \in Gone(all)
    OBVIOUS
  <2> QED
    BY <2>1, ShowsNone
<1> HIDE DEF w, none
<1>3. Halves(output, secrets, 0, none, none, 1)
  <2>1. 1 \in 1..0 + 1 /\ 1 - 1 = 0
    OBVIOUS
  <2> QED
    BY <1>2, <2>1 DEF Halves
<1>4. Going(w)
  BY <1>1, <1>3 DEF Going
<1>5. Finished(w)
  BY <1>1, <1>2 DEF Finished
<1> QED
  BY <1>4, <1>5 DEF w

\* Write: a write that loses nothing lets through all that it does not hold back.
LEMMA WriteGoes ==
  ASSUME NEW w \in Writers, SafeWriter(w), Going(w),
         NEW n \in 1..Len(w.output) - w.fed, NEW v \in Written(w, n)
  PROVE  Going(v)
<1> DEFINE output == w.output
           secrets == w.secrets
           fed == w.fed
           cuts == w.cuts
           buf == w.buf
           shown == w.shown
           e == [i \in 1..n |-> fed + i]
           t == Replaced(output, buf \o e, secrets)
           size == Len(t) - HoldLen(output, t, secrets)
           held == SubSeq(t, size + 1, Len(t))
           through(m) == shown \o SubSeq(t, 1, m)
<1>1. PICK m \in {0, size} :
        v = [w EXCEPT !.fed = @ + n, !.cuts = @ \cup {w.fed + n}, !.buf = held,
                      !.shown = through(m), !.lost = @ \/ m < size]
  BY Zenon DEF Written
<1>2. /\ secrets \in Seq(Seq(Symbols)) /\ buf \in Seq(Nat) /\ shown \in Seq(Nat) /\ fed \in Nat
      /\ (\A j \in DOMAIN secrets : secrets[j] # <<>>) /\ cuts \in SUBSET Nat
      /\ Safe(output, secrets, fed, buf, shown) /\ n \in Nat
      /\ Longest(secrets) /\ (fed = 0 \/ fed \in cuts)
      /\ w.lost \in BOOLEAN
  BY DEF Writers, SafeWriter, Going
<1>f. Fresh(e, fed, n)
  BY DEF Fresh
<1> HIDE DEF e
<1>3. /\ t \in Seq(Nat) /\ size \in 0..Len(t)
  <2> HIDE DEF output, secrets, fed, cuts, buf, shown
  <2> DEFINE u == buf \o e
  <2>0. fed + n \in Nat
    BY <1>2
  <2>1. u \in Seq(Nat) /\ Ordered(u) /\ EndsBy(u, fed + n)
    <3>1. Ordered(buf) /\ EndsBy(buf, fed) /\ \A y : Holds(buf, y) => y <= fed
      BY <1>2 DEF Safe
    <3>2. LET x == buf \o [i \in 1..n |-> fed + i]
           IN  /\ x \in Seq(Nat) /\ Ordered(x) /\ EndsBy(x, fed + n)
               /\ \A y : Holds(x, y) => Holds(buf, y) \/ y \in fed + 1..fed + n
               /\ \A y : Holds(x, y) => y <= fed + n
      BY <1>2, <3>1, Appended
    <3> QED
      BY <3>2 DEF e
  <2> HIDE DEF u
  <2>2. t = Replaced(output, u, secrets)
    BY DEF u
  <2> HIDE DEF t
  <2>3. t \in Seq(Nat) /\ Ordered(t) /\ EndsBy(t, fed + n)
    <3> DEFINE end == fed + n
    <3>1. end \in Nat /\ EndsBy(u, end)
      BY <2>0, <2>1
    <3> HIDE DEF end
    <3>2. LET x == Replaced(output, u, secrets)
          IN  /\ x \in Seq(Nat) /\ Ordered(x) /\ EndsBy(x, end)
              /\ \A y : y # Star /\ Holds(x, y) => Holds(u, y)
              /\ \A j \in DOMAIN secrets : \A i \in Nat \ {0} :
                   Spells(output, i, secrets[j]) => Torn(x, i, secrets[j])
      BY <1>2, <2>1, <3>1, ReplacedTears
    <3> QED
      BY <2>2, <3>2 DEF end
  <2> DEFINE hold == HoldLen(output, t, secrets)
  <2>4. hold \in 0..Len(t)
    BY <1>2, <2>3, HoldsBack
  <2>5. Len(t) \in Nat
    BY <2>3
  <2> HIDE DEF hold
  <2>6. Len(t) - hold \in 0..Len(t)
    BY <2>4, <2>5
  <2> QED
    BY <2>3, <2>6 DEF hold
<1> DEFINE end == fed + n
           more == cuts \cup {end}
           s == through(m)
           short == m < size
<1>4. v = [w EXCEPT !.fed = end, !.cuts = more, !.buf = held, !.shown = s, !.lost = w.lost \/ short]
  BY <1>1
<1> HIDE DEF end, more, s, short, held
<1>5. /\ v.output = output /\ v.secrets = secrets /\ v.fed = end /\ v.cuts = more /\ v.buf = held /\ v.shown = s
      /\ v.lost = (w.lost \/ short)
  BY <1>4 DEF Writers
<1>6. ASSUME Tamed(v), ~v.lost PROVE \E lo : Halves(output, secrets, end, held, s, lo)
  <2>1. ~w.lost /\ ~short
    BY <1>5, <1>6
  <2>2. m = size
    BY <1>3, <2>1 DEF short
  <2>3. Separate(secrets) /\ Uncut(output, secrets, end, more)
    BY <1>5, <1>6 DEF Tamed
  <2>4. Uncut(output, secrets, end, cuts)
    BY <2>3 DEF Uncut, more
  <2>5. Uncut(output, secrets, fed, cuts)
    <3> SUFFICES ASSUME NEW j \in DOMAIN secrets, NEW k \in DOMAIN secrets, Nested(secrets[j], secrets[k]),
                        NEW i \in Nat \ {0}, Spells(output, i, secrets[k]), i + Len(secrets[k]) - 1 <= fed,
                        NEW c \in i..i + Len(secrets[k]) - 2
                 PROVE  c \notin cuts
      BY DEF Uncut
    <3>1. Len(secrets[k]) \in Nat
      <4>1. secrets[k] \in Seq(Symbols)
        BY <1>2
      <4> QED
        BY <4>1
    <3> DEFINE l == Len(secrets[k])
    <3>2. i + l - 1 <= end
      <4>1. l \in Nat /\ i \in Nat /\ fed \in Nat /\ n \in Nat /\ i + l - 1 <= fed
        BY <1>2, <3>1
      <4> HIDE DEF l, fed
      <4> QED
        BY ONLY <4>1 DEF end
    <3> QED
      BY <2>4, <3>2 DEF Uncut
  <2>6. PICK lo : Halves(output, secrets, fed, buf, shown, lo)
    BY <2>1, <2>3, <2>5 DEF Going, Tamed
  <2>7. Uncut(output, secrets, fed + n, cuts)
    BY <2>4 DEF end
  <2>8. t = Replaced(output, buf \o e, secrets) /\ size \in 0..Len(t)
    BY <1>3
  <2> HIDE DEF output, secrets, fed, cuts, buf, shown, t, size
  <2>9. \E k : Halves(output, secrets, fed + n, SubSeq(t, size + 1, Len(t)), shown \o SubSeq(t, 1, size), k)
    BY <1>2, <1>f, <2>3, <2>6, <2>7, <2>8, WriteHalves
  <2> QED
    BY <2>2, <2>9 DEF end, held, s
<1>7. end \in more
  BY DEF more
<1> QED
  BY <1>2, <1>5, <1>6, <1>7 DEF Going

\* Close lets through the rest.
LEMMA CloseFinishes ==
  ASSUME NEW w \in Writers, Going(w), NEW v \in Closed(w)
  PROVE  Finished(v)
<1> DEFINE output == w.output
           secrets == w.secrets
           fed == w.fed
           buf == w.buf
           shown == w.shown
           t == Replaced(output, buf, secrets)
           through(m) == shown \o SubSeq(t, 1, m)
<1>1. PICK m \in {0, Len(t)} :
        v = [w EXCEPT !.buf = <<>>, !.shown = through(m), !.lost = @ \/ m < Len(t)]
  BY Zenon DEF Closed
<1>2. /\ secrets \in Seq(Seq(Symbols)) /\ fed \in Nat /\ (\A j \in DOMAIN secrets : secrets[j] # <<>>)
      /\ Longest(secrets) /\ w.lost \in BOOLEAN
  BY DEF Writers, Going
<1> DEFINE s == through(m)
           short == m < Len(t)
           none == <<>>
<1>3. v = [w EXCEPT !.buf = none, !.shown = s, !.lost = w.lost \/ short]
  BY <1>1
<1> HIDE DEF s, short, none
<1>4. /\ v.output = output /\ v.secrets = secrets /\ v.fed = fed /\ v.cuts = w.cuts /\ v.shown = s
      /\ v.lost = (w.lost \/ short)
  BY <1>3 DEF Writers
<1> DEFINE new == All(output, secrets, fed)
<1>5. ASSUME Tamed(v), ~v.lost PROVE Shows(s, 1, fed, Starts(new), Gone(new))
  <2>1. ~w.lost /\ ~short
    BY <1>4, <1>5
  <2>2. Separate(secrets) /\ Tamed(w)
    BY <1>4, <1>5 DEF Tamed
  <2>3. PICK lo : Halves(output, secrets, fed, buf, shown, lo)
    BY <2>1, <2>2 DEF Going
  <2>4. t = Replaced(output, buf, secrets) /\ new = All(output, secrets, fed)
    OBVIOUS
  <2> HIDE DEF output, secrets, fed, buf, shown, t, new
  <2>5. /\ Shows(shown \o SubSeq(t, 1, Len(t)), 1, fed, Starts(new), Gone(new))
        /\ t \in Seq(Nat)
    BY <1>2, <2>2, <2>3, <2>4, CloseShows
  <2>6. s = shown \o SubSeq(t, 1, Len(t))
    <3>1. CASE m = Len(t)
      BY <3>1 DEF s
    <3>2. CASE m # Len(t)
      <4>1. m = 0 /\ ~(0 < Len(t))
        BY <1>1, <2>1, <3>2 DEF short
      <4>2. Len(t) \in Nat
        BY <2>5
      <4> QED
        BY <3>2, <4>1, <4>2
    <3> QED
      BY <3>1, <3>2
  <2> QED
    BY <2>5, <2>6
<1> QED
  BY <1>4, <1>5 DEF Finished

\* Every writer masks its output whole: one whose job runs can go on, and one whose job is
\* over has finished.
WholeInv ==
  /\ MaskInv
  /\ \A p \in Procs :
       /\ In(p, "jobs") => Going(writer[p])
       /\ In(p, "ended") => Finished(writer[p])
       /\ ~In(p, "jobs") /\ ~In(p, "ended") => writer[p] = NoWriter

\* The writer of a process that never ran its job.
LEMMA NoWriterFinished == Finished(NoWriter)
<1> DEFINE none == <<>>
<1>1. Longest(none) /\ NoWriter = Writer(none, none)
  BY DEF Longest, NoWriter
<1> HIDE DEF none
<1> QED
  BY <1>1, NewWriterGoes

\* No job runs at first.
LEMMA InitWhole == Init => WholeInv
<1> SUFFICES ASSUME Init PROVE WholeInv
  OBVIOUS
<1>1. MaskInv
  BY InitMask
<1>2. ASSUME NEW p \in Procs PROVE ~In(p, "jobs") /\ ~In(p, "ended") /\ writer[p] = NoWriter
  BY DEF Init, In
<1> QED
  BY <1>1, <1>2 DEF WholeInv

\* Every step of a process, a kill and a push keep it.
LEMMA StepWhole == WholeInv /\ [Next]_vars => WholeInv'
<1> SUFFICES ASSUME WholeInv, [Next]_vars PROVE WholeInv'
  OBVIOUS
<1>0. MaskInv /\ MaskInv'
  BY StepMask DEF WholeInv
<1>1. CASE UNCHANGED <<stage, writer>>
  BY <1>0, <1>1 DEF WholeInv, In
\* A step to another stage, before the job.
<1>2. ASSUME NEW p \in Procs, NEW s, Reach(p, s), s # "jobs", writer' = writer,
             stage[p] # "jobs", stage[p] # "ended"
      PROVE  WholeInv'
  <2>1. DOMAIN stage' = Procs /\ stage'[p] = s /\ \A q \in Procs \ {p} : stage'[q] = stage[q]
    BY <1>0, <1>2 DEF MaskInv, Reach
  <2>2. writer[p] = NoWriter
    BY <1>2 DEF WholeInv, In
  <2>3. Finished(writer'[p])
    BY <1>2, <2>2, NoWriterFinished
  <2>4. ASSUME NEW q \in Procs
        PROVE  /\ In(q, "jobs")' => Going(writer'[q])
               /\ In(q, "ended")' => Finished(writer'[q])
               /\ ~In(q, "jobs")' /\ ~In(q, "ended")' => writer'[q] = NoWriter
    <3>1. CASE q = p
      BY <1>2, <2>1, <2>2, <2>3, <3>1 DEF In
    <3>2. CASE q # p
      BY <1>2, <2>1, <3>2 DEF WholeInv, In
    <3> QED
      BY <3>1, <3>2
  <2> QED
    BY <1>0, <2>4 DEF WholeInv
\* A step that writes one writer.
<1>3. ASSUME NEW p \in Procs, NEW s, NEW w,
             Reach(p, s) \/ (stage' = stage /\ stage[p] = s), s \in {"jobs", "ended"},
             writer' = [writer EXCEPT ![p] = w], s = "jobs" => Going(w), s = "ended" => Finished(w)
      PROVE  WholeInv'
  <2>1. DOMAIN stage' = Procs /\ stage'[p] = s /\ \A q \in Procs \ {p} : stage'[q] = stage[q]
    BY <1>0, <1>3 DEF MaskInv, Reach
  <2>2. writer'[p] = w /\ \A q \in Procs \ {p} : writer'[q] = writer[q]
    BY <1>0, <1>3 DEF MaskInv
  <2>3. ASSUME NEW q \in Procs
        PROVE  /\ In(q, "jobs")' => Going(writer'[q])
               /\ In(q, "ended")' => Finished(writer'[q])
               /\ ~In(q, "jobs")' /\ ~In(q, "ended")' => writer'[q] = NoWriter
    <3>1. CASE q = p
      BY <1>3, <2>1, <2>2, <3>1 DEF In
    <3>2. CASE q # p
      BY <2>1, <2>2, <3>2 DEF WholeInv, In
    <3> QED
      BY <3>1, <3>2
  <2> QED
    BY <1>0, <2>3 DEF WholeInv
<1>4. CASE Move
  BY <1>1, <1>4 DEF Move
<1>5. ASSUME NEW p \in Procs, KillRun(p) PROVE WholeInv'
  BY <1>1, <1>5 DEF KillRun
<1>6. ASSUME NEW p \in Procs, Step(p) PROVE WholeInv'
  <2>1. CASE Keys(p)
    BY <1>2, <2>1 DEF Keys, In
  <2>2. CASE MakeDir(p)
    BY <1>2, <2>2 DEF MakeDir, In
  <2>3. CASE Unlink(p)
    BY <1>2, <2>3 DEF Unlink, In
  <2>4. CASE Link(p)
    BY <1>2, <2>4 DEF Link, In
  <2>5. CASE StartJob(p)
    <3> DEFINE run == scene.run[p]
    <3>1. PICK secrets \in LongestFirst(run.secrets) :
            writer' = [writer EXCEPT ![p] = Writer(run.output, secrets)]
      BY <2>5 DEF StartJob
    <3>2. Longest(secrets)
      BY <3>1 DEF LongestFirst, Longest
    <3> DEFINE w == Writer(run.output, secrets)
    <3>3. Going(w)
      BY <3>2, NewWriterGoes
    <3>4. Reach(p, "jobs")
      BY <2>5 DEF StartJob
    <3> HIDE DEF w
    <3>5. writer' = [writer EXCEPT ![p] = w]
      BY <3>1 DEF w
    <3> QED
      BY <1>3, <3>3, <3>4, <3>5
  <2>6. CASE Output(p)
    <3>1. PICK n \in 1..Len(writer[p].output) - writer[p].fed :
            \E w \in Written(writer[p], n) : writer' = [writer EXCEPT ![p] = w]
      BY <2>6 DEF Output
    <3>2. PICK w \in Written(writer[p], n) : writer' = [writer EXCEPT ![p] = w]
      BY <3>1
    <3>3. writer[p] \in Writers /\ SafeWriter(writer[p]) /\ Going(writer[p]) /\ stage[p] = "jobs"
      BY <1>0, <2>6 DEF Output, MaskInv, WholeInv, In
    <3>4. Going(w)
      BY <3>2, <3>3, WriteGoes
    <3>5. stage' = stage
      BY <2>6 DEF Output
    <3> QED
      BY <1>3, <3>2, <3>3, <3>4, <3>5
  <2>7. CASE EndJob(p)
    <3>1. PICK w \in Closed(writer[p]) : writer' = [writer EXCEPT ![p] = w]
      BY <2>7 DEF EndJob
    <3>2. writer[p] \in Writers /\ Going(writer[p])
      BY <1>0, <2>7 DEF EndJob, MaskInv, WholeInv, In
    <3>3. Finished(w)
      BY <3>1, <3>2, CloseFinishes
    <3>4. Reach(p, "ended")
      BY <2>7 DEF EndJob
    <3> QED
      BY <1>3, <3>1, <3>3, <3>4
  <2> QED
    BY <1>6, <2>1, <2>2, <2>3, <2>4, <2>5, <2>6, <2>7 DEF Step
<1> QED
  BY <1>1, <1>4, <1>5, <1>6 DEF Next, vars

\* mask.go:48-86: once the job is over, the log shows its output with each secret replaced
\* once and to its last symbol, and nothing else missing, for all outputs, tame secrets and
\* cuts, as long as every write of the log succeeded.
THEOREM OutputMaskedWhole == Spec => []MaskedAsWhole
<1>1. ASSUME WholeInv PROVE MaskedAsWhole
  <2> SUFFICES ASSUME NEW p \in Procs, In(p, "ended"), Tame(writer[p]), ~writer[p].lost
               PROVE  writer[p].shown = Whole(writer[p])
    BY DEF MaskedAsWhole
  <2>1. writer[p] \in Writers /\ Finished(writer[p])
    BY <1>1 DEF WholeInv, MaskInv
  <2> QED
    BY <2>1, FinishedIsWhole
<1> QED
  BY InitWhole, StepWhole, <1>1, PTL DEF Spec
=============================================================================
