--------------------------- MODULE WatchTheorems ---------------------------
(***************************************************************************)
(* What holds of the passes of `latchet watch`, however many run at one    *)
(* time, whatever the remote does between their steps, and wherever they   *)
(* are killed or fail to save.                                             *)
(***************************************************************************)
EXTENDS Watch, FiniteSetTheorems, TLAPS

----------------------------------------------------------------------------
(* The inductive invariant. *)

Commits == Shas \cup {NoSha}
Files == [known : [Refs -> Commits], marked : SUBSET Patterns]
Entry == [branches : Seq(Branches), tags : Seq(Patterns)]
WatchLists == Seq(Entry)
Exits == {"none", "config", "infra", "failed", "ok", "killed"}

Locals ==
  [pc : {"idle", "list", "fire", "write"}, config : WatchLists, entry : Nat \ {0},
   state : Files, loaded : Files, queue : [Refs -> Nat], listed : [Refs -> Commits],
   failed : Nat, tried : SUBSET [ref : Refs, sha : Commits], exit : Exits]

WatchTypes ==
  /\ scene \in Scenes
  /\ remote \in [Refs -> Commits]
  /\ file \in Files \cup {Torn}
  /\ pass \in [Passes -> Locals]
  /\ arrivals \in [Refs -> [Shas -> Nat]] /\ attempts \in [Refs -> [Shas -> Nat]]
  /\ faults \in Nat /\ overlaps \in Nat /\ moves \in Nat

\* The entries whose refs this pass has listed and decided on.
Decided(p) ==
  {i \in DOMAIN pass[p].config :
     i < pass[p].entry \/ (At(p, "fire") /\ i = pass[p].entry)}

Settled(p, r) == \E i \in Decided(p) : Watched(pass[p].config[i], r)

\* What a pass knows beyond the file it loaded comes from the entries it decided.
KnowsDecided(p) ==
  /\ pass[p].config \in scene.lists
  /\ At(p, "fire") => pass[p].entry \in DOMAIN pass[p].config
  /\ pass[p].loaded.marked \subseteq pass[p].state.marked
  /\ \A r \in Refs : ~Settled(p, r) => pass[p].state.known[r] = pass[p].loaded.known[r]
  /\ \A pat \in pass[p].state.marked :
       \/ pat \in pass[p].loaded.marked
       \/ \E i \in Decided(p) : pat \in Range(pass[p].config[i].tags)

\* What is queued and what was fired is the commit the pass now knows.
QueuesChanges(p) ==
  \A r \in Queued(p) :
    /\ At(p, "fire") /\ Settled(p, r) /\ Baselines(p, r)
    /\ pass[p].listed[r] = pass[p].state.known[r]
    /\ pass[p].listed[r] \notin {NoSha, pass[p].loaded.known[r]}

FiredChanges(p) ==
  \A t \in pass[p].tried :
    /\ Settled(p, t.ref) /\ Baselines(p, t.ref)
    /\ t.sha = pass[p].state.known[t.ref]
    /\ t.sha \notin {NoSha, pass[p].loaded.known[t.ref]}

\* A new commit of a ref with a baseline is queued or was fired.
NothingDropped(p) ==
  \A r \in Refs :
    Baselines(p, r) /\ pass[p].state.known[r] # pass[p].loaded.known[r] =>
      r \in Queued(p) \/ \E t \in pass[p].tried : t.ref = r /\ t.sha = pass[p].state.known[r]

AtWork(p) == ~At(p, "idle")

PassInv(p) ==
  AtWork(p) => KnowsDecided(p) /\ QueuesChanges(p) /\ FiredChanges(p) /\ NothingDropped(p)

IInv == WatchTypes /\ \A p \in Passes : PassInv(p)

----------------------------------------------------------------------------
(* The count of the fires still to come. *)

\* A ref is queued once, and not again after its fire.
FiresOnce(p) ==
  /\ \A r \in Refs : pass[p].queue[r] <= 1
  /\ \A t \in pass[p].tried : pass[p].queue[t.ref] = 0

Working == {p \in Passes : AtWork(p)}

\* The passes that may yet fire a commit at a ref ...
Spent(p, r, s) == \E t \in pass[p].tried : t.ref = r /\ t.sha = s
Unspent(r, s) == {p \in Working : ~Spent(p, r, s)}

\* ... one of those that will, unless the remote moves: it has it queued, or
\* would find it new.
Pending(p, r, s) ==
  \/ pass[p].queue[r] > 0 /\ pass[p].listed[r] = s
  \/ remote[r] = s /\ pass[p].state.known[r] # s

Unrecorded(r, s) == remote[r] = s /\ file # Torn /\ file.known[r] # s

Exposed(r, s) == Unrecorded(r, s) \/ \E p \in Unspent(r, s) : Pending(p, r, s)

Exposure(r, s) == IF Exposed(r, s) THEN 1 ELSE 0

\* The fires that what happened so far may still cause: one for each pass that
\* overlaps another, and one for the change itself.
DueOf(unspent, working, exposure) ==
  IF unspent # {} THEN Cardinality(unspent) - 1 + exposure
  ELSE IF working = {} THEN exposure ELSE 0

Due(r, s) == DueOf(Unspent(r, s), Working, Exposure(r, s))

Accounted(r, s) == attempts[r][s] + Due(r, s) <= arrivals[r][s] + faults + overlaps

CountInv ==
  /\ \A p \in Passes : AtWork(p) => FiresOnce(p)
  /\ \A r \in Refs, s \in Shas : Accounted(r, s)

----------------------------------------------------------------------------
(* Entries, and what deciding one gives. *)

LEMMA EntryOf ==
  ASSUME NEW s \in Scenes, NEW c \in s.lists
  PROVE  c \in WatchLists /\ \A i \in DOMAIN c : c[i] \in Entry
<1>1. c \in WatchLists
      BY ScenesAssumption, Zenon DEF WatchLists, Entry
<1>2. \A i \in DOMAIN c : c[i] \in Entry
      BY <1>1 DEF WatchLists
<1> QED
    BY <1>1, <1>2

LEMMA MentionsFinite ==
  ASSUME NEW e \in Entry, NEW state, NEW r
  PROVE  /\ IsFiniteSet(BranchMentions(e, r, state)) /\ IsFiniteSet(TagMentions(e, r, state))
         /\ Cardinality(BranchMentions(e, r, state)) \in Nat
         /\ Cardinality(TagMentions(e, r, state)) \in Nat
         /\ Cardinality(BranchMentions(e, r, state)) = 0 <=> BranchMentions(e, r, state) = {}
         /\ Cardinality(TagMentions(e, r, state)) = 0 <=> TagMentions(e, r, state) = {}
<1>1. /\ DOMAIN e.branches = 1..Len(e.branches) /\ Len(e.branches) \in Nat
      /\ DOMAIN e.tags = 1..Len(e.tags) /\ Len(e.tags) \in Nat
      BY DEF Entry
<1>2. IsFiniteSet(1..Len(e.branches)) /\ IsFiniteSet(1..Len(e.tags))
      BY <1>1, FS_Interval, SMTT(30)
<1>3. IsFiniteSet(BranchMentions(e, r, state)) /\ IsFiniteSet(TagMentions(e, r, state))
      BY <1>1, <1>2, FS_Subset DEF BranchMentions, TagMentions
<1> QED
    BY <1>3, FS_CardinalityType, FS_EmptySet

\* A ref is queued when it moved and some mention with a baseline names it.
LEMMA FiresWhen ==
  ASSUME NEW e \in Entry, NEW refs, NEW state, NEW r \in Refs
  PROVE  /\ Fires(e, refs, state)[r] \in Nat
         /\ Fires(e, refs, state)[r] > 0 <=>
              /\ Moved(r, refs, state)
              /\ \/ r \in Range(e.branches) /\ state.known[r] # NoSha
                 \/ \E pat \in Range(e.tags) : pat \in state.marked /\ r \in Matching[pat]
<1>1. BranchMentions(e, r, state) # {} <=> r \in Range(e.branches) /\ state.known[r] # NoSha
      BY DEF BranchMentions, Range
<1>2. TagMentions(e, r, state) # {} <=>
        \E pat \in Range(e.tags) : pat \in state.marked /\ r \in Matching[pat]
      BY DEF TagMentions, Range, Baselined
<1>3. Fires(e, refs, state)[r] = IF ~Moved(r, refs, state) THEN 0
                                 ELSE Cardinality(BranchMentions(e, r, state))
                                      + Cardinality(TagMentions(e, r, state))
      BY DEF Fires
<1> QED
    BY <1>1, <1>2, <1>3, MentionsFinite

\* At most once, when no two mentions of the entry watch the same ref.
LEMMA FiresAtMostOnce ==
  ASSUME NEW e \in Entry, NEW refs, NEW state, NEW r \in Refs,
         \A i, k \in DOMAIN e.branches : e.branches[i] = e.branches[k] => i = k,
         \A i, k \in DOMAIN e.tags : i # k => Matching[e.tags[i]] \cap Matching[e.tags[k]] = {}
  PROVE  Fires(e, refs, state)[r] <= 1
<1> DEFINE B == BranchMentions(e, r, state)
           T == TagMentions(e, r, state)
<1>1. \A i, k \in B : i = k
      BY DEF BranchMentions
<1>2. \A i, k \in T : i = k
      BY DEF TagMentions
<1>3. B = {} \/ T = {}
      <2>1. ASSUME NEW i \in B, NEW k \in T PROVE FALSE
            <3>1. i \in DOMAIN e.branches /\ e.branches[i] = r /\ e.branches \in Seq(Branches)
                  BY <2>1 DEF BranchMentions, Entry
            <3>2. k \in DOMAIN e.tags /\ r \in Matching[e.tags[k]] /\ e.tags \in Seq(Patterns)
                  BY <2>1 DEF TagMentions, Entry
            <3>3. r \in Branches
                  BY <3>1
            <3>4. e.tags[k] \in Patterns
                  BY <3>2
            <3>5. r \in Tags
                  BY <3>2, <3>4, RefsAssumption
            <3> QED
                BY <3>3, <3>5, RefsAssumption
      <2> QED
          BY <2>1
<1>4. \A S : IsFiniteSet(S) /\ (\A i, k \in S : i = k) => Cardinality(S) <= 1
      <2> SUFFICES ASSUME NEW S, IsFiniteSet(S), \A i, k \in S : i = k
                   PROVE  Cardinality(S) <= 1
          OBVIOUS
      <2>1. CASE S = {}
            BY <2>1, FS_EmptySet
      <2>2. ASSUME NEW x \in S PROVE Cardinality(S) <= 1
            <3>1. S = {x}
                  OBVIOUS
            <3>2. Cardinality(S) = 1
                  BY <3>1, FS_Singleton
            <3> QED
                BY <3>2
      <2> QED
          BY <2>1, <2>2
<1>5. Cardinality(B) <= 1 /\ Cardinality(T) <= 1 /\ (Cardinality(B) = 0 \/ Cardinality(T) = 0)
      BY <1>1, <1>2, <1>3, <1>4, MentionsFinite
<1>6. Cardinality(B) \in Nat /\ Cardinality(T) \in Nat
      BY MentionsFinite
<1> QED
    BY <1>5, <1>6 DEF Fires

LEMMA NextStateGives ==
  ASSUME NEW e \in Entry, NEW refs \in [Refs -> Commits], NEW state \in Files
  PROVE  /\ NextState(e, refs, state) \in Files
         /\ NextState(e, refs, state).marked = state.marked \cup Range(e.tags)
         /\ \A r \in Refs : NextState(e, refs, state).known[r] =
              IF Watched(e, r) /\ refs[r] # NoSha THEN refs[r] ELSE state.known[r]
<1>1. Range(e.tags) \subseteq Patterns
      BY DEF Entry, Range
<1>2. [r \in Refs |-> IF Watched(e, r) /\ refs[r] # NoSha THEN refs[r] ELSE state.known[r]]
        \in [Refs -> Commits]
      BY DEF Files
<1> QED
    BY <1>1, <1>2 DEF NextState, Files

----------------------------------------------------------------------------
(* What each step of a pass changes, and that it keeps the types. *)

\* No pass but p, and nothing that only the remote changes.
Only(p) ==
  /\ \A q \in Passes \ {p} : pass'[q] = pass[q]
  /\ UNCHANGED <<scene, remote, moves, arrivals>>

\* The pass moves on and keeps all it knows.
Advances(p) ==
  /\ pass'[p].config = pass[p].config
  /\ pass'[p].state = pass[p].state /\ pass'[p].loaded = pass[p].loaded
  /\ pass'[p].queue = pass[p].queue /\ pass'[p].listed = pass[p].listed
  /\ pass'[p].tried = pass[p].tried

LEMMA EmptyType == Empty \in Files
BY DEF Empty, Files, Commits

LEMMA IdleType ==
  ASSUME NEW exit \in Exits
  PROVE  Idle(exit) \in Locals
<1>1. [r \in Refs |-> 0] \in [Refs -> Nat] /\ [r \in Refs |-> NoSha] \in [Refs -> Commits]
      BY DEF Commits
<1>2. <<>> \in WatchLists
      BY DEF WatchLists
<1> HIDE DEF Files, WatchLists
<1> QED
    BY <1>1, <1>2, EmptyType DEF Idle, Locals

LEMMA BecomeGives ==
  ASSUME WatchTypes, NEW p \in Passes, NEW new, Become(p, new)
  PROVE  /\ pass'[p] = new /\ \A q \in Passes \ {p} : pass'[q] = pass[q]
         /\ new \in Locals => pass' \in [Passes -> Locals]
BY Zenon DEF WatchTypes, Become

LEMMA StartPassGives ==
  ASSUME WatchTypes, NEW p \in Passes, StartPass(p)
  PROVE  /\ WatchTypes' /\ Only(p) /\ UNCHANGED <<file, attempts, faults>>
         /\ pass[p].pc = "idle"
         /\ overlaps' = overlaps + IF Working # {} THEN 1 ELSE 0
         /\ \/ pass'[p].pc = "idle"
            \/ /\ pass'[p].pc = "list" /\ pass'[p].config \in scene.lists
               /\ pass'[p].entry = 1
               /\ file # Torn /\ file \in Files
               /\ pass'[p].state = file /\ pass'[p].loaded = file
               /\ pass'[p].queue = [r \in Refs |-> 0] /\ pass'[p].tried = {}
<1>1. PICK c \in scene.lists :
        Become(p, IF c = <<>> THEN Idle("config")
                  ELSE IF file = Torn THEN Idle("infra")
                  ELSE [Idle("none") EXCEPT !.pc = "list", !.config = c,
                                            !.state = file, !.loaded = file])
      BY DEF StartPass
<1> DEFINE begun == [Idle("none") EXCEPT !.pc = "list", !.config = c,
                                        !.state = file, !.loaded = file]
<1>2. c \in WatchLists
      BY EntryOf DEF WatchTypes
<1>3. /\ begun.pc = "list" /\ begun.config = c /\ begun.entry = 1
      /\ begun.state = file /\ begun.loaded = file
      /\ begun.queue = [r \in Refs |-> 0] /\ begun.tried = {}
      BY DEF Idle
<1>4. file # Torn => file \in Files /\ begun \in Locals
      <2>1. file # Torn => file \in Files
            BY DEF WatchTypes
      <2>2. Idle("none") \in Locals
            BY IdleType DEF Exits
      <2> HIDE DEF Files, WatchLists
      <2> QED
          BY <2>1, <2>2, <1>2 DEF Locals
<1>5. Idle("config") \in Locals /\ Idle("infra") \in Locals
      BY IdleType DEF Exits
<1>6. Idle("config").pc = "idle" /\ Idle("infra").pc = "idle"
      BY DEF Idle
<1> HIDE DEF begun
<1>7. \E new \in Locals :
        /\ Become(p, new)
        /\ \/ new.pc = "idle"
           \/ file # Torn /\ new = begun
      BY <1>1, <1>4, <1>5, <1>6 DEF begun
<1>8. PICK new \in Locals :
        /\ Become(p, new)
        /\ \/ new.pc = "idle"
           \/ file # Torn /\ new = begun
      BY <1>7
<1>9. /\ pass'[p] = new /\ pass' \in [Passes -> Locals]
      /\ \A q \in Passes \ {p} : pass'[q] = pass[q]
      BY <1>8, BecomeGives
<1>10. overlaps' = overlaps + IF Working # {} THEN 1 ELSE 0
       BY DEF StartPass, Working, AtWork
<1>11. overlaps' \in Nat
       BY <1>10 DEF WatchTypes
<1>12. UNCHANGED <<remote, file, arrivals, attempts, scene, faults, moves>> /\ pass[p].pc = "idle"
       BY DEF StartPass, At
<1>13. WatchTypes' /\ Only(p)
       BY <1>9, <1>11, <1>12 DEF WatchTypes, Only
<1> QED
    BY <1>3, <1>4, <1>8, <1>9, <1>10, <1>12, <1>13

LEMMA ListFailsGives ==
  ASSUME WatchTypes, NEW p \in Passes, ListFails(p)
  PROVE  /\ WatchTypes' /\ Only(p) /\ UNCHANGED <<file, attempts, faults, overlaps>>
         /\ Advances(p) /\ pass[p].pc = "list" /\ pass'[p].pc = "list"
         /\ pass'[p].entry = pass[p].entry + 1
<1> DEFINE new == [pass[p] EXCEPT !.entry = @ + 1]
<1>1. pass[p] \in Locals
      BY DEF WatchTypes
<1>2. new \in Locals /\ new.entry = pass[p].entry + 1 /\ new.pc = pass[p].pc
      BY <1>1 DEF Locals
<1>3. /\ new.config = pass[p].config /\ new.state = pass[p].state /\ new.loaded = pass[p].loaded
      /\ new.queue = pass[p].queue /\ new.listed = pass[p].listed /\ new.tried = pass[p].tried
      BY <1>1 DEF Locals
<1>4. Become(p, new)
      BY DEF ListFails
<1> HIDE DEF new
<1>5. /\ pass'[p] = new /\ pass' \in [Passes -> Locals]
      /\ \A q \in Passes \ {p} : pass'[q] = pass[q]
      BY <1>2, <1>4, BecomeGives
<1>6. UNCHANGED <<remote, file, arrivals, attempts, bounded>> /\ pass[p].pc = "list"
      BY DEF ListFails, Listing, At
<1> QED
    BY <1>2, <1>3, <1>5, <1>6 DEF WatchTypes, Only, Advances, bounded

LEMMA EntryDoneGives ==
  ASSUME WatchTypes, NEW p \in Passes, EntryDone(p)
  PROVE  /\ WatchTypes' /\ Only(p) /\ UNCHANGED <<file, attempts, faults, overlaps>>
         /\ Advances(p) /\ pass[p].pc = "fire" /\ pass'[p].pc = "list"
         /\ pass'[p].entry = pass[p].entry + 1 /\ Queued(p) = {}
<1> DEFINE new == [pass[p] EXCEPT !.pc = "list", !.entry = @ + 1]
<1>1. pass[p] \in Locals
      BY DEF WatchTypes
<1>2. new \in Locals /\ new.entry = pass[p].entry + 1 /\ new.pc = "list"
      <2> HIDE DEF Files, Exits, WatchLists
      <2>1. pass[p].entry + 1 \in Nat \ {0}
            BY <1>1 DEF Locals
      <2>2. new \in Locals
            BY <1>1, <2>1 DEF Locals
      <2> QED
          BY <1>1, <2>2 DEF Locals
<1>3. /\ new.config = pass[p].config /\ new.state = pass[p].state /\ new.loaded = pass[p].loaded
      /\ new.queue = pass[p].queue /\ new.listed = pass[p].listed /\ new.tried = pass[p].tried
      BY <1>1 DEF Locals
<1>4. Become(p, new)
      BY DEF EntryDone
<1> HIDE DEF new
<1>5. /\ pass'[p] = new /\ pass' \in [Passes -> Locals]
      /\ \A q \in Passes \ {p} : pass'[q] = pass[q]
      BY <1>2, <1>4, BecomeGives
<1>6. UNCHANGED <<remote, file, arrivals, attempts, bounded>> /\ pass[p].pc = "fire" /\ Queued(p) = {}
      BY DEF EntryDone, At
<1> QED
    BY <1>2, <1>3, <1>5, <1>6 DEF WatchTypes, Only, Advances, bounded

LEMMA TruncateGives ==
  ASSUME WatchTypes, NEW p \in Passes, Truncate(p)
  PROVE  /\ WatchTypes' /\ Only(p) /\ UNCHANGED <<attempts, faults, overlaps>>
         /\ Advances(p) /\ pass[p].pc = "list" /\ pass'[p].pc = "write"
         /\ pass'[p].entry = pass[p].entry /\ file' = Torn
<1> DEFINE new == [pass[p] EXCEPT !.pc = "write"]
<1>1. pass[p] \in Locals
      BY DEF WatchTypes
<1>2. new \in Locals /\ new.entry = pass[p].entry /\ new.pc = "write"
      BY <1>1 DEF Locals
<1>3. /\ new.config = pass[p].config /\ new.state = pass[p].state /\ new.loaded = pass[p].loaded
      /\ new.queue = pass[p].queue /\ new.listed = pass[p].listed /\ new.tried = pass[p].tried
      BY <1>1 DEF Locals
<1>4. Become(p, new)
      BY DEF Truncate
<1> HIDE DEF new
<1>5. /\ pass'[p] = new /\ pass' \in [Passes -> Locals]
      /\ \A q \in Passes \ {p} : pass'[q] = pass[q]
      BY <1>2, <1>4, BecomeGives
<1>6. /\ UNCHANGED <<remote, arrivals, attempts, bounded>> /\ pass[p].pc = "list"
      /\ file' = Torn
      BY DEF Truncate, At
<1> QED
    BY <1>2, <1>3, <1>5, <1>6 DEF WatchTypes, Only, Advances, bounded

\* A pass that ends, saved or not.
LEMMA WriteGives ==
  ASSUME WatchTypes, NEW p \in Passes, Write(p)
  PROVE  /\ WatchTypes' /\ Only(p) /\ UNCHANGED <<attempts, faults, overlaps>>
         /\ pass[p].pc = "write" /\ pass'[p].pc = "idle" /\ file' \in {pass[p].state, Torn}
<1> DEFINE new == Idle(IF pass[p].failed > 0 THEN "failed" ELSE "ok")
<1>1. pass[p] \in Locals /\ pass[p].state \in Files
      BY DEF WatchTypes, Locals
<1>2. new \in Locals
      BY IdleType DEF Exits
<1>3. new.pc = "idle"
      BY DEF Idle
<1>4. Become(p, new)
      BY DEF Write
<1> HIDE DEF new
<1>5. /\ pass'[p] = new /\ pass' \in [Passes -> Locals]
      /\ \A q \in Passes \ {p} : pass'[q] = pass[q]
      BY <1>2, <1>4, BecomeGives
<1>6. /\ UNCHANGED <<remote, arrivals, attempts, bounded>> /\ pass[p].pc = "write"
      /\ file' \in {pass[p].state, Torn}
      BY DEF Write, Written, At
<1> QED
    BY <1>1, <1>3, <1>5, <1>6 DEF WatchTypes, Only, bounded

LEMMA FaultGives ==
  ASSUME WatchTypes, NEW p \in Passes, SaveFails(p) \/ Killed(p)
  PROVE  /\ WatchTypes' /\ Only(p) /\ UNCHANGED <<file, attempts, overlaps>>
         /\ AtWork(p) /\ pass'[p].pc = "idle" /\ faults' = faults + 1
<1>1. PICK exit \in Exits : Fault(p, exit)
      BY DEF SaveFails, Killed, Exits
<1>2. Idle(exit) \in Locals
      BY IdleType
<1>3. Idle(exit).pc = "idle"
      BY DEF Idle
<1>4. /\ pass'[p] = Idle(exit) /\ pass' \in [Passes -> Locals]
      /\ \A q \in Passes \ {p} : pass'[q] = pass[q]
      BY <1>1, <1>2, BecomeGives DEF Fault
<1>5. AtWork(p)
      BY DEF SaveFails, Killed, AtWork, Saving, At
<1> QED
    BY <1>1, <1>3, <1>4, <1>5 DEF Fault, WatchTypes, Only

LEMMA DecideGives ==
  ASSUME WatchTypes, NEW p \in Passes, Decide(p)
  PROVE  /\ WatchTypes' /\ Only(p) /\ UNCHANGED <<file, attempts, faults, overlaps>>
         /\ pass[p].pc = "list" /\ pass'[p].pc = "fire" /\ pass'[p].entry = pass[p].entry
         /\ pass'[p].config = pass[p].config /\ pass'[p].loaded = pass[p].loaded
         /\ pass'[p].tried = pass[p].tried /\ pass'[p].listed = remote
         /\ pass[p].entry \in DOMAIN pass[p].config
         /\ pass[p].config[pass[p].entry] \in Entry
         /\ pass'[p].queue = Fires(pass[p].config[pass[p].entry], remote, pass[p].state)
         /\ pass'[p].state = NextState(pass[p].config[pass[p].entry], remote, pass[p].state)
<1> DEFINE e == pass[p].config[pass[p].entry]
           queue == Fires(e, remote, pass[p].state)
           state == NextState(e, remote, pass[p].state)
           new == [pass[p] EXCEPT !.pc = "fire", !.listed = remote,
                                  !.queue = queue, !.state = state]
<1>1. /\ pass[p] \in Locals /\ remote \in [Refs -> Commits]
      /\ pass[p].entry \in Nat \ {0} /\ pass[p].state \in Files /\ pass[p].config \in Seq(Entry)
      BY DEF WatchTypes, Locals, WatchLists
<1>2. UNCHANGED <<remote, file, arrivals, attempts, bounded>> /\ pass[p].pc = "list"
      BY DEF Decide, Listing, At
<1>3. pass[p].entry <= Len(pass[p].config)
      BY DEF Decide, Listing
<1>4. pass[p].entry \in DOMAIN pass[p].config /\ e \in Entry
      BY <1>1, <1>3
<1>5. queue \in [Refs -> Nat]
      <2>1. \A r \in Refs : queue[r] \in Nat
            BY <1>4, FiresWhen
      <2> QED
          BY <2>1 DEF Fires
<1>6. state \in Files
      BY <1>1, <1>4, NextStateGives
<1>7. Become(p, new)
      BY DEF Decide
<1> HIDE DEF queue, state, e, Files, Commits, WatchLists, Exits
<1>8. new \in Locals
      BY <1>1, <1>5, <1>6 DEF Locals
<1>9. /\ new.pc = "fire" /\ new.entry = pass[p].entry /\ new.config = pass[p].config
      /\ new.loaded = pass[p].loaded /\ new.tried = pass[p].tried
      /\ new.listed = remote /\ new.queue = queue /\ new.state = state
      BY <1>1 DEF Locals
<1> HIDE DEF new
<1>10. /\ pass'[p] = new /\ pass' \in [Passes -> Locals]
       /\ \A q \in Passes \ {p} : pass'[q] = pass[q]
       BY <1>7, <1>8, BecomeGives
<1>11. WatchTypes' /\ Only(p) /\ UNCHANGED <<file, attempts, faults, overlaps>>
       BY <1>2, <1>10 DEF WatchTypes, Only, bounded
<1> QED
    BY <1>2, <1>4, <1>9, <1>10, <1>11 DEF e, queue, state

LEMMA FireGives ==
  ASSUME WatchTypes, NEW p \in Passes, Fire(p)
  PROVE  /\ WatchTypes' /\ Only(p) /\ UNCHANGED <<file, faults, overlaps>>
         /\ pass[p].pc = "fire" /\ pass'[p].pc = "fire" /\ pass'[p].entry = pass[p].entry
         /\ pass'[p].config = pass[p].config /\ pass'[p].loaded = pass[p].loaded
         /\ pass'[p].state = pass[p].state /\ pass'[p].listed = pass[p].listed
         /\ \E r \in Queued(p) :
              /\ pass'[p].queue = [pass[p].queue EXCEPT ![r] = @ - 1]
              /\ pass'[p].tried = pass[p].tried \cup {[ref |-> r, sha |-> pass[p].listed[r]]}
              /\ attempts' = [attempts EXCEPT ![r][pass[p].listed[r]] = @ + 1]
<1>1. PICK r \in Queued(p), ok \in BOOLEAN :
        /\ Become(p, [pass[p] EXCEPT !.queue[r] = @ - 1, !.failed = Failed(@, ok),
                        !.tried = @ \cup {[ref |-> r, sha |-> pass[p].listed[r]]}])
        /\ attempts' = [attempts EXCEPT ![r][pass[p].listed[r]] = @ + 1]
      BY DEF Fire
<1> DEFINE queue == [pass[p].queue EXCEPT ![r] = @ - 1]
           tried == pass[p].tried \cup {[ref |-> r, sha |-> pass[p].listed[r]]}
           new == [pass[p] EXCEPT !.queue[r] = @ - 1, !.failed = Failed(@, ok),
                     !.tried = @ \cup {[ref |-> r, sha |-> pass[p].listed[r]]}]
<1>2. /\ pass[p] \in Locals /\ r \in Refs /\ pass[p].queue \in [Refs -> Nat]
      /\ pass[p].queue[r] > 0 /\ pass[p].listed \in [Refs -> Commits]
      /\ pass[p].tried \in SUBSET [ref : Refs, sha : Commits] /\ pass[p].failed \in Nat
      BY DEF WatchTypes, Locals, Queued
<1>3. queue \in [Refs -> Nat]
      BY <1>2
<1>4. tried \in SUBSET [ref : Refs, sha : Commits]
      BY <1>2
<1>5. Failed(pass[p].failed, ok) \in Nat
      BY <1>2 DEF Failed
<1>6. attempts' \in [Refs -> [Shas -> Nat]]
      <2>1. attempts \in [Refs -> [Shas -> Nat]]
            BY DEF WatchTypes
      <2>2. \A f \in [Shas -> Nat], s \in Commits : [f EXCEPT ![s] = @ + 1] \in [Shas -> Nat]
            <3> TAKE f \in [Shas -> Nat], s \in Commits
            <3>1. [f EXCEPT ![s] = @ + 1] = [t \in Shas |-> IF t = s THEN f[t] + 1 ELSE f[t]]
                  OBVIOUS
            <3>2. \A t \in Shas : (IF t = s THEN f[t] + 1 ELSE f[t]) \in Nat
                  OBVIOUS
            <3>3. [t \in Shas |-> IF t = s THEN f[t] + 1 ELSE f[t]] \in [Shas -> Nat]
                  BY <3>2
            <3> QED
                BY <3>1, <3>3
      <2>3. attempts' = [attempts EXCEPT ![r] = [attempts[r] EXCEPT ![pass[p].listed[r]] = @ + 1]]
            BY <1>1, <2>1
      <2>4. [attempts[r] EXCEPT ![pass[p].listed[r]] = @ + 1] \in [Shas -> Nat]
            BY <1>2, <2>1, <2>2
      <2> QED
          BY <2>1, <2>3, <2>4
<1>7. UNCHANGED <<remote, file, arrivals, bounded>> /\ pass[p].pc = "fire"
      BY DEF Fire, At
<1>8. new = [pass[p] EXCEPT !.queue = queue, !.failed = Failed(@, ok), !.tried = tried]
      BY <1>2 DEF Locals
<1> HIDE DEF queue, tried, Files, Commits, WatchLists, Exits, Failed
<1>9. new \in Locals
      BY <1>2, <1>3, <1>4, <1>5, <1>8 DEF Locals
<1>10. /\ new.pc = pass[p].pc /\ new.entry = pass[p].entry /\ new.config = pass[p].config
       /\ new.loaded = pass[p].loaded /\ new.state = pass[p].state
       /\ new.listed = pass[p].listed /\ new.queue = queue /\ new.tried = tried
       BY <1>2, <1>8 DEF Locals
<1>11. Become(p, new)
       BY <1>1
<1> HIDE DEF new
<1>12. /\ pass'[p] = new /\ pass' \in [Passes -> Locals]
       /\ \A q \in Passes \ {p} : pass'[q] = pass[q]
       BY <1>9, <1>11, BecomeGives
<1>13. WatchTypes' /\ Only(p) /\ UNCHANGED <<file, faults, overlaps>>
       BY <1>6, <1>7, <1>12 DEF WatchTypes, Only, bounded
<1> QED
    BY <1>1, <1>7, <1>10, <1>12, <1>13 DEF queue, tried

LEMMA PushGives ==
  ASSUME WatchTypes, NEW r \in Refs, NEW s \in Commits, Push(r, s)
  PROVE  /\ WatchTypes' /\ UNCHANGED <<scene, file, pass, attempts, faults, overlaps>>
         /\ remote' = [remote EXCEPT ![r] = s]
         /\ \A q \in Refs, t \in Shas :
              arrivals'[q][t] = arrivals[q][t] + IF q = r /\ t = s THEN 1 ELSE 0
<1>1. /\ UNCHANGED <<scene, file, pass, attempts, faults, overlaps>>
      /\ remote' = [remote EXCEPT ![r] = s] /\ moves' = moves + 1
      BY DEF Push
<1>2. arrivals' = IF s = NoSha THEN arrivals ELSE [arrivals EXCEPT ![r][s] = @ + 1]
      BY DEF Push
<1>3. arrivals \in [Refs -> [Shas -> Nat]]
      BY DEF WatchTypes
<1>4. CASE s = NoSha
      <2>1. \A q \in Refs, t \in Shas : ~(q = r /\ t = s)
            BY <1>4, RefsAssumption
      <2>2. arrivals' = arrivals
            BY <1>2, <1>4
      <2>3. \A q \in Refs, t \in Shas :
              arrivals'[q][t] = arrivals[q][t] + IF q = r /\ t = s THEN 1 ELSE 0
            BY <1>3, <2>1, <2>2
      <2>4. remote' \in [Refs -> Commits] /\ moves' \in Nat
            BY <1>1 DEF WatchTypes
      <2>5. WatchTypes'
            BY <1>1, <1>3, <2>2, <2>4 DEF WatchTypes
      <2> QED
          BY <1>1, <2>3, <2>5
<1>5. CASE s # NoSha
      <2>1. s \in Shas /\ arrivals' = [arrivals EXCEPT ![r] = [arrivals[r] EXCEPT ![s] = @ + 1]]
            BY <1>2, <1>3, <1>5 DEF Commits
      <2>2. [arrivals[r] EXCEPT ![s] = @ + 1] \in [Shas -> Nat]
            BY <1>3, <2>1
      <2>3. arrivals' \in [Refs -> [Shas -> Nat]]
            BY <1>3, <2>1, <2>2
      <2>4. \A q \in Refs, t \in Shas :
              arrivals'[q][t] = arrivals[q][t] + IF q = r /\ t = s THEN 1 ELSE 0
            BY <1>3, <2>1
      <2>5. remote' \in [Refs -> Commits] /\ moves' \in Nat
            BY <1>1 DEF WatchTypes
      <2>6. WatchTypes'
            BY <1>1, <2>3, <2>5 DEF WatchTypes
      <2> QED
          BY <1>1, <2>4, <2>6
<1> QED
    BY <1>4, <1>5

----------------------------------------------------------------------------
(* The pass invariant. *)

\* What a step leaves of a pass it does not touch.
LEMMA UntouchedPass ==
  ASSUME NEW p \in Passes, pass'[p] = pass[p], scene' = scene
  PROVE  /\ AtWork(p)' = AtWork(p) /\ (PassInv(p) => PassInv(p)')
         /\ (FiresOnce(p) => FiresOnce(p)')
<1>1. /\ AtWork(p)' = AtWork(p) /\ Decided(p)' = Decided(p) /\ Queued(p)' = Queued(p)
      /\ \A pc : At(p, pc)' = At(p, pc)
      BY DEF AtWork, At, Decided, Queued
<1>2. \A r \in Refs : Settled(p, r)' = Settled(p, r) /\ Baselines(p, r)' = Baselines(p, r)
      BY <1>1 DEF Settled, Baselines
<1>3. KnowsDecided(p) => KnowsDecided(p)'
      BY <1>1, <1>2 DEF KnowsDecided
<1>4. QueuesChanges(p) => QueuesChanges(p)'
      BY <1>1, <1>2 DEF QueuesChanges, Queued
<1>5. FiredChanges(p) => FiredChanges(p)'
      BY <1>1, <1>2 DEF FiredChanges, Settled, Baselines, Decided, At
<1>6. NothingDropped(p) => NothingDropped(p)'
      BY <1>1, <1>2 DEF NothingDropped
<1>7. FiresOnce(p) => FiresOnce(p)'
      BY DEF FiresOnce
<1> QED
    BY <1>1, <1>3, <1>4, <1>5, <1>6, <1>7 DEF PassInv

\* A pass that moves on with nothing queued.
LEMMA AdvancingPass ==
  ASSUME NEW p \in Passes, scene' = scene, Advances(p), Queued(p) = {},
         AtWork(p), PassInv(p), Decided(p) \subseteq Decided(p)', ~At(p, "fire")'
  PROVE  PassInv(p)'
<1>1. /\ KnowsDecided(p) /\ FiredChanges(p) /\ NothingDropped(p) /\ Queued(p)' = {}
      BY DEF PassInv, Advances, Queued
<1>2. \A r : (Settled(p, r) => Settled(p, r)') /\ Baselines(p, r)' = Baselines(p, r)
      BY DEF Settled, Baselines, Advances
<1>3. KnowsDecided(p)'
      BY <1>1, <1>2 DEF KnowsDecided, Advances
<1>4. QueuesChanges(p)'
      BY <1>1 DEF QueuesChanges
<1>5. FiredChanges(p)'
      BY <1>1, <1>2 DEF FiredChanges, Advances
<1>6. NothingDropped(p)'
      BY <1>1, <1>2 DEF NothingDropped, Advances
<1> QED
    BY <1>3, <1>4, <1>5, <1>6 DEF PassInv

LEMMA StartedPass ==
  ASSUME WatchTypes, NEW p \in Passes, StartPass(p)
  PROVE  PassInv(p)'
<1>1. CASE pass'[p].pc = "idle"
      BY <1>1 DEF PassInv, AtWork, At
<1>2. CASE /\ pass'[p].pc = "list" /\ pass'[p].config \in scene.lists
           /\ pass'[p].entry = 1
           /\ file \in Files /\ pass'[p].state = file /\ pass'[p].loaded = file
           /\ pass'[p].queue = [r \in Refs |-> 0] /\ pass'[p].tried = {}
      <2>1. scene' = scene /\ Queued(p)' = {} /\ ~At(p, "fire")'
            BY <1>2, StartPassGives DEF Only, Queued, At
      <2>2. KnowsDecided(p)'
            BY <1>2, <2>1 DEF KnowsDecided
      <2>3. QueuesChanges(p)' /\ FiredChanges(p)' /\ NothingDropped(p)'
            BY <1>2, <2>1 DEF QueuesChanges, FiredChanges, NothingDropped
      <2> QED
          BY <2>2, <2>3 DEF PassInv
<1> QED
    BY <1>1, <1>2, StartPassGives

\* The entry decided is not among those decided before, so what it watches is
\* as it was loaded.
LEMMA SettledElsewhere ==
  ASSUME EntriesApart, WatchTypes, NEW p \in Passes, KnowsDecided(p), Decide(p),
         NEW r \in Refs, Settled(p, r)
  PROVE  ~Watched(pass[p].config[pass[p].entry], r)
<1>1. /\ scene \in Scenes /\ pass[p].config \in scene.lists
      /\ pass[p].entry \in DOMAIN pass[p].config /\ pass[p].pc = "list"
      /\ DOMAIN pass[p].config \subseteq Nat
      BY DecideGives DEF WatchTypes, Locals, WatchLists, KnowsDecided
<1>2. PICK k \in Decided(p) : Watched(pass[p].config[k], r)
      BY DEF Settled
<1>3. k \in DOMAIN pass[p].config /\ k # pass[p].entry
      BY <1>1 DEF Decided, At
<1> QED
    BY <1>1, <1>2, <1>3 DEF EntriesApart

LEMMA DecidedPass ==
  ASSUME EntriesApart, WatchTypes, NEW p \in Passes, PassInv(p), Decide(p)
  PROVE  PassInv(p)'
<1> DEFINE i == pass[p].entry
           config == pass[p].config
           e == config[i]
           old == pass[p].state
           new == pass'[p].state
           loaded == pass[p].loaded
<1>1. /\ KnowsDecided(p) /\ QueuesChanges(p) /\ FiredChanges(p) /\ NothingDropped(p)
      /\ pass[p].pc = "list" /\ pass'[p].pc = "fire" /\ scene' = scene
      /\ pass'[p].entry = i /\ pass'[p].config = config /\ pass'[p].loaded = loaded
      /\ pass'[p].tried = pass[p].tried /\ pass'[p].listed = remote
      /\ i \in DOMAIN config /\ e \in Entry /\ config \in scene.lists
      /\ pass'[p].queue = Fires(e, remote, old)
      BY DecideGives DEF PassInv, AtWork, At, Only, KnowsDecided
<1>2. /\ remote \in [Refs -> Commits] /\ old \in Files /\ scene \in Scenes
      /\ pass[p].tried \subseteq [ref : Refs, sha : Commits]
      /\ DOMAIN config \subseteq Nat
      BY DEF WatchTypes, Locals, WatchLists
<1>3. /\ new.marked = old.marked \cup Range(e.tags)
      /\ \A r \in Refs : new.known[r] =
           IF Watched(e, r) /\ remote[r] # NoSha THEN remote[r] ELSE old.known[r]
      BY <1>1, <1>2, NextStateGives, DecideGives
<1>4. Decided(p) = {k \in DOMAIN config : k < i} /\ Decided(p)' = Decided(p) \cup {i}
      BY <1>1, <1>2 DEF Decided, At
<1>5. \A r \in Refs : Watched(e, r) => ~Settled(p, r)
      BY <1>1, SettledElsewhere
<1>6. \A r \in Refs : Settled(p, r)' <=> Settled(p, r) \/ Watched(e, r)
      BY <1>1, <1>4 DEF Settled
<1>7. \A r \in Refs : Baselines(p, r)' = Baselines(p, r)
      BY <1>1 DEF Baselines
<1>8. \A r \in Refs : Watched(e, r) => old.known[r] = loaded.known[r]
      BY <1>1, <1>5 DEF KnowsDecided
<1>9. \A pat \in Range(e.tags), r \in Refs :
        pat \in old.marked /\ r \in Matching[pat] => pat \in loaded.marked
      <2> SUFFICES ASSUME NEW pat \in Range(e.tags), NEW r \in Refs, pat \in old.marked,
                          r \in Matching[pat], pat \notin loaded.marked
                   PROVE  FALSE
          OBVIOUS
      <2>1. Watched(e, r)
            BY DEF Watched
      <2>2. PICK k \in Decided(p) : pat \in Range(config[k].tags)
            BY <1>1 DEF KnowsDecided
      <2>3. Settled(p, r)
            BY <2>2 DEF Settled, Watched
      <2> QED
          BY <2>1, <2>3, <1>5
<1>10. \A r \in Refs : r \in Queued(p)' <=>
         /\ Moved(r, remote, old)
         /\ \/ r \in Range(e.branches) /\ old.known[r] # NoSha
            \/ \E pat \in Range(e.tags) : pat \in old.marked /\ r \in Matching[pat]
       BY <1>1, FiresWhen DEF Queued
<1> HIDE DEF config, e, old, new, loaded, i
<1>11. KnowsDecided(p)'
       <2>1. \A r \in Refs : ~Settled(p, r)' => new.known[r] = loaded.known[r]
             BY <1>1, <1>3, <1>6 DEF KnowsDecided, old, loaded
       <2>2. loaded.marked \subseteq new.marked
             BY <1>1, <1>3 DEF KnowsDecided, old, loaded
       <2>3. \A pat \in new.marked :
               pat \in loaded.marked \/ \E k \in Decided(p)' : pat \in Range(config[k].tags)
             BY <1>1, <1>3, <1>4 DEF KnowsDecided, old, loaded, config, e
       <2> QED
           BY <1>1, <2>1, <2>2, <2>3 DEF KnowsDecided, new, loaded, config
<1>12. QueuesChanges(p)'
       <2> SUFFICES ASSUME NEW r \in Queued(p)'
                    PROVE  /\ At(p, "fire")' /\ Settled(p, r)' /\ Baselines(p, r)
                           /\ remote[r] = new.known[r]
                           /\ remote[r] \notin {NoSha, loaded.known[r]}
           BY <1>1, <1>7 DEF QueuesChanges, new, loaded, Queued
       <2>1. r \in Refs
             BY DEF Queued
       <2>2. Watched(e, r)
             BY <2>1, <1>10 DEF Watched
       <2>3. remote[r] \notin {NoSha, loaded.known[r]} /\ remote[r] = new.known[r]
             BY <2>1, <2>2, <1>3, <1>8, <1>10 DEF Moved
       <2>4. Baselines(p, r)
             BY <2>1, <2>2, <1>1, <1>8, <1>9, <1>10 DEF Baselines, loaded, e, config
       <2> QED
           BY <2>1, <2>2, <2>3, <2>4, <1>1, <1>6 DEF At
<1>13. FiredChanges(p)'
       <2> SUFFICES ASSUME NEW t \in pass[p].tried
                    PROVE  /\ Settled(p, t.ref)' /\ Baselines(p, t.ref)
                           /\ t.sha = new.known[t.ref]
                           /\ t.sha \notin {NoSha, loaded.known[t.ref]}
           BY <1>1, <1>2, <1>7 DEF FiredChanges, new, loaded
       <2>1. t.ref \in Refs
             BY <1>2
       <2>2. /\ Settled(p, t.ref) /\ Baselines(p, t.ref) /\ t.sha = old.known[t.ref]
             /\ t.sha \notin {NoSha, loaded.known[t.ref]}
             BY <1>1 DEF FiredChanges, old, loaded
       <2>3. ~Watched(e, t.ref)
             BY <2>1, <2>2, <1>5
       <2> QED
           BY <2>1, <2>2, <2>3, <1>3, <1>6
<1>14. NothingDropped(p)'
       <2> SUFFICES ASSUME NEW r \in Refs, Baselines(p, r), new.known[r] # loaded.known[r]
                    PROVE  \/ r \in Queued(p)'
                           \/ \E t \in pass[p].tried : t.ref = r /\ t.sha = new.known[r]
           BY <1>1, <1>7 DEF NothingDropped, new, loaded
       <2>1. CASE ~Watched(e, r)
             <3>1. new.known[r] = old.known[r]
                   BY <2>1, <1>3
             <3>2. r \notin Queued(p)
                   BY <1>1 DEF QueuesChanges, At
             <3> QED
                 BY <3>1, <3>2, <1>1 DEF NothingDropped, old, loaded
       <2>2. CASE Watched(e, r)
             <3>1. old.known[r] = loaded.known[r] /\ Moved(r, remote, old)
                   BY <2>2, <1>3, <1>8 DEF Moved
             <3>2. PICK k \in DOMAIN config :
                     \/ r \in Range(config[k].branches) /\ loaded.known[r] # NoSha
                     \/ \E pat \in Range(config[k].tags) :
                          pat \in loaded.marked /\ r \in Matching[pat]
                   BY DEF Baselines, config, loaded
             <3>3. Watched(config[k], r)
                   BY <3>2 DEF Watched
             <3>4. k = i
                   BY <2>2, <3>3, <1>1, <1>2 DEF EntriesApart, e
             <3>5. loaded.marked \subseteq old.marked
                   BY <1>1 DEF KnowsDecided, loaded, old
             <3> QED
                 BY <3>1, <3>2, <3>4, <3>5, <1>10 DEF e
       <2> QED
           BY <2>1, <2>2
<1> QED
    BY <1>11, <1>12, <1>13, <1>14 DEF PassInv

LEMMA FiringPass ==
  ASSUME WatchTypes, NEW p \in Passes, PassInv(p), Fire(p)
  PROVE  PassInv(p)'
<1>1. /\ KnowsDecided(p) /\ QueuesChanges(p) /\ FiredChanges(p) /\ NothingDropped(p)
      /\ pass[p].pc = "fire" /\ pass'[p].pc = "fire" /\ scene' = scene
      /\ pass'[p].entry = pass[p].entry /\ pass'[p].config = pass[p].config
      /\ pass'[p].loaded = pass[p].loaded /\ pass'[p].state = pass[p].state
      /\ pass'[p].listed = pass[p].listed
      BY FireGives DEF PassInv, AtWork, At, Only
<1>2. PICK r \in Queued(p) :
        /\ pass'[p].queue = [pass[p].queue EXCEPT ![r] = @ - 1]
        /\ pass'[p].tried = pass[p].tried \cup {[ref |-> r, sha |-> pass[p].listed[r]]}
      BY FireGives
<1>3. pass[p].queue \in [Refs -> Nat] /\ r \in Refs
      BY DEF WatchTypes, Locals, Queued
<1>4. Decided(p)' = Decided(p) /\ \A q : Settled(p, q)' = Settled(p, q)
      BY <1>1 DEF Decided, At, Settled
<1>5. \A q : Baselines(p, q)' = Baselines(p, q)
      BY <1>1 DEF Baselines
<1>6. Queued(p)' \subseteq Queued(p) /\ Queued(p) \subseteq Queued(p)' \cup {r}
      BY <1>2, <1>3 DEF Queued
<1>7. KnowsDecided(p)'
      BY <1>1, <1>4 DEF KnowsDecided, At
<1>8. QueuesChanges(p)'
      BY <1>1, <1>4, <1>5, <1>6, SMTT(30) DEF QueuesChanges, At
<1>9. FiredChanges(p)'
      <2>1. /\ Settled(p, r) /\ Baselines(p, r) /\ pass[p].listed[r] = pass[p].state.known[r]
            /\ pass[p].listed[r] \notin {NoSha, pass[p].loaded.known[r]}
            BY <1>1 DEF QueuesChanges
      <2> QED
          BY <2>1, <1>1, <1>2, <1>4, <1>5 DEF FiredChanges
<1>10. NothingDropped(p)'
       <2>1. pass[p].listed[r] = pass[p].state.known[r]
             BY <1>1 DEF QueuesChanges
       <2> SUFFICES ASSUME NEW q \in Refs, Baselines(p, q),
                           pass[p].state.known[q] # pass[p].loaded.known[q]
                    PROVE  \/ q \in Queued(p)'
                           \/ \E t \in pass'[p].tried :
                                t.ref = q /\ t.sha = pass[p].state.known[q]
           BY <1>1, <1>5 DEF NothingDropped
       <2>2. CASE q = r
             <3>1. [ref |-> r, sha |-> pass[p].listed[r]] \in pass'[p].tried
                   BY <1>2
             <3> QED
                 BY <2>1, <2>2, <3>1
       <2>3. CASE q # r
             <3>1. \/ q \in Queued(p)
                   \/ \E t \in pass[p].tried : t.ref = q /\ t.sha = pass[p].state.known[q]
                   BY <1>1 DEF NothingDropped
             <3>2. pass[p].tried \subseteq pass'[p].tried
                   BY <1>2
             <3> QED
                 BY <2>3, <3>1, <3>2, <1>6
       <2> QED
           BY <2>2, <2>3
<1> QED
    BY <1>7, <1>8, <1>9, <1>10 DEF PassInv

\* An entry that is passed over, done or saved.
LEMMA NextEntryPass ==
  ASSUME WatchTypes, NEW p \in Passes, PassInv(p),
         ListFails(p) \/ EntryDone(p) \/ Truncate(p)
  PROVE  PassInv(p)'
<1>1. pass[p].entry \in Nat /\ DOMAIN pass[p].config \subseteq Nat
      BY DEF WatchTypes, Locals, WatchLists
<1>2. /\ scene' = scene /\ Advances(p) /\ AtWork(p) /\ ~At(p, "fire")'
      /\ \/ At(p, "list") /\ pass'[p].entry = pass[p].entry + 1
         \/ Queued(p) = {} /\ At(p, "fire") /\ pass'[p].entry = pass[p].entry + 1
         \/ At(p, "list") /\ pass'[p].entry = pass[p].entry
      BY ListFailsGives, EntryDoneGives, TruncateGives DEF Only, AtWork, At
<1>3. Queued(p) = {}
      BY <1>2 DEF PassInv, QueuesChanges, At
<1>4. Decided(p) \subseteq Decided(p)'
      BY <1>1, <1>2 DEF Decided, Advances, At
<1> QED
    BY <1>2, <1>3, <1>4, AdvancingPass

LEMMA InitIInv == Init => IInv
<1> SUFFICES ASSUME Init PROVE IInv
    OBVIOUS
<1>1. Idle("none") \in Locals
      BY IdleType DEF Exits
<1>2. /\ scene \in Scenes /\ file \in Files /\ pass \in [Passes -> Locals]
      /\ faults \in Nat /\ overlaps \in Nat /\ moves \in Nat
      BY <1>1, EmptyType DEF Init
<1>3. remote \in [Refs -> Commits]
      BY <1>2, ScenesAssumption, Zenon DEF Init, Commits
<1>4. arrivals \in [Refs -> [Shas -> Nat]] /\ attempts \in [Refs -> [Shas -> Nat]]
      BY DEF Init
<1>5. \A p \in Passes : PassInv(p)
      BY DEF Init, PassInv, AtWork, At, Idle
<1> QED
    BY <1>2, <1>3, <1>4, <1>5 DEF IInv, WatchTypes

LEMMA NextIInv == EntriesApart /\ IInv /\ [Next]_vars => IInv'
<1> SUFFICES ASSUME EntriesApart, IInv, [Next]_vars
             PROVE  IInv'
    OBVIOUS
<1>1. WatchTypes /\ \A p \in Passes : PassInv(p)
      BY DEF IInv
<1>2. ASSUME NEW p \in Passes, Step(p) \/ SaveFails(p) \/ Killed(p)
      PROVE  IInv'
      <2>1. WatchTypes' /\ Only(p)
            BY <1>1, <1>2, StartPassGives, ListFailsGives, DecideGives, FireGives,
               EntryDoneGives, TruncateGives, WriteGives, FaultGives DEF Step
      <2>2. \A q \in Passes \ {p} : PassInv(q)'
            BY <1>1, <2>1, UntouchedPass DEF Only
      <2>3. Write(p) \/ SaveFails(p) \/ Killed(p) => PassInv(p)'
            BY <1>1, WriteGives, FaultGives DEF PassInv, AtWork, At
      <2>4. PassInv(p)'
            BY <1>1, <1>2, <2>3, StartedPass, DecidedPass, FiringPass, NextEntryPass DEF Step
      <2> QED
          BY <2>1, <2>2, <2>4 DEF IInv
<1>3. ASSUME NEW r \in Refs, NEW s \in Shas \cup {NoSha}, Push(r, s)
      PROVE  IInv'
      <2>1. WatchTypes' /\ pass' = pass /\ scene' = scene
            BY <1>1, <1>3, PushGives DEF Commits
      <2> QED
          BY <1>1, <2>1, UntouchedPass DEF IInv
<1>4. CASE UNCHANGED vars
      <2>1. WatchTypes' /\ pass' = pass /\ scene' = scene
            BY <1>1, <1>4 DEF vars, bounded, WatchTypes
      <2> QED
          BY <1>1, <2>1, UntouchedPass DEF IInv
<1> QED
    BY <1>2, <1>3, <1>4 DEF Next

LEMMA Inductive ==
  ASSUME EntriesApart
  PROVE  Spec => []IInv
<1>1. IInv /\ [Next]_vars => IInv'
      BY NextIInv
<1> QED
    BY InitIInv, <1>1, PTL DEF Spec

----------------------------------------------------------------------------
(* The count of fires. *)

LEMMA WorkingFinite ==
  ASSUME NEW r, NEW s
  PROVE  IsFiniteSet(Unspent(r, s)) /\ Unspent(r, s) \subseteq Working
<1>1. Unspent(r, s) \subseteq Passes /\ Unspent(r, s) \subseteq Working
      BY DEF Unspent, Working
<1> QED
    BY <1>1, RefsAssumption, FS_Subset

\* How the fires due change when passes begin, fire and end.
LEMMA DueLess ==
  ASSUME NEW U, IsFiniteSet(U), NEW W, NEW V, W = {} <=> V = {},
         NEW e \in {0, 1}, NEW f \in {0, 1}, f <= e
  PROVE  DueOf(U, V, f) \in Nat /\ DueOf(U, W, e) \in Nat /\ DueOf(U, V, f) <= DueOf(U, W, e)
<1>1. Cardinality(U) \in Nat /\ (U # {} => Cardinality(U) # 0)
      BY FS_CardinalityType, FS_EmptySet
<1> QED
    BY <1>1 DEF DueOf

LEMMA DueOnStart ==
  ASSUME NEW U, IsFiniteSet(U), NEW W, U \subseteq W, NEW p, p \notin U,
         NEW e \in {0, 1}, NEW f \in {0, 1}, f <= e
  PROVE  /\ DueOf(U \cup {p}, W \cup {p}, f) \in Nat /\ DueOf(U, W, e) \in Nat
         /\ DueOf(U \cup {p}, W \cup {p}, f) <= DueOf(U, W, e) + IF W # {} THEN 1 ELSE 0
<1>1. Cardinality(U) \in Nat /\ (U # {} => Cardinality(U) # 0) /\ Cardinality({}) = 0
      BY FS_CardinalityType, FS_EmptySet
<1>2. Cardinality(U \cup {p}) = Cardinality(U) + 1
      BY FS_AddElement
<1>3. DueOf(U \cup {p}, W \cup {p}, f) = Cardinality(U) + f
      BY <1>1, <1>2 DEF DueOf
<1>4. CASE U = {}
      BY <1>1, <1>3, <1>4 DEF DueOf
<1>5. CASE U # {}
      <2>1. W # {}
            BY <1>5
      <2> QED
          BY <1>1, <1>3, <1>5, <2>1 DEF DueOf
<1> QED
    BY <1>4, <1>5

LEMMA DueOnFire ==
  ASSUME NEW U, IsFiniteSet(U), NEW W, NEW V, NEW p \in U, V # {}, NEW f \in {0, 1}
  PROVE  /\ DueOf(U \ {p}, V, f) \in Nat /\ DueOf(U, W, 1) \in Nat
         /\ DueOf(U \ {p}, V, f) + 1 <= DueOf(U, W, 1)
<1>1. Cardinality(U) \in Nat /\ Cardinality(U) # 0
      BY FS_CardinalityType, FS_EmptySet
<1>2. Cardinality(U \ {p}) = Cardinality(U) - 1
      BY FS_RemoveElement
<1>3. U \ {p} # {} => Cardinality(U \ {p}) # 0
      BY FS_RemoveElement, FS_EmptySet
<1> QED
    BY <1>1, <1>2, <1>3 DEF DueOf

LEMMA DueOnEnd ==
  ASSUME NEW U, IsFiniteSet(U), NEW W, U \subseteq W, NEW p \in W,
         NEW e \in {0, 1}, NEW f \in {0, 1}, f <= e
  PROVE  /\ DueOf(U \ {p}, W \ {p}, f) \in Nat /\ DueOf(U, W, e) \in Nat
         /\ DueOf(U \ {p}, W \ {p}, f) <= DueOf(U, W, e) + 1
         /\ U # {} \/ f = 0 => DueOf(U \ {p}, W \ {p}, f) <= DueOf(U, W, e)
<1>1. Cardinality(U) \in Nat /\ (U # {} => Cardinality(U) # 0)
      BY FS_CardinalityType, FS_EmptySet
<1>2. Cardinality(U \ {p}) = IF p \in U THEN Cardinality(U) - 1 ELSE Cardinality(U)
      BY FS_RemoveElement
<1>3. U \ {p} # {} => Cardinality(U \ {p}) # 0
      BY FS_RemoveElement, FS_EmptySet
<1>4. CASE U = {}
      <2>1. U \ {p} = {}
            BY <1>4
      <2> QED
          BY <1>4, <2>1 DEF DueOf
<1>5. CASE U # {} /\ U \ {p} = {}
      <2>1. p \in U /\ Cardinality(U) = 1 + Cardinality(U \ {p}) /\ Cardinality(U \ {p}) = 0
            BY <1>1, <1>2, <1>5, FS_EmptySet
      <2> QED
          BY <1>5, <2>1 DEF DueOf
<1>6. CASE U # {} /\ U \ {p} # {}
      BY <1>1, <1>2, <1>3, <1>6 DEF DueOf
<1> QED
    BY <1>4, <1>5, <1>6

LEMMA ExposureType ==
  ASSUME NEW r, NEW s
  PROVE  /\ Exposure(r, s) \in {0, 1} /\ Exposure(r, s)' \in {0, 1}
         /\ (Exposed(r, s)' => Exposed(r, s)) => Exposure(r, s)' <= Exposure(r, s)
BY DEF Exposure

\* What a step of p leaves of the count.
LEMMA OthersCount ==
  ASSUME NEW p \in Passes, Only(p), NEW r, NEW s
  PROVE  /\ Working' \ {p} = Working \ {p} /\ Unspent(r, s)' \ {p} = Unspent(r, s) \ {p}
         /\ \A q \in Passes \ {p} : Pending(q, r, s)' = Pending(q, r, s)
<1>1. \A q \in Passes \ {p} : pass'[q] = pass[q] /\ AtWork(q)' = AtWork(q)
      BY DEF Only, AtWork, At
<1>2. Working' \ {p} = Working \ {p}
      BY <1>1 DEF Working
<1>3. Unspent(r, s)' \ {p} = Unspent(r, s) \ {p}
      <2>1. \A q \in Passes \ {p} : q \in Unspent(r, s)' <=> q \in Unspent(r, s)
            BY <1>1 DEF Unspent, Working, Spent
      <2>2. Unspent(r, s)' \subseteq Passes /\ Unspent(r, s) \subseteq Passes
            BY DEF Unspent, Working
      <2> QED
          BY <2>1, <2>2
<1>4. \A q \in Passes \ {p} : Pending(q, r, s)' = Pending(q, r, s)
      BY <1>1 DEF Pending, Only
<1> QED
    BY <1>2, <1>3, <1>4

\* A step of a pass at work that fires nothing, and after which it expects no
\* fire it did not expect before.
LEMMA QuietStep ==
  ASSUME WatchTypes, WatchTypes', NEW p \in Passes, Only(p), AtWork(p), AtWork(p)',
         UNCHANGED <<faults, overlaps>>, NEW r \in Refs, NEW s \in Shas, Accounted(r, s),
         attempts'[r][s] = attempts[r][s], Spent(p, r, s)' <=> Spent(p, r, s),
         Pending(p, r, s)' => Pending(p, r, s), Unrecorded(r, s)' => Unrecorded(r, s)
  PROVE  Accounted(r, s)'
<1>1. Unspent(r, s)' = Unspent(r, s) /\ Working # {} /\ Working' # {}
      <2>1. p \in Working /\ p \in Working'
            BY DEF Working
      <2>2. p \in Unspent(r, s)' <=> p \in Unspent(r, s)
            BY <2>1 DEF Unspent
      <2> QED
          BY <2>1, <2>2, OthersCount
<1>2. Exposed(r, s)' => Exposed(r, s)
      <2>1. \A q \in Unspent(r, s) : Pending(q, r, s)' => Pending(q, r, s)
            BY OthersCount DEF Unspent, Working
      <2> QED
          BY <1>1, <2>1 DEF Exposed
<1>3. Exposure(r, s)' <= Exposure(r, s) /\ Exposure(r, s) \in {0, 1} /\ Exposure(r, s)' \in {0, 1}
      BY <1>2, ExposureType
<1>4. Due(r, s)' \in Nat /\ Due(r, s) \in Nat /\ Due(r, s)' <= Due(r, s)
      BY <1>1, <1>3, DueLess, WorkingFinite DEF Due
<1>5. /\ attempts[r][s] \in Nat /\ arrivals[r][s] \in Nat /\ faults \in Nat /\ overlaps \in Nat
      /\ arrivals' = arrivals
      BY DEF WatchTypes, Only
<1> QED
    BY <1>4, <1>5 DEF Accounted

LEMMA NextEntryCounted ==
  ASSUME WatchTypes, NEW p \in Passes, ListFails(p) \/ EntryDone(p) \/ Truncate(p),
         NEW r \in Refs, NEW s \in Shas, Accounted(r, s)
  PROVE  Accounted(r, s)'
<1>1. /\ WatchTypes' /\ Only(p) /\ AtWork(p) /\ AtWork(p)' /\ Advances(p)
      /\ UNCHANGED <<attempts, faults, overlaps>> /\ file' \in {file, Torn}
      BY ListFailsGives, EntryDoneGives, TruncateGives DEF AtWork, At
<1>2. (Spent(p, r, s)' <=> Spent(p, r, s)) /\ (Pending(p, r, s)' <=> Pending(p, r, s))
      BY <1>1 DEF Spent, Pending, Advances, Only
<1>3. Unrecorded(r, s)' => Unrecorded(r, s)
      BY <1>1 DEF Unrecorded, Only
<1> QED
    BY <1>1, <1>2, <1>3, QuietStep

\* What the entry finds new was not recorded before.
LEMMA DecideCounted ==
  ASSUME WatchTypes, NEW p \in Passes, Decide(p),
         NEW r \in Refs, NEW s \in Shas, Accounted(r, s)
  PROVE  Accounted(r, s)'
<1> DEFINE e == pass[p].config[pass[p].entry]
<1>1. /\ WatchTypes' /\ Only(p) /\ AtWork(p) /\ AtWork(p)'
      /\ UNCHANGED <<file, attempts, faults, overlaps>>
      /\ pass'[p].tried = pass[p].tried /\ pass'[p].listed = remote /\ e \in Entry
      /\ pass'[p].queue = Fires(e, remote, pass[p].state)
      /\ pass'[p].state = NextState(e, remote, pass[p].state)
      BY DecideGives DEF AtWork, At
<1>2. remote \in [Refs -> Commits] /\ pass[p].state \in Files
      BY DEF WatchTypes, Locals
<1>3. pass'[p].queue[r] > 0 => Moved(r, remote, pass[p].state)
      BY <1>1, FiresWhen
<1>4. pass'[p].state.known[r] =
        IF Watched(e, r) /\ remote[r] # NoSha THEN remote[r] ELSE pass[p].state.known[r]
      BY <1>1, <1>2, NextStateGives
<1>5. Pending(p, r, s)' => Pending(p, r, s)
      <2>1. CASE pass'[p].queue[r] > 0 /\ remote[r] = s
            BY <2>1, <1>3 DEF Pending, Moved
      <2>2. CASE remote[r] = s /\ pass'[p].state.known[r] # s
            BY <2>2, <1>4 DEF Pending
      <2> QED
          BY <2>1, <2>2, <1>1 DEF Pending, Only
<1>6. (Spent(p, r, s)' <=> Spent(p, r, s)) /\ (Unrecorded(r, s)' => Unrecorded(r, s))
      BY <1>1 DEF Spent, Unrecorded, Only
<1> QED
    BY <1>1, <1>5, <1>6, QuietStep

\* A fire is paid for by the pass, which fires this commit no more.
LEMMA FireCounted ==
  ASSUME WatchTypes, NEW p \in Passes, Fire(p), FiresOnce(p),
         NEW r \in Refs, NEW s \in Shas, Accounted(r, s)
  PROVE  Accounted(r, s)'
<1>1. /\ WatchTypes' /\ Only(p) /\ AtWork(p) /\ AtWork(p)'
      /\ UNCHANGED <<file, faults, overlaps>>
      /\ pass'[p].state = pass[p].state /\ pass'[p].listed = pass[p].listed
      BY FireGives DEF AtWork, At
<1>2. PICK q \in Queued(p) :
        /\ pass'[p].queue = [pass[p].queue EXCEPT ![q] = @ - 1]
        /\ pass'[p].tried = pass[p].tried \cup {[ref |-> q, sha |-> pass[p].listed[q]]}
        /\ attempts' = [attempts EXCEPT ![q][pass[p].listed[q]] = @ + 1]
      BY FireGives
<1>3. /\ pass[p].queue \in [Refs -> Nat] /\ q \in Refs /\ pass[p].queue[q] > 0
      /\ attempts \in [Refs -> [Shas -> Nat]]
      BY DEF WatchTypes, Locals, Queued
<1>4. Unrecorded(r, s)' => Unrecorded(r, s)
      BY <1>1 DEF Unrecorded, Only
<1>5. CASE ~(q = r /\ pass[p].listed[q] = s)
      <2>1. attempts'[r][s] = attempts[r][s]
            BY <1>2, <1>3, <1>5
      <2>2. Spent(p, r, s)' <=> Spent(p, r, s)
            BY <1>2, <1>5 DEF Spent
      <2>3. Pending(p, r, s)' => Pending(p, r, s)
            <3>1. pass'[p].queue[r] > 0 => pass[p].queue[r] > 0
                  BY <1>2, <1>3
            <3> QED
                BY <3>1, <1>1 DEF Pending, Only
      <2> QED
          BY <2>1, <2>2, <2>3, <1>1, <1>4, QuietStep
<1>6. CASE q = r /\ pass[p].listed[q] = s
      <2>1. attempts'[r][s] = attempts[r][s] + 1
            BY <1>2, <1>3, <1>6
      <2>2. Spent(p, r, s)' /\ ~Spent(p, r, s)
            <3>1. [ref |-> r, sha |-> s] \in pass'[p].tried
                  BY <1>2, <1>6
            <3>2. \A t \in pass[p].tried : t.ref # r
                  BY <1>3, <1>6 DEF FiresOnce
            <3> QED
                BY <3>1, <3>2 DEF Spent
      <2>3. p \in Unspent(r, s) /\ p \in Working' /\ Unspent(r, s)' = Unspent(r, s) \ {p}
            <3>1. p \in Unspent(r, s) /\ p \in Working' /\ p \notin Unspent(r, s)'
                  BY <2>2, <1>1 DEF Unspent, Working
            <3> QED
                BY <3>1, <1>1, OthersCount
      <2>4. Exposure(r, s) = 1 /\ Exposure(r, s)' \in {0, 1}
            <3>1. Pending(p, r, s)
                  BY <1>3, <1>6 DEF Pending
            <3> QED
                BY <3>1, <2>3 DEF Exposure, Exposed
      <2>5. Due(r, s)' \in Nat /\ Due(r, s) \in Nat /\ Due(r, s)' + 1 <= Due(r, s)
            <3>1. Working' # {}
                  BY <2>3
            <3> QED
                BY <3>1, <2>3, <2>4, DueOnFire, WorkingFinite DEF Due
      <2>6. /\ attempts[r][s] \in Nat /\ arrivals[r][s] \in Nat /\ faults \in Nat
            /\ overlaps \in Nat /\ arrivals' = arrivals
            BY <1>1 DEF WatchTypes, Only
      <2> QED
          BY <2>1, <2>5, <2>6, <1>1 DEF Accounted
<1> QED
    BY <1>5, <1>6

\* A pass that begins expects what the file it loads lacks.
LEMMA StartCounted ==
  ASSUME WatchTypes, NEW p \in Passes, StartPass(p),
         NEW r \in Refs, NEW s \in Shas, Accounted(r, s)
  PROVE  Accounted(r, s)'
<1>1. /\ WatchTypes' /\ Only(p) /\ ~AtWork(p)
      /\ UNCHANGED <<file, attempts, faults>>
      /\ overlaps' = overlaps + IF Working # {} THEN 1 ELSE 0
      BY StartPassGives DEF AtWork, At
<1>2. p \notin Working /\ p \notin Unspent(r, s)
      BY <1>1 DEF Working, Unspent
<1>3. Unrecorded(r, s)' <=> Unrecorded(r, s)
      BY <1>1 DEF Unrecorded, Only
<1>4. \A q \in Unspent(r, s) : Pending(q, r, s)' => Pending(q, r, s)
      BY <1>1, <1>2, OthersCount DEF Unspent, Working
<1>5. /\ attempts[r][s] \in Nat /\ arrivals[r][s] \in Nat /\ faults \in Nat
      /\ overlaps \in Nat /\ arrivals' = arrivals
      BY <1>1 DEF WatchTypes, Only
<1>6. CASE pass'[p].pc = "idle"
      <2>1. Working' = Working /\ Unspent(r, s)' = Unspent(r, s)
            <3>1. p \notin Working' /\ p \notin Unspent(r, s)'
                  BY <1>6 DEF Working, Unspent, AtWork, At
            <3> QED
                BY <3>1, <1>1, <1>2, OthersCount
      <2>2. Exposed(r, s)' => Exposed(r, s)
            BY <2>1, <1>3, <1>4 DEF Exposed
      <2>3. Due(r, s)' \in Nat /\ Due(r, s) \in Nat /\ Due(r, s)' <= Due(r, s)
            BY <2>1, <2>2, ExposureType, DueLess, WorkingFinite DEF Due
      <2> QED
          BY <2>3, <1>1, <1>5 DEF Accounted
<1>7. CASE pass'[p].pc = "list" /\ pass'[p].state = file /\ file \in Files
           /\ pass'[p].queue = [q \in Refs |-> 0] /\ pass'[p].tried = {} /\ file # Torn
      <2>1. Working' = Working \cup {p} /\ Unspent(r, s)' = Unspent(r, s) \cup {p}
            <3>1. p \in Working' /\ p \in Unspent(r, s)'
                  BY <1>7 DEF Working, Unspent, AtWork, At, Spent
            <3> QED
                BY <3>1, <1>1, <1>2, OthersCount
      <2>2. Pending(p, r, s)' => Unrecorded(r, s)
            BY <1>1, <1>7 DEF Pending, Unrecorded, Only
      <2>3. Exposed(r, s)' => Exposed(r, s)
            BY <2>1, <2>2, <1>3, <1>4 DEF Exposed
      <2>4. /\ Due(r, s)' \in Nat /\ Due(r, s) \in Nat
            /\ Due(r, s)' <= Due(r, s) + IF Working # {} THEN 1 ELSE 0
            <3>1. /\ Exposure(r, s) \in {0, 1} /\ Exposure(r, s)' \in {0, 1}
                  /\ Exposure(r, s)' <= Exposure(r, s)
                  BY <2>3, ExposureType
            <3> QED
                BY <3>1, <2>1, <1>2, DueOnStart, WorkingFinite DEF Due
      <2> QED
          BY <2>4, <1>1, <1>5 DEF Accounted
<1> QED
    BY <1>6, <1>7, StartPassGives

\* A pass that saves leaves what it knew; one that does not may leave a change
\* it fired to be found once more.
LEMMA EndCounted ==
  ASSUME WatchTypes, NEW p \in Passes, PassInv(p), Write(p) \/ SaveFails(p) \/ Killed(p),
         NEW r \in Refs, NEW s \in Shas, Accounted(r, s)
  PROVE  Accounted(r, s)'
<1>1. /\ WatchTypes' /\ Only(p) /\ AtWork(p) /\ ~AtWork(p)'
      /\ UNCHANGED <<attempts, overlaps>>
      /\ \/ pass[p].pc = "write" /\ file' \in {pass[p].state, Torn} /\ faults' = faults
         \/ file' = file /\ faults' = faults + 1
      BY WriteGives, FaultGives DEF AtWork, At
<1>2. p \in Working /\ Working' = Working \ {p} /\ Unspent(r, s)' = Unspent(r, s) \ {p}
      <2>1. p \in Working /\ p \notin Working' /\ p \notin Unspent(r, s)'
            BY <1>1 DEF Working, Unspent
      <2> QED
          BY <2>1, <1>1, OthersCount
<1>3. \A q \in Unspent(r, s)' : Pending(q, r, s)' <=> Pending(q, r, s)
      BY <1>1, <1>2, OthersCount DEF Unspent, Working
<1>4. Exposed(r, s)' => Exposed(r, s) \/ (Unrecorded(r, s)' /\ file' # file)
      BY <1>1, <1>2, <1>3 DEF Exposed, Unrecorded, Only
<1>5. /\ attempts[r][s] \in Nat /\ arrivals[r][s] \in Nat /\ faults \in Nat
      /\ overlaps \in Nat /\ arrivals' = arrivals
      BY <1>1 DEF WatchTypes, Only
<1>6. CASE file' = file /\ faults' = faults + 1
      <2>1. /\ Exposure(r, s) \in {0, 1} /\ Exposure(r, s)' \in {0, 1}
            /\ Exposure(r, s)' <= Exposure(r, s)
            BY <1>4, <1>6, ExposureType
      <2>2. Due(r, s)' \in Nat /\ Due(r, s) \in Nat /\ Due(r, s)' <= Due(r, s) + 1
            BY <2>1, <1>2, DueOnEnd, WorkingFinite DEF Due
      <2> QED
          BY <2>2, <1>1, <1>5, <1>6 DEF Accounted
<1>7. CASE pass[p].pc = "write" /\ file' \in {pass[p].state, Torn} /\ faults' = faults
      <2>1. Unrecorded(r, s)' => p \in Unspent(r, s) /\ Pending(p, r, s)
            <3> SUFFICES ASSUME Unrecorded(r, s)'
                         PROVE  p \in Unspent(r, s) /\ Pending(p, r, s)
                OBVIOUS
            <3>1. remote[r] = s /\ pass[p].state.known[r] # s
                  BY <1>1, <1>7 DEF Unrecorded, Only
            <3>2. ~Spent(p, r, s)
                  BY <3>1, <1>1 DEF PassInv, FiredChanges, Spent
            <3> QED
                BY <3>1, <3>2, <1>2 DEF Pending, Unspent
      <2>2. Exposed(r, s)' => Exposed(r, s) /\ Unspent(r, s) # {}
            BY <2>1, <1>2, <1>3 DEF Exposed
      <2>3. /\ Exposure(r, s) \in {0, 1} /\ Exposure(r, s)' \in {0, 1}
            /\ Exposure(r, s)' <= Exposure(r, s)
            /\ Unspent(r, s) # {} \/ Exposure(r, s)' = 0
            BY <2>2, ExposureType DEF Exposure
      <2>4. Due(r, s)' \in Nat /\ Due(r, s) \in Nat /\ Due(r, s)' <= Due(r, s)
            BY <2>3, <1>2, DueOnEnd, WorkingFinite DEF Due
      <2> QED
          BY <2>4, <1>1, <1>5, <1>7 DEF Accounted
<1> QED
    BY <1>1, <1>6, <1>7

\* The remote causes one more fire when it comes to show the commit, no other.
LEMMA PushCounted ==
  ASSUME WatchTypes, NEW q \in Refs, NEW c \in Commits, Push(q, c),
         NEW r \in Refs, NEW s \in Shas, Accounted(r, s)
  PROVE  Accounted(r, s)'
<1>1. /\ WatchTypes' /\ UNCHANGED <<scene, file, pass, attempts, faults, overlaps>>
      /\ remote' = [remote EXCEPT ![q] = c]
      /\ arrivals'[r][s] = arrivals[r][s] + IF r = q /\ s = c THEN 1 ELSE 0
      BY PushGives
<1>2. Working' = Working /\ Unspent(r, s)' = Unspent(r, s)
      BY <1>1 DEF Working, AtWork, At, Unspent, Spent
<1>3. /\ attempts[r][s] \in Nat /\ arrivals[r][s] \in Nat /\ faults \in Nat
      /\ overlaps \in Nat /\ remote \in [Refs -> Commits]
      BY <1>1 DEF WatchTypes
<1>4. Exposure(r, s) \in {0, 1} /\ Exposure(r, s)' \in {0, 1}
      BY ExposureType
<1>5. CASE r = q /\ s = c
      <2>1. Cardinality(Unspent(r, s)) \in Nat
            BY WorkingFinite, FS_CardinalityType
      <2>2. Due(r, s)' <= Due(r, s) + 1 /\ Due(r, s)' \in Int /\ Due(r, s) \in Int
            BY <1>2, <1>4, <2>1 DEF Due, DueOf
      <2> QED
          BY <2>2, <1>1, <1>3, <1>5 DEF Accounted
<1>6. CASE ~(r = q /\ s = c)
      <2>1. remote'[r] = s => remote[r] = s
            BY <1>1, <1>3, <1>6
      <2>2. /\ Unrecorded(r, s)' => Unrecorded(r, s)
            /\ \A p : Pending(p, r, s)' => Pending(p, r, s)
            BY <2>1, <1>1 DEF Unrecorded, Pending
      <2>3. Exposed(r, s)' => Exposed(r, s)
            BY <2>2, <1>2 DEF Exposed
      <2>4. Due(r, s)' \in Nat /\ Due(r, s) \in Nat /\ Due(r, s)' <= Due(r, s)
            BY <2>3, <1>2, <1>4, ExposureType, DueLess, WorkingFinite DEF Due
      <2> QED
          BY <2>4, <1>1, <1>3, <1>6 DEF Accounted
<1> QED
    BY <1>5, <1>6

----------------------------------------------------------------------------
(* Once per fire. *)

LEMMA OnceKept ==
  ASSUME EntriesApart, MentionedOnce, WatchTypes, NEW p \in Passes, PassInv(p),
         AtWork(p) => FiresOnce(p), Step(p) \/ SaveFails(p) \/ Killed(p), AtWork(p)'
  PROVE  FiresOnce(p)'
<1>1. CASE StartPass(p)
      <2>1. pass'[p].queue = [r \in Refs |-> 0] /\ pass'[p].tried = {}
            BY <1>1, StartPassGives DEF AtWork, At
      <2> QED
          BY <2>1 DEF FiresOnce
<1>2. CASE ListFails(p) \/ EntryDone(p) \/ Truncate(p)
      BY <1>2, ListFailsGives, EntryDoneGives, TruncateGives DEF FiresOnce, Advances, AtWork, At
<1>3. CASE Decide(p)
      <2> DEFINE e == pass[p].config[pass[p].entry]
      <2>1. /\ KnowsDecided(p) /\ FiredChanges(p) /\ scene \in Scenes
            /\ pass[p].tried \subseteq [ref : Refs, sha : Commits]
            /\ pass[p].config \in scene.lists /\ pass[p].entry \in DOMAIN pass[p].config
            /\ e \in Entry /\ pass'[p].tried = pass[p].tried
            /\ pass'[p].queue = Fires(e, remote, pass[p].state)
            BY <1>3, DecideGives, SMTT(30) DEF PassInv, AtWork, At, KnowsDecided, WatchTypes, Locals
      <2>2. \A r \in Refs : pass'[p].queue[r] <= 1
            <3>1. /\ \A i, k \in DOMAIN e.branches : e.branches[i] = e.branches[k] => i = k
                  /\ \A i, k \in DOMAIN e.tags :
                       i # k => Matching[e.tags[i]] \cap Matching[e.tags[k]] = {}
                  BY <2>1 DEF MentionedOnce
            <3> QED
                BY <2>1, <3>1, FiresAtMostOnce
      <2>3. ASSUME NEW t \in pass[p].tried
            PROVE  pass'[p].queue[t.ref] = 0
            <3>1. t.ref \in Refs /\ Settled(p, t.ref)
                  BY <2>1 DEF FiredChanges
            <3>2. ~Watched(e, t.ref)
                  BY <3>1, <2>1, <1>3, SettledElsewhere
            <3>3. Fires(e, remote, pass[p].state)[t.ref] \in Nat
                  BY <2>1, <3>1, FiresWhen
            <3>4. ~(Fires(e, remote, pass[p].state)[t.ref] > 0)
                  BY <2>1, <3>1, <3>2, FiresWhen DEF Watched
            <3> QED
                BY <2>1, <3>3, <3>4
      <2> QED
          BY <2>1, <2>2, <2>3 DEF FiresOnce
<1>4. CASE Fire(p)
      <2>1. FiresOnce(p)
            BY <1>4 DEF Fire, AtWork, At
      <2>2. PICK r \in Queued(p) :
              /\ pass'[p].queue = [pass[p].queue EXCEPT ![r] = @ - 1]
              /\ pass'[p].tried = pass[p].tried \cup {[ref |-> r, sha |-> pass[p].listed[r]]}
            BY <1>4, FireGives
      <2>3. /\ pass[p].queue \in [Refs -> Nat] /\ r \in Refs /\ pass[p].queue[r] = 1
            /\ pass[p].tried \subseteq [ref : Refs, sha : Commits]
            BY <2>1 DEF WatchTypes, Locals, Queued, FiresOnce
      <2>4. \A q \in Refs : pass'[p].queue[q] = IF q = r THEN 0 ELSE pass[p].queue[q]
            BY <2>2, <2>3
      <2> QED
          BY <2>1, <2>2, <2>3, <2>4 DEF FiresOnce
<1>5. CASE Write(p) \/ SaveFails(p) \/ Killed(p)
      BY <1>5, WriteGives, FaultGives DEF AtWork, At
<1> QED
    BY <1>1, <1>2, <1>3, <1>4, <1>5 DEF Step

LEMMA InitCount == Init => CountInv
<1> SUFFICES ASSUME Init PROVE CountInv
    OBVIOUS
<1>1. \A p \in Passes : ~AtWork(p)
      BY DEF Init, AtWork, At, Idle
<1>2. ASSUME NEW r \in Refs, NEW s \in Shas
      PROVE  Accounted(r, s)
      <2>1. Working = {} /\ Unspent(r, s) = {}
            BY <1>1 DEF Working, Unspent
      <2>2. Exposed(r, s) => remote[r] = s
            BY <2>1 DEF Exposed, Unrecorded
      <2>3. attempts[r][s] = 0 /\ faults = 0 /\ overlaps = 0
            BY DEF Init
      <2>4. arrivals[r][s] = IF remote[r] = s THEN 1 ELSE 0
            BY DEF Init
      <2> QED
          BY <2>1, <2>2, <2>3, <2>4 DEF Accounted, Due, DueOf, Exposure
<1> QED
    BY <1>1, <1>2 DEF CountInv

LEMMA NextCount ==
  ASSUME EntriesApart, MentionedOnce, IInv, CountInv, [Next]_vars
  PROVE  CountInv'
<1>1. WatchTypes /\ \A p \in Passes : PassInv(p)
      BY DEF IInv
<1>2. /\ \A p \in Passes : AtWork(p) => FiresOnce(p)
      /\ \A r \in Refs, s \in Shas : Accounted(r, s)
      BY DEF CountInv
<1>3. ASSUME NEW p \in Passes, Step(p) \/ SaveFails(p) \/ Killed(p)
      PROVE  CountInv'
      <2>1. Only(p)
            BY <1>1, <1>3, StartPassGives, ListFailsGives, DecideGives, FireGives,
               EntryDoneGives, TruncateGives, WriteGives, FaultGives DEF Step
      <2>2. \A q \in Passes \ {p} : AtWork(q)' => FiresOnce(q)'
            BY <1>2, <2>1, UntouchedPass DEF Only
      <2>3. AtWork(p)' => FiresOnce(p)'
            BY <1>1, <1>2, <1>3, OnceKept
      <2>4. ASSUME NEW r \in Refs, NEW s \in Shas
            PROVE  Accounted(r, s)'
            <3>1. Fire(p) => FiresOnce(p)
                  BY <1>2 DEF Fire, AtWork, At
            <3> QED
                BY <3>1, <1>1, <1>2, <1>3, StartCounted, NextEntryCounted, DecideCounted,
                   FireCounted, EndCounted DEF Step
      <2> QED
          BY <2>2, <2>3, <2>4 DEF CountInv
<1>4. ASSUME NEW q \in Refs, NEW c \in Shas \cup {NoSha}, Push(q, c)
      PROVE  CountInv'
      <2>1. c \in Commits
            BY DEF Commits
      <2>2. pass' = pass /\ scene' = scene
            BY <1>1, <1>4, <2>1, PushGives
      <2>3. \A r \in Refs, s \in Shas : Accounted(r, s)'
            BY <1>1, <1>2, <1>4, <2>1, PushCounted
      <2> QED
          BY <1>2, <2>2, <2>3, UntouchedPass DEF CountInv
<1>5. CASE UNCHANGED vars
      <2>1. /\ pass' = pass /\ scene' = scene /\ remote' = remote /\ file' = file
            /\ attempts' = attempts /\ arrivals' = arrivals
            /\ faults' = faults /\ overlaps' = overlaps
            BY <1>5 DEF vars, bounded
      <2>2. ASSUME NEW r \in Refs, NEW s \in Shas
            PROVE  Accounted(r, s)'
            <3>1. Working' = Working /\ Unspent(r, s)' = Unspent(r, s)
                  BY <2>1 DEF Working, AtWork, At, Unspent, Spent
            <3>2. Exposed(r, s)' <=> Exposed(r, s)
                  BY <2>1, <3>1 DEF Exposed, Unrecorded, Pending
            <3>3. Due(r, s)' = Due(r, s)
                  BY <3>1, <3>2 DEF Due, Exposure
            <3> QED
                BY <1>2, <2>1, <3>3 DEF Accounted
      <2> QED
          BY <1>2, <2>1, <2>2, UntouchedPass DEF CountInv
<1> QED
    BY <1>3, <1>4, <1>5 DEF Next

----------------------------------------------------------------------------
(* The theorems. *)

\* FiresAreChanges: when no two entries watch the same ref, a pass calls fire
\* only for a change to something it had a baseline for.
THEOREM OnlyChangesFire ==
  ASSUME EntriesApart
  PROVE  Spec => []FiresAreChanges
<1>1. IInv => FiresAreChanges
      BY DEF IInv, PassInv, AtWork, FiresAreChanges, FiredChanges
<1> QED
    BY <1>1, Inductive, PTL

\* NoChangeSwallowed: when no two entries watch the same ref, a pass that saves
\* a new commit for a ref with a baseline has called fire for that commit.
THEOREM SavedChangesFired ==
  ASSUME EntriesApart
  PROVE  Spec => NoChangeSwallowed
<1> DEFINE Saved(p) ==
      At(p, "write") /\ file' # file /\ file' = pass[p].state =>
        \A r \in Refs :
          Baselines(p, r) /\ file'.known[r] # pass[p].loaded.known[r] =>
            \E t \in pass[p].tried : t.ref = r /\ t.sha = file'.known[r]
<1>1. ASSUME IInv
      PROVE  \A p \in Passes : Saved(p)
      <2> SUFFICES ASSUME NEW p \in Passes, At(p, "write"), file' = pass[p].state
                   PROVE  \A r \in Refs :
                            Baselines(p, r) /\ pass[p].state.known[r] # pass[p].loaded.known[r] =>
                              \E t \in pass[p].tried : t.ref = r /\ t.sha = pass[p].state.known[r]
          OBVIOUS
      <2>1. NothingDropped(p) /\ QueuesChanges(p)
            BY <1>1 DEF IInv, PassInv, AtWork, At
      <2>2. Queued(p) = {}
            BY <2>1 DEF QueuesChanges, At
      <2> QED
          BY <2>1, <2>2 DEF NothingDropped
<1>2. IInv /\ [Next]_vars => [\A p \in Passes : Saved(p)]_vars
      BY <1>1
<1> QED
    BY <1>2, Inductive, PTL DEF Spec, NoChangeSwallowed

\* RefiresBounded: when every ref has one mention in a list, fire is called for
\* a commit at a ref at most once for each time the remote came to show it
\* there, each kill or failed save, and each pass begun beside another.
THEOREM RefiresOnlyAfterFaults ==
  ASSUME EntriesApart, MentionedOnce
  PROVE  Spec => []RefiresBounded
<1>1. Init => IInv /\ CountInv
      BY InitIInv, InitCount
<1>2. IInv /\ CountInv /\ [Next]_vars => IInv' /\ CountInv'
      BY NextIInv, NextCount
<1>3. IInv /\ CountInv => RefiresBounded
      <2> SUFFICES ASSUME IInv, CountInv, NEW r \in Refs, NEW s \in Shas
                   PROVE  attempts[r][s] <= arrivals[r][s] + faults + overlaps
          BY DEF RefiresBounded
      <2>1. attempts[r][s] + Due(r, s) <= arrivals[r][s] + faults + overlaps
            BY DEF CountInv, Accounted
      <2>2. /\ attempts[r][s] \in Nat /\ arrivals[r][s] \in Nat
            /\ faults \in Nat /\ overlaps \in Nat
            BY DEF IInv, WatchTypes
      <2>3. Due(r, s) \in Nat
            <3>1. Working = {} <=> Working = {}
                  OBVIOUS
            <3>2. Exposure(r, s) \in {0, 1} /\ Exposure(r, s) <= Exposure(r, s)
                  BY ExposureType
            <3> QED
                BY <3>1, <3>2, DueLess, WorkingFinite DEF Due
      <2> QED
          BY <2>1, <2>2, <2>3
<1> QED
    BY <1>1, <1>2, <1>3, PTL DEF Spec

=============================================================================
