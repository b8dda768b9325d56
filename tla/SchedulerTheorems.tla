-------------------------- MODULE SchedulerTheorems --------------------------
(***************************************************************************)
(* Proofs about Scheduler, for every finite set of jobs, every acyclic     *)
(* dependency map, every MaxParallel and every RunJob outcome: the         *)
(* inductive invariant, the safety and action properties that it gives,    *)
(* and that Run implements JobRun.                                         *)
(***************************************************************************)
EXTENDS Scheduler, JobGraph_proofs, SequenceTheorems

\* The inductive invariant: types, what the counters and queues stand for,
\* and the needs of every launched job.
IInv == TypeOK /\ Accounting /\ NeedsSucceeded

LEMMA MaxPositive ==
  ASSUME maxParallel \in MaxChoices
  PROVE  Max \in Nat /\ Max >= 1
BY MaxAssumption DEF Max

LEMMA MaxFixed ==
  ASSUME maxParallel' = maxParallel
  PROVE  Max' = Max
BY DEF Max

LEMMA NeedsShape ==
  ASSUME needs \in NeedsChoices
  PROVE  needs \in [Jobs -> Seq(Jobs)] /\ Acyclic(needs)
BY NeedsAssumption

\* Every set of jobs is finite, and the sets that the counters count are.
LEMMA JobSetFinite ==
  ASSUME NEW S \in SUBSET Jobs
  PROVE  IsFiniteSet(S) /\ Cardinality(S) \in Nat
BY JobsAssumption, FS_Subset, FS_CardinalityType

\* Recording a result takes exactly that job out of the unresulted ones.
LEMMA RecordResult ==
  ASSUME TypeOK, NEW c \in Jobs, NEW r, r # NoResult,
         results' = [results EXCEPT ![c] = r]
  PROVE  /\ Unresulted' = Unresulted \ {c}
         /\ Resulted' = Resulted \cup {c}
BY DEF TypeOK, Unresulted, Resulted, NoResult, Result

\* The counters after advance(c), for a job c that gets its result in the same
\* step: indeg still counts the unmet entries, and the queue still holds the
\* jobs that have none.
LEMMA AdvanceCounts ==
  ASSUME IInv, pc # "returned", NEW c \in Unresulted, NEW waiting,
         indeg[c] = 0, waiting = ready \ {c},
         Advance(c, waiting),
         needs' = needs, worker' = worker, Unresulted' = Unresulted \ {c},
         Resulted' = Resulted \cup {c}
  PROVE  /\ indeg' \in [Jobs -> Int]
         /\ ready' \subseteq Jobs
         /\ CountersExact'
<1>1. /\ needs \in [Jobs -> Seq(Jobs)]
      /\ indeg \in [Jobs -> Int]
      /\ worker \in [Jobs -> {"idle", "running", "sent", "exited"}]
      /\ DOMAIN indeg = Jobs /\ c \in Jobs /\ Unresulted \subseteq Jobs
  BY NeedsShape DEF IInv, TypeOK, Unresulted
<1>2. /\ \A j \in Jobs : indeg[j] = Cardinality(Unmet(j))
      /\ ready = {j \in Unresulted : worker[j] = "idle" /\ indeg[j] = 0}
      /\ \A j \in Jobs : j \in Resulted \/ worker[j] # "idle" => indeg[j] = 0
  BY DEF IInv, Accounting, CountersExact
<1>3. ASSUME NEW j \in Jobs
      PROVE  /\ indeg'[j] = indeg[j] - Cardinality(Naming(needs, j, c))
             /\ indeg'[j] = Cardinality(Unmet(j)')
             /\ indeg'[j] \in Nat /\ indeg[j] \in Nat
             /\ Cardinality(Naming(needs, j, c)) \in Nat
             /\ c \in NeedSet(needs, j) <=> Cardinality(Naming(needs, j, c)) # 0
  <2>1. indeg'[j] = indeg[j] - Cardinality(Naming(needs, j, c))
    BY <1>1 DEF Advance, Lowered
  <2> DEFINE E == Entries(needs, j, Unresulted)
             N == Naming(needs, j, c)
  <2>2. IsFiniteSet(DOMAIN needs[j])
    BY <1>1, NeedsListFinite
  <2>3. /\ IsFiniteSet(E) /\ N \subseteq E
        /\ Entries(needs, j, Unresulted \ {c}) = E \ N
        /\ c \in NeedSet(needs, j) <=> N # {}
    BY <2>2, EntriesSplit
  <2>4. Unmet(j) = E /\ Unmet(j)' = E \ N
    BY <2>3 DEF Unmet
  <2> HIDE DEF E
  <2>5. /\ Cardinality(E) \in Nat /\ Cardinality(N) \in Nat
        /\ Cardinality(E \ N) \in Nat
        /\ Cardinality(E \ N) = Cardinality(E) - Cardinality(N)
        /\ Cardinality(N) = 0 <=> N = {}
    BY <2>3, CardinalitySplit
  <2> QED
    BY <1>2, <2>1, <2>3, <2>4, <2>5
<1>4. indeg' \in [Jobs -> Int]
  BY <1>1, <1>3 DEF Advance, Lowered
<1>5. Freed(needs, indeg, c) = {j \in Jobs : indeg[j] # 0 /\ indeg'[j] = 0}
  <2>1. Freed(needs, indeg, c) = {j \in Jobs : c \in NeedSet(needs, j) /\ indeg'[j] = 0}
    BY <1>1 DEF Freed, Advance
  <2>2. \A j \in Jobs : indeg'[j] = 0 => (c \in NeedSet(needs, j) <=> indeg[j] # 0)
    BY <1>3
  <2> QED
    BY <2>1, <2>2
<1>6. ready' = {j \in Unresulted \ {c} : worker[j] = "idle" /\ indeg'[j] = 0}
  <2>1. ready' = (ready \ {c}) \cup {j \in Jobs : indeg[j] # 0 /\ indeg'[j] = 0}
    BY <1>5 DEF Advance
  <2>2. \A j \in Jobs : indeg[j] = 0 => indeg'[j] = 0
    BY <1>3
  <2>3. \A j \in Jobs : indeg[j] # 0 => j \in Unresulted /\ j # c /\ worker[j] = "idle"
    BY <1>2 DEF Unresulted
  <2> QED
    BY <1>1, <1>2, <2>1, <2>2, <2>3
<1>7. \A j \in Jobs : j \in Resulted' \/ worker[j] # "idle" => indeg'[j] = 0
  BY <1>2, <1>3
<1> QED
  BY <1>1, <1>3, <1>4, <1>6, <1>7 DEF CountersExact

\* The job at the head of the queue: untouched so far, and each of its needs
\* has a result.
LEMMA HeadOfQueue ==
  ASSUME IInv, pc = "dispatch", Dispatching
  PROVE  LET j == Smallest(ready)
         IN  /\ j \in Jobs /\ j \in ready
             /\ j \in Unresulted /\ worker[j] = "idle" /\ indeg[j] = 0
             /\ NeedSet(needs, j) \subseteq Resulted
<1> DEFINE j == Smallest(ready)
<1>1. ready \in SUBSET Nat /\ ready # {} /\ ready \subseteq Jobs
  BY JobsAssumption DEF IInv, TypeOK, Dispatching
<1>2. j \in ready
  BY <1>1, SmallestIsLeast
<1> HIDE DEF j
<1>3. /\ j \in Jobs /\ j \in Unresulted /\ worker[j] = "idle" /\ indeg[j] = 0
      /\ indeg[j] = Cardinality(Unmet(j))
  BY <1>1, <1>2 DEF IInv, Accounting, CountersExact
<1>4. Unmet(j) = {}
  <2>1. needs \in [Jobs -> Seq(Jobs)]
    BY NeedsShape DEF IInv, TypeOK
  <2>2. IsFiniteSet(DOMAIN needs[j])
    BY <1>3, <2>1, NeedsListFinite
  <2>3. Unmet(j) \subseteq DOMAIN needs[j]
    BY DEF Unmet, Entries
  <2> QED
    BY <1>3, <2>2, <2>3, FS_Subset, FS_EmptySet
<1>5. \A n \in NeedSet(needs, j) : n \in Jobs
  BY <1>3, NeedsShape, NeedsListFinite DEF IInv, TypeOK, NeedSet
<1>6. NeedSet(needs, j) \subseteq Resulted
  BY <1>4, <1>5 DEF Unmet, Entries, NeedSet, Unresulted
<1> QED
  BY <1>2, <1>3, <1>6 DEF j

LEMMA InitIInv == Init => IInv
<1> SUFFICES ASSUME Init PROVE IInv
  OBVIOUS
<1>1. needs \in [Jobs -> Seq(Jobs)] /\ needs \in NeedsChoices
  BY NeedsShape DEF Init
<1>2. Resulted = {} /\ Unresulted = Jobs
  BY DEF Init, Resulted, Unresulted
<1>3. InFlightJobs = {} /\ SlotHolders = {}
  BY DEF Init, InFlightJobs, SlotHolders, Unresulted
<1>4. indeg = [j \in Jobs |-> Len(needs[j])]
  BY <1>1 DEF Init, Indegree
<1>5. ASSUME NEW j \in Jobs
      PROVE  indeg[j] \in Nat /\ indeg[j] = Cardinality(Unmet(j))
  <2>1. Unmet(j) = DOMAIN needs[j]
    <3>1. \A i \in DOMAIN needs[j] : needs[j][i] \in Jobs
      BY <1>1, <1>5, NeedsListFinite
    <3> QED
      BY <1>2, <3>1 DEF Unmet, Entries
  <2>2. Cardinality(DOMAIN needs[j]) = Len(needs[j]) /\ Len(needs[j]) \in Nat
    BY <1>1, <1>5, NeedsListFinite
  <2> QED
    BY <1>4, <2>1, <2>2
<1>6. TypeOK
  <2>1. indeg \in [Jobs -> Int]
    BY <1>4, <1>5
  <2>2. done \in Seq([job : Jobs, outcome : Outcomes])
    BY EmptySeq DEF Init
  <2>3. inFlight \in Nat /\ sem \in 0..Max
    BY MaxPositive DEF Init
  <2>4. results \in [Jobs -> [status : Statuses, why : {"own", "need", "infra"}]
                             \cup {NoResult}]
    BY DEF Init
  <2> QED
    BY <1>1, <2>1, <2>2, <2>3, <2>4 DEF Init, TypeOK
<1>7. CountersExact
  <2>1. ready = {j \in Jobs : indeg[j] = 0} /\ \A j \in Jobs : worker[j] = "idle"
    BY DEF Init
  <2> QED
    BY <1>2, <1>5, <2>1 DEF CountersExact
<1>8. SlotsCounted /\ FlightCounted
  BY <1>3, FS_EmptySet DEF Init, SlotsCounted, FlightCounted
<1>9. DoneTracks /\ RunningHasNoResult /\ Drained
  <2>1. /\ done = <<>> /\ DOMAIN done = {} /\ pc = "dispatch"
        /\ \A j \in Jobs : worker[j] = "idle"
    BY DEF Init
  <2> QED
    BY <1>2, <2>1 DEF DoneTracks, RunningHasNoResult, Drained
<1>10. NeedsSucceeded
  BY DEF Init, NeedsSucceeded
<1> QED
  BY <1>6, <1>7, <1>8, <1>9, <1>10 DEF IInv, Accounting

LEMMA SkipNextIInv == IInv /\ SkipNext => IInv'
<1> SUFFICES ASSUME IInv, SkipNext PROVE IInv'
  OBVIOUS
<1> DEFINE j == Smallest(ready)
<1>1. /\ j \in Jobs /\ j \in ready
      /\ j \in Unresulted /\ worker[j] = "idle" /\ indeg[j] = 0
  BY HeadOfQueue DEF SkipNext
<1>2. /\ results' = [results EXCEPT ![j] = Result("skipped", "need")]
      /\ skipCalls' = [skipCalls EXCEPT ![j] = @ + 1]
      /\ Advance(j, ready \ {j})
      /\ pc = "dispatch" /\ pc' = "dispatch"
      /\ UNCHANGED <<needs, maxParallel, inFlight, sem, done, infraErr,
                     ctxDone, worker>>
  BY DEF SkipNext
<1> HIDE DEF j
<1>3. TypeOK /\ DoneTracks /\ RunningHasNoResult /\ NeedsSucceeded
      /\ SlotsCounted /\ FlightCounted
  BY DEF IInv, Accounting
<1>4. Result("skipped", "need") # NoResult
  BY DEF Result, NoResult
<1>5. Unresulted' = Unresulted \ {j} /\ Resulted' = Resulted \cup {j}
  BY <1>1, <1>2, <1>3, <1>4, RecordResult
<1>6. indeg' \in [Jobs -> Int] /\ ready' \subseteq Jobs /\ CountersExact'
  BY <1>1, <1>2, <1>5, AdvanceCounts
<1>7. TypeOK'
  <2>1. results' \in [Jobs -> [status : Statuses, why : {"own", "need", "infra"}]
                              \cup {NoResult}]
    BY <1>1, <1>2, <1>3 DEF TypeOK, Result, Statuses
  <2>2. skipCalls' \in [Jobs -> Nat]
    BY <1>1, <1>2, <1>3 DEF TypeOK
  <2> QED
    BY <1>2, <1>3, <1>6, <2>1, <2>2, MaxFixed DEF TypeOK, NoResult, Result
<1>8. InFlightJobs' = InFlightJobs /\ SlotHolders' = SlotHolders
  BY <1>1, <1>2, <1>5 DEF InFlightJobs, SlotHolders
<1>9. SlotsCounted' /\ FlightCounted'
  BY <1>2, <1>3, <1>8 DEF SlotsCounted, FlightCounted
<1>10. DoneTracks'
  <2>1. \A i \in DOMAIN done : done[i].job # j
    BY <1>1, <1>3 DEF DoneTracks
  <2> QED
    BY <1>2, <1>3, <1>5, <2>1 DEF DoneTracks
<1>11. RunningHasNoResult' /\ Drained'
  BY <1>1, <1>2, <1>3, <1>5 DEF RunningHasNoResult, Drained
<1>12. NeedsSucceeded'
  <2>1. results[j] = NoResult
    BY <1>1 DEF Unresulted, Resulted
  <2>2. \A n : results[n].status = "success" => n # j
    BY <2>1 DEF NoResult, Result
  <2>3. \A n : n # j => results'[n] = results[n]
    BY <1>2, <1>3 DEF TypeOK
  <2> QED
    BY <1>2, <1>3, <2>2, <2>3 DEF NeedsSucceeded
<1> QED
  BY <1>6, <1>7, <1>9, <1>10, <1>11, <1>12 DEF IInv, Accounting

LEMMA LaunchNextIInv == IInv /\ LaunchNext => IInv'
<1> SUFFICES ASSUME IInv, LaunchNext PROVE IInv'
  OBVIOUS
<1> DEFINE j == Smallest(ready)
<1>1. /\ j \in Jobs /\ j \in ready
      /\ j \in Unresulted /\ worker[j] = "idle" /\ indeg[j] = 0
      /\ NeedSet(needs, j) \subseteq Resulted
  BY HeadOfQueue DEF LaunchNext
<1>2. /\ ~NeedsSkip(j)
      /\ ready' = ready \ {j}
      /\ worker' = [worker EXCEPT ![j] = "running"]
      /\ sem < Max /\ sem' = sem + 1 /\ inFlight' = inFlight + 1
      /\ pc = "dispatch" /\ pc' = "dispatch"
      /\ UNCHANGED <<needs, maxParallel, indeg, done, results, infraErr,
                     ctxDone, skipCalls>>
  BY DEF LaunchNext
<1> HIDE DEF j
<1>3. TypeOK /\ DoneTracks /\ RunningHasNoResult /\ NeedsSucceeded
      /\ SlotsCounted /\ FlightCounted /\ CountersExact
  BY DEF IInv, Accounting
<1>4. Unresulted' = Unresulted /\ Resulted' = Resulted
  BY <1>2 DEF Unresulted, Resulted
<1>5. worker'[j] = "running" /\ \A k \in Jobs : k # j => worker'[k] = worker[k]
  BY <1>1, <1>2, <1>3 DEF TypeOK
<1>6. TypeOK'
  BY <1>1, <1>2, <1>3, MaxPositive, MaxFixed DEF TypeOK
<1>7. InFlightJobs' = InFlightJobs \cup {j} /\ j \notin InFlightJobs
  BY <1>1, <1>4, <1>5 DEF InFlightJobs, Unresulted
<1>8. SlotHolders' = SlotHolders \cup {j} /\ j \notin SlotHolders
  BY <1>1, <1>5 DEF SlotHolders
<1>9. IsFiniteSet(InFlightJobs) /\ IsFiniteSet(SlotHolders)
  BY JobSetFinite DEF InFlightJobs, SlotHolders, Unresulted
<1>10. SlotsCounted' /\ FlightCounted'
  BY <1>2, <1>3, <1>7, <1>8, <1>9, FS_AddElement DEF SlotsCounted, FlightCounted
<1>11. CountersExact'
  <2>1. \A k \in Jobs : Unmet(k)' = Unmet(k)
    BY <1>2, <1>4 DEF Unmet
  <2>2. ready' = {k \in Unresulted : worker'[k] = "idle" /\ indeg[k] = 0}
    BY <1>1, <1>2, <1>3, <1>5 DEF CountersExact, Unresulted
  <2> QED
    BY <1>1, <1>2, <1>3, <1>4, <1>5, <2>1, <2>2 DEF CountersExact
<1>12. DoneTracks'
  <2>1. \A i \in DOMAIN done : done[i].job # j
    BY <1>1, <1>3 DEF DoneTracks
  <2> QED
    BY <1>1, <1>2, <1>3, <1>4, <1>5, <2>1 DEF DoneTracks, Unresulted
<1>13. RunningHasNoResult' /\ Drained'
  BY <1>1, <1>2, <1>3, <1>4, <1>5 DEF RunningHasNoResult, Drained
<1>14. NeedsSucceeded'
  <2>1. \A n \in NeedSet(needs, j) : results[n].status = "success"
    BY <1>1, <1>2, <1>3 DEF NeedsSkip, TypeOK, Resulted
  <2> QED
    BY <1>2, <1>3, <1>5, <2>1 DEF NeedsSucceeded
<1> QED
  BY <1>6, <1>10, <1>11, <1>12, <1>13, <1>14 DEF IInv, Accounting

LEMMA EndDispatchIInv == IInv /\ EndDispatch => IInv'
<1> SUFFICES ASSUME IInv, EndDispatch PROVE IInv'
  OBVIOUS
<1>1. /\ pc = "dispatch"
      /\ pc' = IF inFlight > 0 THEN "receive"
               ELSE IF infraErr # NoJob THEN "backfill" ELSE "returned"
      /\ ctxDone' \in BOOLEAN
      /\ UNCHANGED <<needs, maxParallel, indeg, ready, inFlight, sem, done,
                     results, infraErr, worker, skipCalls>>
  BY DEF EndDispatch, IInv, TypeOK
<1>2. TypeOK'
  BY <1>1, MaxFixed DEF IInv, TypeOK
<1>3. Unresulted' = Unresulted /\ Resulted' = Resulted
  BY <1>1 DEF Unresulted, Resulted
<1>4. SlotHolders' = SlotHolders /\ InFlightJobs' = InFlightJobs
  BY <1>1, <1>3 DEF SlotHolders, InFlightJobs
<1>5. SlotsCounted' /\ FlightCounted'
  BY <1>1, <1>4 DEF IInv, Accounting, SlotsCounted, FlightCounted
<1>6. DoneTracks' /\ RunningHasNoResult'
  BY <1>1, <1>3 DEF IInv, Accounting, DoneTracks, RunningHasNoResult
<1>7. CountersExact'
  <2>1. \A k \in Jobs : Unmet(k)' = Unmet(k)
    BY <1>1, <1>3 DEF Unmet
  <2> QED
    BY <1>1, <1>3, <2>1 DEF IInv, Accounting, CountersExact
<1>8. Drained'
  <2>1. IsFiniteSet(InFlightJobs)
    BY JobSetFinite DEF InFlightJobs, Unresulted
  <2>2. inFlight = Cardinality(InFlightJobs) /\ inFlight \in Nat
    BY DEF IInv, Accounting, FlightCounted, TypeOK
  <2>3. inFlight = 0 => InFlightJobs = {}
    BY <2>1, <2>2, FS_EmptySet
  <2> QED
    BY <1>1, <1>4, <2>2, <2>3 DEF Drained
<1>9. NeedsSucceeded'
  BY <1>1 DEF IInv, NeedsSucceeded
<1> QED
  BY <1>2, <1>5, <1>6, <1>7, <1>8, <1>9 DEF IInv, Accounting

\* The completion at the head of the channel.
LEMMA HeadOfDone ==
  ASSUME IInv, done # <<>>
  PROVE  LET c == Head(done)
         IN  /\ c = done[1] /\ 1 \in DOMAIN done
             /\ c \in [job : Jobs, outcome : Outcomes]
             /\ c.job \in Unresulted
             /\ worker[c.job] \in {"sent", "exited"}
<1>1. done \in Seq([job : Jobs, outcome : Outcomes])
  BY DEF IInv, TypeOK
<1>2. /\ Head(done) = done[1] /\ 1 \in DOMAIN done
      /\ Head(done) \in [job : Jobs, outcome : Outcomes]
  <2>1. Len(done) \in Nat \ {0} /\ DOMAIN done = 1..Len(done)
    BY <1>1, EmptySeq, LenProperties
  <2>2. 1 \in 1..Len(done)
    BY <2>1
  <2>3. done[1] \in [job : Jobs, outcome : Outcomes]
    BY <1>1, <2>2, ElementOfSeq
  <2>4. Head(done) = done[1]
    BY <1>1
  <2> QED
    BY <2>1, <2>2, <2>3, <2>4
<1>3. done[1].job \in Unresulted
  BY <1>2 DEF IInv, Accounting, DoneTracks
<1>4. worker[done[1].job] \in {"sent", "exited"}
  BY <1>2, <1>3 DEF IInv, Accounting, DoneTracks
<1> QED
  BY <1>2, <1>3, <1>4

LEMMA ReceiveIInv == IInv /\ Receive => IInv'
<1> SUFFICES ASSUME IInv, Receive PROVE IInv'
  OBVIOUS
<1> DEFINE c == Head(done)
           j == c.job
<1>1. /\ c = done[1] /\ 1 \in DOMAIN done
      /\ c \in [job : Jobs, outcome : Outcomes]
      /\ j \in Unresulted
      /\ worker[j] \in {"sent", "exited"}
  BY HeadOfDone DEF Receive
<1>2. /\ done' = Tail(done)
      /\ NoteError(c)
      /\ results' = [results EXCEPT ![j] = Recorded(c)]
      /\ Advance(j, ready)
      /\ inFlight' = inFlight - 1
      /\ pc = "receive" /\ pc' = "dispatch" /\ done # <<>>
      /\ UNCHANGED <<needs, maxParallel, sem, worker, skipCalls>>
  BY DEF Receive
<1>3. TypeOK /\ DoneTracks /\ RunningHasNoResult /\ NeedsSucceeded
      /\ SlotsCounted /\ FlightCounted /\ CountersExact
  BY DEF IInv, Accounting
<1>4. Recorded(c) \in [status : Statuses, why : {"own", "need", "infra"}]
  BY <1>1 DEF Recorded, Result, Outcomes, Statuses
<1>5. infraErr' \in Jobs \cup {NoJob} /\ ctxDone' \in BOOLEAN
  BY <1>1, <1>2, <1>3, ZenonT(60) DEF NoteError, TypeOK
<1> HIDE DEF c
<1>6. j \in Jobs /\ worker[j] # "idle" /\ worker[j] # "running"
  BY <1>1, <1>3 DEF Unresulted, TypeOK
<1>7. Recorded(c) # NoResult
  BY <1>4 DEF NoResult, Result, Statuses
<1>8. Unresulted' = Unresulted \ {j} /\ Resulted' = Resulted \cup {j}
  BY <1>2, <1>3, <1>6, <1>7, RecordResult
<1>9. indeg' \in [Jobs -> Int] /\ ready' \subseteq Jobs /\ CountersExact'
  <2>1. indeg[j] = 0 /\ ready = ready \ {j}
    BY <1>2, <1>3, <1>6 DEF CountersExact
  <2> QED
    BY <1>1, <1>2, <1>8, <2>1, AdvanceCounts
<1>10. /\ IsFiniteSet(InFlightJobs) /\ j \in InFlightJobs
       /\ InFlightJobs' = InFlightJobs \ {j}
       /\ SlotHolders' = SlotHolders
  BY <1>1, <1>2, <1>6, <1>8, JobSetFinite DEF InFlightJobs, SlotHolders, Unresulted
<1>11. SlotsCounted' /\ FlightCounted' /\ inFlight' \in Nat
  <2>1. Cardinality(InFlightJobs \ {j}) = Cardinality(InFlightJobs) - 1
    BY <1>10, FS_RemoveElement
  <2>2. IsFiniteSet(InFlightJobs \ {j})
    BY <1>10, FS_RemoveElement
  <2>3. Cardinality(InFlightJobs \ {j}) \in Nat
    BY <2>2, FS_CardinalityType
  <2> QED
    BY <1>2, <1>3, <1>10, <2>1, <2>3 DEF SlotsCounted, FlightCounted
<1>12. TypeOK'
  <2>1. done' \in Seq([job : Jobs, outcome : Outcomes])
    BY <1>2, <1>3, HeadTailProperties DEF TypeOK
  <2>2. results' \in [Jobs -> [status : Statuses, why : {"own", "need", "infra"}]
                              \cup {NoResult}]
    BY <1>2, <1>3, <1>4, <1>6 DEF TypeOK
  <2> QED
    BY <1>2, <1>3, <1>5, <1>9, <1>11, <2>1, <2>2, MaxFixed DEF TypeOK, NoResult, Result
<1>13. DoneTracks'
  <2>1. done \in Seq([job : Jobs, outcome : Outcomes])
    BY <1>3 DEF TypeOK
  <2>2. /\ Len(done) \in Nat /\ DOMAIN done = 1..Len(done)
        /\ DOMAIN done' = 1..(Len(done) - 1)
        /\ \A i \in 1..(Len(done) - 1) : done'[i] = done[i + 1]
    BY <1>2, <2>1
  <2>3. \A i \in DOMAIN done' : i + 1 \in DOMAIN done /\ i + 1 # 1 /\ done'[i] = done[i + 1]
    BY <2>2
  <2>4. \A i \in DOMAIN done : i # 1 => i - 1 \in DOMAIN done' /\ done'[i - 1] = done[i]
    BY <2>2
  <2>5. \A i \in DOMAIN done' : done'[i].job \in Unresulted \ {j}
    BY <1>1, <1>3, <2>3 DEF DoneTracks
  <2>6. \A i, k \in DOMAIN done' : done'[i].job = done'[k].job => i = k
    <3> SUFFICES ASSUME NEW i \in DOMAIN done', NEW k \in DOMAIN done',
                        done'[i].job = done'[k].job
                 PROVE  i = k
      OBVIOUS
    <3>1. i + 1 = k + 1
      BY <1>3, <2>3 DEF DoneTracks
    <3>2. i \in Int /\ k \in Int
      BY <2>2
    <3> QED
      BY <3>1, <3>2
  <2>7. ASSUME NEW k \in Unresulted \ {j}
        PROVE  worker[k] \in {"sent", "exited"} <=> \E i \in DOMAIN done' : done'[i].job = k
    <3>1. worker[k] \in {"sent", "exited"} <=> \E i \in DOMAIN done : done[i].job = k
      BY <1>3 DEF DoneTracks
    <3>2. (\E i \in DOMAIN done : done[i].job = k) => \E i \in DOMAIN done' : done'[i].job = k
      BY <1>1, <2>4
    <3>3. (\E i \in DOMAIN done' : done'[i].job = k) => \E i \in DOMAIN done : done[i].job = k
      BY <2>3
    <3> QED
      BY <3>1, <3>2, <3>3
  <2> QED
    BY <1>2, <1>8, <2>5, <2>6, <2>7 DEF DoneTracks
<1>14. RunningHasNoResult' /\ Drained'
  BY <1>2, <1>3, <1>6, <1>8 DEF RunningHasNoResult, Drained
<1>15. NeedsSucceeded'
  <2>1. results[j] = NoResult
    BY <1>1, <1>6 DEF Unresulted, Resulted
  <2>2. \A n : results[n].status = "success" => n # j
    BY <2>1 DEF NoResult, Result
  <2>3. \A n : n # j => results'[n] = results[n]
    BY <1>2, <1>3 DEF TypeOK
  <2> QED
    BY <1>2, <1>3, <2>2, <2>3 DEF NeedsSucceeded
<1> QED
  BY <1>9, <1>11, <1>12, <1>13, <1>14, <1>15 DEF IInv, Accounting

LEMMA BackfillIInv == IInv /\ Backfill => IInv'
<1> SUFFICES ASSUME IInv, Backfill PROVE IInv'
  OBVIOUS
<1>1. /\ results' = [j \in Jobs |-> IF j \in Unresulted
                                    THEN Result("skipped", "infra") ELSE results[j]]
      /\ skipCalls' = [j \in Jobs |-> skipCalls[j] + IF j \in Unresulted THEN 1 ELSE 0]
      /\ pc = "backfill" /\ pc' = "returned"
      /\ UNCHANGED <<needs, maxParallel, indeg, ready, inFlight, sem, done,
                     infraErr, ctxDone, worker>>
  BY DEF Backfill, Backfilled, Unresulted
<1>2. TypeOK /\ DoneTracks /\ RunningHasNoResult /\ NeedsSucceeded
      /\ SlotsCounted /\ FlightCounted /\ InFlightJobs = {}
  BY <1>1 DEF IInv, Accounting, Drained
<1>3. Unresulted' = {}
  BY <1>1 DEF Unresulted, Resulted, Result, NoResult
<1>4. \A j \in Unresulted : worker[j] = "idle"
  BY <1>2 DEF InFlightJobs
<1>5. TypeOK'
  <2>1. results' \in [Jobs -> [status : Statuses, why : {"own", "need", "infra"}]
                              \cup {NoResult}]
    BY <1>1, <1>2 DEF TypeOK, Result, Statuses
  <2>2. skipCalls' \in [Jobs -> Nat]
    BY <1>1, <1>2 DEF TypeOK
  <2> QED
    BY <1>1, <1>2, <2>1, <2>2, MaxFixed DEF TypeOK, NoResult, Result
<1>6. InFlightJobs' = InFlightJobs /\ SlotHolders' = SlotHolders
  BY <1>1, <1>2, <1>3 DEF InFlightJobs, SlotHolders
<1>7. SlotsCounted' /\ FlightCounted' /\ CountersExact' /\ Drained'
  BY <1>1, <1>2, <1>6 DEF SlotsCounted, FlightCounted, CountersExact, Drained
<1>8. DoneTracks'
  <2>1. \A i \in DOMAIN done : FALSE
    BY <1>2, <1>4 DEF DoneTracks
  <2> QED
    BY <1>1, <1>3, <2>1 DEF DoneTracks
<1>9. RunningHasNoResult'
  BY <1>1, <1>2, <1>4 DEF RunningHasNoResult
<1>10. NeedsSucceeded'
  <2>1. \A n \in Jobs : results[n].status = "success" => results'[n] = results[n]
    BY <1>1 DEF Unresulted, Resulted, NoResult, Result
  <2>2. \A j \in Jobs : \A n \in NeedSet(needs, j) : n \in Jobs
    BY <1>2, NeedsShape, NeedsListFinite DEF TypeOK, NeedSet
  <2> QED
    BY <1>1, <1>2, <2>1, <2>2 DEF NeedsSucceeded
<1> QED
  BY <1>5, <1>7, <1>8, <1>9, <1>10 DEF IInv, Accounting

LEMMA FinishedIInv ==
  ASSUME NEW j \in Jobs
  PROVE  IInv /\ Finished(j) => IInv'
<1> SUFFICES ASSUME IInv, NEW outcome \in Outcomes, Complete(j, outcome) PROVE IInv'
  BY DEF Finished
<1>1. /\ worker[j] = "running"
      /\ done' = Append(done, [job |-> j, outcome |-> outcome])
      /\ worker' = [worker EXCEPT ![j] = "sent"]
      /\ UNCHANGED <<needs, maxParallel, indeg, ready, inFlight, sem, results,
                     infraErr, ctxDone, pc, skipCalls>>
  BY DEF Complete
<1>2. TypeOK /\ DoneTracks /\ RunningHasNoResult /\ NeedsSucceeded
      /\ SlotsCounted /\ FlightCounted /\ CountersExact /\ Drained
  BY DEF IInv, Accounting
<1>3. worker'[j] = "sent" /\ \A k \in Jobs : k # j => worker'[k] = worker[k]
  BY <1>1, <1>2 DEF TypeOK
<1>4. Unresulted' = Unresulted /\ Resulted' = Resulted /\ Unresulted \subseteq Jobs
  BY <1>1 DEF Unresulted, Resulted
<1>5. j \in Unresulted
  BY <1>1, <1>2 DEF RunningHasNoResult
<1>6. TypeOK'
  BY <1>1, <1>2, MaxFixed DEF TypeOK
<1>7. InFlightJobs' = InFlightJobs /\ SlotHolders' = SlotHolders
  BY <1>1, <1>3, <1>4 DEF InFlightJobs, SlotHolders
<1>8. SlotsCounted' /\ FlightCounted' /\ Drained'
  BY <1>1, <1>2, <1>7 DEF SlotsCounted, FlightCounted, Drained
<1>9. CountersExact'
  <2>1. \A k \in Jobs : Unmet(k)' = Unmet(k)
    BY <1>1, <1>4 DEF Unmet
  <2>2. \A k \in Jobs : worker'[k] = "idle" <=> worker[k] = "idle"
    BY <1>1, <1>3
  <2> QED
    BY <1>1, <1>2, <1>4, <2>1, <2>2 DEF CountersExact
<1>10. DoneTracks'
  <2> DEFINE c == [job |-> j, outcome |-> outcome]
  <2>1. done \in Seq([job : Jobs, outcome : Outcomes]) /\ c \in [job : Jobs, outcome : Outcomes]
    BY <1>2 DEF TypeOK
  <2>2. /\ Len(done) \in Nat /\ DOMAIN done = 1..Len(done)
        /\ DOMAIN done' = 1..(Len(done) + 1)
        /\ done'[Len(done) + 1].job = j
        /\ \A i \in 1..Len(done) : done'[i] = done[i]
    BY <1>1, <2>1
  <2>3. \A i \in DOMAIN done : done[i].job # j
    BY <1>1, <1>2, <1>5 DEF DoneTracks
  <2>4. \A i \in DOMAIN done' : done'[i].job \in Unresulted
    BY <1>2, <1>5, <2>2 DEF DoneTracks
  <2>5. \A i, k \in DOMAIN done' : done'[i].job = done'[k].job => i = k
    BY <1>2, <2>2, <2>3 DEF DoneTracks
  <2>6. ASSUME NEW k \in Unresulted
        PROVE  worker'[k] \in {"sent", "exited"} <=> \E i \in DOMAIN done' : done'[i].job = k
    <3>1. CASE k = j
      BY <1>3, <2>2, <3>1
    <3>2. CASE k # j
      <4>1. worker'[k] = worker[k]
        BY <1>3, <1>4, <3>2
      <4>2. worker[k] \in {"sent", "exited"} <=> \E i \in DOMAIN done : done[i].job = k
        BY <1>2 DEF DoneTracks
      <4>3. (\E i \in DOMAIN done : done[i].job = k) <=> \E i \in DOMAIN done' : done'[i].job = k
        BY <2>2, <3>2
      <4> QED
        BY <4>1, <4>2, <4>3
    <3> QED
      BY <3>1, <3>2
  <2> QED
    BY <1>4, <2>4, <2>5, <2>6 DEF DoneTracks
<1>11. RunningHasNoResult'
  BY <1>2, <1>3, <1>4 DEF RunningHasNoResult
<1>12. NeedsSucceeded'
  BY <1>1, <1>2, <1>3 DEF NeedsSucceeded
<1> QED
  BY <1>6, <1>8, <1>9, <1>10, <1>11, <1>12 DEF IInv, Accounting

LEMMA ReleaseIInv ==
  ASSUME NEW j \in Jobs
  PROVE  IInv /\ Release(j) => IInv'
<1> SUFFICES ASSUME IInv, Release(j) PROVE IInv'
  OBVIOUS
<1>1. /\ worker[j] = "sent"
      /\ sem' = sem - 1
      /\ worker' = [worker EXCEPT ![j] = "exited"]
      /\ UNCHANGED <<needs, maxParallel, indeg, ready, inFlight, done, results,
                     infraErr, ctxDone, pc, skipCalls>>
  BY DEF Release, HoldsSlot
<1>2. TypeOK /\ DoneTracks /\ RunningHasNoResult /\ NeedsSucceeded
      /\ SlotsCounted /\ FlightCounted /\ CountersExact /\ Drained
  BY DEF IInv, Accounting
<1>3. worker'[j] = "exited" /\ \A k \in Jobs : k # j => worker'[k] = worker[k]
  BY <1>1, <1>2 DEF TypeOK
<1>4. Unresulted' = Unresulted /\ Resulted' = Resulted /\ Unresulted \subseteq Jobs
  BY <1>1 DEF Unresulted, Resulted
<1>5. /\ InFlightJobs' = InFlightJobs
      /\ SlotHolders' = SlotHolders \ {j} /\ j \in SlotHolders
      /\ IsFiniteSet(SlotHolders)
  BY <1>1, <1>3, <1>4, JobSetFinite DEF InFlightJobs, SlotHolders
<1>6. SlotsCounted' /\ FlightCounted' /\ Drained' /\ sem' \in 0..Max
  <2>1. /\ Cardinality(SlotHolders \ {j}) = Cardinality(SlotHolders) - 1
        /\ IsFiniteSet(SlotHolders \ {j})
    BY <1>5, FS_RemoveElement
  <2>2. Cardinality(SlotHolders \ {j}) \in Nat
    BY <2>1, FS_CardinalityType
  <2>3. SlotsCounted' /\ FlightCounted' /\ Drained'
    BY <1>1, <1>2, <1>5, <2>1 DEF SlotsCounted, FlightCounted, Drained
  <2>4. sem' \in Nat /\ sem \in 0..Max /\ sem' = sem - 1
    BY <1>1, <1>2, <1>5, <2>1, <2>2 DEF SlotsCounted, TypeOK
  <2>5. sem' \in 0..Max
    BY <1>2, <2>4, MaxPositive DEF TypeOK
  <2> QED
    BY <2>3, <2>5
<1>7. TypeOK'
  BY <1>1, <1>2, <1>6, MaxFixed DEF TypeOK
<1>8. CountersExact'
  <2>1. \A k \in Jobs : Unmet(k)' = Unmet(k)
    BY <1>1, <1>4 DEF Unmet
  <2>2. \A k \in Jobs : worker'[k] = "idle" <=> worker[k] = "idle"
    BY <1>1, <1>3
  <2> QED
    BY <1>1, <1>2, <1>4, <2>1, <2>2 DEF CountersExact
<1>9. DoneTracks'
  <2>1. \A k \in Jobs : worker'[k] \in {"sent", "exited"} <=> worker[k] \in {"sent", "exited"}
    BY <1>1, <1>3
  <2> QED
    BY <1>1, <1>2, <1>4, <2>1 DEF DoneTracks
<1>10. RunningHasNoResult' /\ NeedsSucceeded'
  BY <1>1, <1>2, <1>3, <1>4 DEF RunningHasNoResult, NeedsSucceeded
<1> QED
  BY <1>6, <1>7, <1>8, <1>9, <1>10 DEF IInv, Accounting

LEMMA StutterIInv == IInv /\ UNCHANGED vars => IInv'
BY MaxFixed DEF vars, IInv, TypeOK, Accounting, SlotsCounted, FlightCounted, DoneTracks,
       RunningHasNoResult, CountersExact, Drained, NeedsSucceeded, Resulted,
       Unresulted, InFlightJobs, SlotHolders, Unmet

LEMMA NextIInv == IInv /\ [Next]_vars => IInv'
<1> SUFFICES ASSUME IInv, [Next]_vars PROVE IInv'
  OBVIOUS
<1>1. CASE SkipNext
  BY <1>1, SkipNextIInv
<1>2. CASE LaunchNext
  BY <1>2, LaunchNextIInv
<1>3. CASE EndDispatch
  BY <1>3, EndDispatchIInv
<1>4. CASE Receive
  BY <1>4, ReceiveIInv
<1>5. CASE Backfill
  BY <1>5, BackfillIInv
<1>6. ASSUME NEW j \in Jobs, Finished(j) PROVE IInv'
  BY <1>6, FinishedIInv
<1>7. ASSUME NEW j \in Jobs, Release(j) PROVE IInv'
  BY <1>7, ReleaseIInv
<1>8. CASE UNCHANGED vars
  BY <1>8, StutterIInv
<1> QED
  BY <1>1, <1>2, <1>3, <1>4, <1>5, <1>6, <1>7, <1>8 DEF Next, Controller

LEMMA Invariance == Spec => []IInv
<1>1. Init => IInv
  BY InitIInv
<1>2. IInv /\ [Next]_vars => IInv'
  BY NextIInv
<1> QED
  BY <1>1, <1>2, PTL DEF Spec

----------------------------------------------------------------------------
(* What the inductive invariant gives. *)


\* The frame of a step that leaves a job's result alone and changes no result
\* that was recorded.
LEMMA ExplainedFrame ==
  ASSUME TypeOK, TypeOK', needs' = needs, NEW k \in Jobs, Explained(k),
         results'[k] = results[k], skipCalls'[k] = skipCalls[k],
         worker'[k] = "idle" <=> worker[k] = "idle",
         infraErr # NoJob => infraErr' # NoJob,
         \A n \in Resulted : results'[n] = results[n]
  PROVE  Explained(k)'
<1>1. needs \in [Jobs -> Seq(Jobs)]
  BY NeedsShape DEF TypeOK
<1>2. \A n \in NeedSet(needs, k) : n \in Jobs
  BY <1>1, NeedsListFinite DEF NeedSet
<1>3. NeedsSkip(k) => NeedsSkip(k)'
  BY <1>2 DEF NeedsSkip, Resulted, NoResult, Result, Statuses
<1> QED
  BY <1>3 DEF Explained

LEMMA InitBook == Init => Bookkeeping
<1> SUFFICES ASSUME Init PROVE Bookkeeping
  OBVIOUS
<1>1. \A j \in Jobs : results[j].why = "none" /\ skipCalls[j] = 0
  BY DEF Init, NoResult, Result
<1>2. pc = "dispatch"
  BY DEF Init
<1> QED
  BY <1>1, <1>2 DEF Bookkeeping, ControllerPlaces, Explained

LEMMA SkipNextBook == IInv /\ IInv' /\ Bookkeeping /\ SkipNext => Bookkeeping'
<1> SUFFICES ASSUME IInv, IInv', Bookkeeping, SkipNext PROVE Bookkeeping'
  OBVIOUS
<1>1. PICK j \in Jobs : j = Smallest(ready) /\ j \in Unresulted /\ worker[j] = "idle"
  BY HeadOfQueue DEF SkipNext
<1>2. /\ NeedsSkip(j)
      /\ results' = [results EXCEPT ![j] = Result("skipped", "need")]
      /\ skipCalls' = [skipCalls EXCEPT ![j] = @ + 1]
      /\ pc' = "dispatch"
      /\ UNCHANGED <<needs, maxParallel, inFlight, sem, done, infraErr,
                     ctxDone, worker>>
  BY <1>1 DEF SkipNext
<1>3. TypeOK /\ TypeOK'
  BY DEF IInv
<1>4. \A n \in Jobs : n # j => results'[n] = results[n] /\ skipCalls'[n] = skipCalls[n]
  BY <1>2, <1>3 DEF TypeOK
<1>5. results[j] = NoResult
  BY <1>1 DEF Unresulted, Resulted
<1>6. \A n \in Resulted : results'[n] = results[n]
  BY <1>4, <1>5 DEF Resulted
<1>7. ASSUME NEW k \in Jobs, k # j PROVE Explained(k)'
  BY <1>2, <1>3, <1>4, <1>6, <1>7, ExplainedFrame DEF Bookkeeping
<1>8. Explained(j)'
  <2>1. results'[j].why = "need" /\ worker'[j] = "idle"
    BY <1>1, <1>2, <1>3 DEF TypeOK, Result
  <2>2. skipCalls[j] = 0
    BY <1>1, <1>5 DEF Bookkeeping, Explained, NoResult, Result
  <2>3. skipCalls'[j] = 1
    BY <1>1, <1>2, <1>3, <2>2 DEF TypeOK
  <2>4. \A n \in NeedSet(needs, j) : n \in Jobs
    BY <1>1, <1>3, NeedsShape, NeedsListFinite DEF TypeOK, NeedSet
  <2>5. NeedsSkip(j)'
    BY <1>2, <1>6, <2>4 DEF NeedsSkip, Resulted, NoResult, Result, Statuses
  <2> QED
    BY <2>1, <2>3, <2>5 DEF Explained
<1> QED
  BY <1>2, <1>7, <1>8 DEF Bookkeeping, ControllerPlaces

\* Without a job in flight or an error, an empty queue means every job has its
\* result: the job of least rank without one would be in the queue.
LEMMA QueueEmptyMeansDone ==
  ASSUME IInv, pc = "dispatch", ~Dispatching, inFlight = 0, infraErr = NoJob
  PROVE  Resulted = Jobs
<1>1. needs \in [Jobs -> Seq(Jobs)] /\ Acyclic(needs) /\ TypeOK /\ CountersExact
  BY NeedsShape DEF IInv, TypeOK, Accounting
<1>2. ready = {}
  BY <1>1, MaxPositive DEF TypeOK, Dispatching
<1>3. InFlightJobs = {}
  <2>1. Cardinality(InFlightJobs) = 0
    BY DEF IInv, Accounting, FlightCounted
  <2>2. IsFiniteSet(InFlightJobs)
    BY JobSetFinite DEF InFlightJobs, Unresulted
  <2> QED
    BY <2>1, <2>2, FS_EmptySet
<1>4. ASSUME Unresulted # {} PROVE FALSE
  <2>1. PICK u \in Unresulted : \A n \in NeedSet(needs, u) : n \notin Unresulted
    <3>1. Unresulted \subseteq Jobs /\ IsFiniteSet(Jobs)
      BY JobsAssumption DEF Unresulted
    <3> QED
      BY <1>1, <1>4, <3>1, LeastRanked
  <2>2. Unmet(u) = {}
    BY <2>1 DEF Unmet, Entries, NeedSet
  <2>3. u \in Jobs /\ indeg[u] = 0
    BY <1>1, <2>2, FS_EmptySet DEF CountersExact, Unresulted
  <2>4. worker[u] = "idle"
    BY <1>3 DEF InFlightJobs
  <2>5. u \in ready
    BY <1>1, <2>3, <2>4 DEF CountersExact
  <2> QED
    BY <1>2, <2>5
<1> QED
  BY <1>4 DEF Unresulted, Resulted

LEMMA LaunchNextBook == IInv /\ IInv' /\ Bookkeeping /\ LaunchNext => Bookkeeping'
<1> SUFFICES ASSUME IInv, IInv', Bookkeeping, LaunchNext PROVE Bookkeeping'
  OBVIOUS
<1>1. PICK j \in Jobs : j = Smallest(ready) /\ j \in Unresulted /\ worker[j] = "idle"
  BY HeadOfQueue DEF LaunchNext
<1>2. /\ worker' = [worker EXCEPT ![j] = "running"]
      /\ pc' = "dispatch"
      /\ UNCHANGED <<needs, maxParallel, results, infraErr, skipCalls>>
  BY <1>1 DEF LaunchNext
<1>3. TypeOK /\ TypeOK'
  BY DEF IInv
<1>4. ASSUME NEW k \in Jobs, k # j PROVE Explained(k)'
  <2>1. worker'[k] = worker[k]
    BY <1>2, <1>3, <1>4 DEF TypeOK
  <2> QED
    BY <1>2, <1>3, <2>1, ExplainedFrame DEF Bookkeeping
<1>5. Explained(j)'
  BY <1>1, <1>2 DEF Bookkeeping, Explained, Unresulted, Resulted, NoResult, Result
<1> QED
  BY <1>2, <1>4, <1>5 DEF Bookkeeping, ControllerPlaces

LEMMA EndDispatchBook == IInv /\ IInv' /\ Bookkeeping /\ EndDispatch => Bookkeeping'
<1> SUFFICES ASSUME IInv, IInv', Bookkeeping, EndDispatch PROVE Bookkeeping'
  OBVIOUS
<1>1. /\ pc = "dispatch" /\ ~Dispatching
      /\ pc' = IF inFlight > 0 THEN "receive"
               ELSE IF infraErr # NoJob THEN "backfill" ELSE "returned"
      /\ UNCHANGED <<needs, maxParallel, ready, inFlight, results, infraErr,
                     worker, skipCalls>>
  BY DEF EndDispatch
<1>2. TypeOK /\ TypeOK'
  BY DEF IInv
<1>3. \A k \in Jobs : Explained(k)'
  BY <1>1, <1>2, ExplainedFrame DEF Bookkeeping
<1>4. pc' = "receive" => ~Dispatching' /\ inFlight' > 0
  BY <1>1, MaxFixed DEF Dispatching
<1>5. pc' = "backfill" => infraErr' # NoJob
  BY <1>1
<1>6. pc' = "returned" => Resulted' = Jobs
  <2>1. pc' = "returned" => inFlight = 0 /\ infraErr = NoJob
    BY <1>1, <1>2 DEF TypeOK
  <2>2. Resulted' = Resulted
    BY <1>1 DEF Resulted
  <2> QED
    BY <1>1, <2>1, <2>2, QueueEmptyMeansDone
<1> QED
  BY <1>3, <1>4, <1>5, <1>6 DEF Bookkeeping, ControllerPlaces

LEMMA ReceiveBook == IInv /\ IInv' /\ Bookkeeping /\ Receive => Bookkeeping'
<1> SUFFICES ASSUME IInv, IInv', Bookkeeping, Receive PROVE Bookkeeping'
  OBVIOUS
<1>1. PICK c \in [job : Jobs, outcome : Outcomes] :
        c = Head(done) /\ c.job \in Unresulted /\ worker[c.job] \in {"sent", "exited"}
  BY HeadOfDone DEF Receive
<1>2. /\ NoteError(c)
      /\ results' = [results EXCEPT ![c.job] = Recorded(c)]
      /\ pc' = "dispatch"
      /\ UNCHANGED <<needs, maxParallel, worker, skipCalls>>
  BY <1>1 DEF Receive
<1>3. TypeOK /\ TypeOK' /\ c.job \in Jobs
  BY <1>1 DEF IInv
<1>4. \A n \in Jobs : n # c.job => results'[n] = results[n]
  BY <1>2, <1>3 DEF TypeOK
<1>5. results[c.job] = NoResult
  BY <1>1 DEF Unresulted, Resulted
<1>6. \A n \in Resulted : results'[n] = results[n]
  BY <1>4, <1>5 DEF Resulted
<1>7. infraErr # NoJob => infraErr' # NoJob
  BY <1>2 DEF NoteError
<1>8. ASSUME NEW k \in Jobs, k # c.job PROVE Explained(k)'
  BY <1>2, <1>3, <1>4, <1>6, <1>7, <1>8, ExplainedFrame DEF Bookkeeping
<1>9. Explained(c.job)'
  <2>1. results'[c.job] = Recorded(c)
    BY <1>2, <1>3 DEF TypeOK
  <2>2. skipCalls'[c.job] = 0 /\ worker'[c.job] # "idle"
    BY <1>1, <1>2, <1>3, <1>5 DEF Bookkeeping, Explained, NoResult, Result
  <2>3. CASE c.outcome = "error"
    <3>1. infraErr' # NoJob
      BY <1>2, <1>3, <2>3, JobsAssumption DEF NoteError
    <3>2. results'[c.job].why = "infra"
      BY <2>1, <2>3 DEF Recorded, Result
    <3> QED
      BY <2>2, <3>1, <3>2 DEF Explained
  <2>4. CASE c.outcome # "error"
    <3>1. results'[c.job].why = "own"
      BY <2>1, <2>4 DEF Recorded, Result
    <3> QED
      BY <2>2, <3>1 DEF Explained
  <2> QED
    BY <2>3, <2>4
<1> QED
  BY <1>2, <1>8, <1>9 DEF Bookkeeping, ControllerPlaces

LEMMA BackfillBook == IInv /\ IInv' /\ Bookkeeping /\ Backfill => Bookkeeping'
<1> SUFFICES ASSUME IInv, IInv', Bookkeeping, Backfill PROVE Bookkeeping'
  OBVIOUS
<1>1. /\ results' = [j \in Jobs |-> IF j \in Unresulted
                                    THEN Result("skipped", "infra") ELSE results[j]]
      /\ skipCalls' = [j \in Jobs |-> skipCalls[j] + IF j \in Unresulted THEN 1 ELSE 0]
      /\ pc = "backfill" /\ pc' = "returned"
      /\ UNCHANGED <<needs, maxParallel, infraErr, worker>>
  BY DEF Backfill, Backfilled, Unresulted
<1>2. TypeOK /\ TypeOK' /\ infraErr # NoJob /\ InFlightJobs = {}
  BY <1>1 DEF IInv, Accounting, Drained, Bookkeeping, ControllerPlaces
<1>3. \A n \in Resulted : results'[n] = results[n] /\ skipCalls'[n] = skipCalls[n]
  BY <1>1, <1>2 DEF Resulted, Unresulted, TypeOK
<1>4. ASSUME NEW k \in Resulted PROVE Explained(k)'
  BY <1>1, <1>2, <1>3, <1>4, ExplainedFrame DEF Bookkeeping, Resulted
<1>5. ASSUME NEW k \in Unresulted PROVE Explained(k)'
  <2>1. k \in Jobs /\ worker'[k] = "idle" /\ results[k] = NoResult
    BY <1>1, <1>2 DEF InFlightJobs, Unresulted, Resulted
  <2>2. skipCalls'[k] = 1
    BY <1>1, <2>1 DEF Bookkeeping, Explained, NoResult, Result
  <2>3. results'[k].why = "infra"
    BY <1>1, <2>1 DEF Result
  <2> QED
    BY <1>1, <1>2, <2>1, <2>2, <2>3 DEF Explained
<1>6. Resulted' = Jobs
  BY <1>1 DEF Resulted, Unresulted, Result, NoResult
<1> QED
  BY <1>1, <1>4, <1>5, <1>6 DEF Bookkeeping, ControllerPlaces, Resulted, Unresulted

\* A goroutine's step touches no result, no skip and no place of the controller.
LEMMA WorkerBook ==
  ASSUME IInv, IInv', Bookkeeping, NEW j \in Jobs, Finished(j) \/ Release(j)
  PROVE  Bookkeeping'
<1>1. /\ UNCHANGED <<needs, maxParallel, ready, inFlight, results, infraErr, pc,
                skipCalls>>
      /\ \A k \in Jobs : worker'[k] = "idle" <=> worker[k] = "idle"
  BY DEF Finished, Complete, Release, HoldsSlot, IInv, TypeOK
<1>2. TypeOK /\ TypeOK'
  BY DEF IInv
<1>3. \A k \in Jobs : Explained(k)'
  BY <1>1, <1>2, ExplainedFrame DEF Bookkeeping
<1> QED
  BY <1>1, <1>3, MaxFixed DEF Bookkeeping, ControllerPlaces, Dispatching, Resulted

LEMMA StutterBook == Bookkeeping /\ UNCHANGED vars => Bookkeeping'
BY MaxFixed DEF vars, Bookkeeping, ControllerPlaces, Explained, Dispatching, Resulted, NeedsSkip

LEMMA NextBook == IInv /\ IInv' /\ Bookkeeping /\ [Next]_vars => Bookkeeping'
<1> SUFFICES ASSUME IInv, IInv', Bookkeeping, [Next]_vars PROVE Bookkeeping'
  OBVIOUS
<1>1. CASE SkipNext
  BY <1>1, SkipNextBook
<1>2. CASE LaunchNext
  BY <1>2, LaunchNextBook
<1>3. CASE EndDispatch
  BY <1>3, EndDispatchBook
<1>4. CASE Receive
  BY <1>4, ReceiveBook
<1>5. CASE Backfill
  BY <1>5, BackfillBook
<1>6. ASSUME NEW j \in Jobs, Finished(j) \/ Release(j) PROVE Bookkeeping'
  BY <1>6, WorkerBook
<1>7. CASE UNCHANGED vars
  BY <1>7, StutterBook
<1> QED
  BY <1>1, <1>2, <1>3, <1>4, <1>5, <1>6, <1>7 DEF Next, Controller

\* The counters, the channel and the queue mean what Accounting says.
THEOREM AccountingHolds == Spec => []Accounting
<1>1. IInv => Accounting
  BY DEF IInv
<1> QED
  BY <1>1, Invariance, PTL

\* Types.
THEOREM TypeCorrect == Spec => []TypeOK
<1>1. IInv => TypeOK
  BY DEF IInv
<1> QED
  BY <1>1, Invariance, PTL

\* No job is ever started before each of its needs has succeeded.
THEOREM StartsAfterNeeds == Spec => []NeedsSucceeded
<1>1. IInv => NeedsSucceeded
  BY DEF IInv
<1> QED
  BY <1>1, Invariance, PTL

\* Every result is explained, at every moment.
THEOREM BookkeepingHolds == Spec => []Bookkeeping
<1>1. Init => Bookkeeping
  BY InitBook
<1>2. IInv /\ IInv' /\ Bookkeeping /\ [Next]_vars => Bookkeeping'
  BY NextBook
<1> QED
  BY <1>1, <1>2, Invariance, PTL DEF Spec

\* A launch never waits for a running job to end: when the semaphore is full
\* although fewer than Max jobs are in flight, a received job still holds a slot.
THEOREM SlotWaits == Spec => []SlotWaitIsBrief
<1>1. ASSUME IInv PROVE SlotWaitIsBrief
  <2> SUFFICES ASSUME pc = "dispatch", Dispatching, sem = Max
               PROVE  \E j \in Jobs : worker[j] = "sent" /\ results[j] # NoResult
    BY DEF SlotWaitIsBrief
  <2>1. /\ sem = Cardinality(SlotHolders) /\ inFlight = Cardinality(InFlightJobs)
        /\ inFlight < sem
        /\ RunningHasNoResult /\ TypeOK
    BY <1>1 DEF IInv, Accounting, SlotsCounted, FlightCounted, Dispatching
  <2>2. IsFiniteSet(InFlightJobs)
    BY JobSetFinite DEF InFlightJobs, Unresulted
  <2>3. ~ (SlotHolders \subseteq InFlightJobs)
    <3>1. SlotHolders \subseteq InFlightJobs => Cardinality(SlotHolders) <= Cardinality(InFlightJobs)
      BY <2>2, FS_Subset
    <3>2. Cardinality(SlotHolders) \in Nat /\ Cardinality(InFlightJobs) \in Nat
      BY JobSetFinite DEF SlotHolders, InFlightJobs, Unresulted
    <3> QED
      BY <2>1, <3>1, <3>2
  <2>4. PICK j \in SlotHolders : j \notin InFlightJobs
    BY <2>3
  <2> QED
    BY <2>1, <2>4 DEF SlotHolders, InFlightJobs, Unresulted, Resulted, RunningHasNoResult
<1> QED
  BY <1>1, Invariance, PTL

\* At most Max goroutines are inside RunJob.
THEOREM BoundedConcurrency == Spec => []ConcurrencyBound
<1>1. ASSUME IInv PROVE ConcurrencyBound
  <2> DEFINE R == {j \in Jobs : worker[j] = "running"}
  <2>1. R \subseteq SlotHolders /\ IsFiniteSet(SlotHolders)
    BY JobSetFinite DEF SlotHolders
  <2>2. Cardinality(R) <= Cardinality(SlotHolders)
    BY <2>1, FS_Subset
  <2>3. Cardinality(SlotHolders) <= Max
    BY <1>1, MaxPositive DEF IInv, TypeOK, Accounting, SlotsCounted
  <2>4. Cardinality(R) \in Nat /\ Cardinality(SlotHolders) \in Nat
    BY JobSetFinite DEF SlotHolders
  <2> QED
    BY <1>1, <2>2, <2>3, <2>4, MaxPositive DEF IInv, TypeOK, ConcurrencyBound
<1> QED
  BY <1>1, Invariance, PTL

\* No eligible job is left waiting while a slot is free.
THEOREM WorkConserved == Spec => []NoEligibleJobWaits
<1>1. ASSUME IInv, Bookkeeping PROVE NoEligibleJobWaits
  <2> SUFFICES ASSUME pc = "receive", infraErr = NoJob, inFlight < Max,
                      NEW j \in Jobs, worker[j] = "idle",
                      \A n \in NeedSet(needs, j) : results[n].status = "success"
               PROVE  FALSE
    BY DEF NoEligibleJobWaits
  <2>1. ready = {} /\ TypeOK /\ CountersExact /\ Explained(j)
    BY <1>1 DEF Bookkeeping, ControllerPlaces, Dispatching, IInv, Accounting
  <2>2. Unmet(j) = {}
    BY DEF Unmet, Entries, NeedSet, Unresulted, Resulted, NoResult, Result
  <2>3. indeg[j] = 0
    BY <2>1, <2>2, FS_EmptySet DEF CountersExact
  <2>4. j \in Resulted
    BY <2>1, <2>3 DEF CountersExact, Unresulted
  <2>5. results[j].why = "need" \/ results[j].why = "own" \/ results[j].why = "infra"
    BY <2>1, <2>4 DEF Resulted, TypeOK
  <2>6. NeedsSkip(j)
    BY <2>1, <2>5 DEF Explained
  <2> QED
    BY <2>6 DEF NeedsSkip, Statuses
<1> QED
  BY <1>1, Invariance, BookkeepingHolds, PTL

\* Run returns with every job's result, and after the drain.
THEOREM ReturnsComplete == Spec => []ReturnedComplete
<1>1. ASSUME IInv, Bookkeeping PROVE ReturnedComplete
  <2> SUFFICES ASSUME pc = "returned" PROVE /\ Resulted = Jobs
                                            /\ done = <<>>
                                            /\ \A j \in Jobs : worker[j] # "running"
    BY DEF ReturnedComplete
  <2>1. Resulted = Jobs /\ Unresulted = {}
    BY <1>1 DEF Bookkeeping, ControllerPlaces, Unresulted
  <2>2. \A j \in Jobs : worker[j] # "running"
    BY <1>1, <2>1 DEF IInv, Accounting, RunningHasNoResult
  <2>3. DOMAIN done = {}
    BY <1>1, <2>1 DEF IInv, Accounting, DoneTracks
  <2>4. done = <<>>
    BY <1>1, <2>3 DEF IInv, TypeOK
  <2> QED
    BY <2>1, <2>2, <2>4
<1> QED
  BY <1>1, Invariance, BookkeepingHolds, PTL

\* At return, exactly the jobs that never started were passed over, each for a
\* reason that holds, with one OnSkip call.
THEOREM SkipsExact == Spec => []SkipExact
<1>1. ASSUME IInv, Bookkeeping PROVE SkipExact
  <2> SUFFICES ASSUME pc = "returned", NEW j \in Jobs
               PROVE  /\ skipCalls[j] = (IF worker[j] = "idle" THEN 1 ELSE 0)
                      /\ results[j].why = "need" =>
                           \E n \in NeedSet(needs, j) : results[n].status # "success"
                      /\ results[j].why = "infra" => infraErr # NoJob
                      /\ infraErr = NoJob =>
                           (worker[j] = "idle" <=>
                              \E n \in NeedSet(needs, j) : results[n].status # "success")
    BY DEF SkipExact
  <2>1. Explained(j) /\ j \in Resulted /\ TypeOK /\ NeedsSucceeded
    BY <1>1 DEF Bookkeeping, ControllerPlaces, IInv
  <2>2. results[j].why \in {"own", "need", "infra"}
    BY <2>1 DEF Resulted, TypeOK
  <2>3. results[j].why = "need" =>
          \E n \in NeedSet(needs, j) : results[n].status # "success"
    BY <2>1 DEF Explained, NeedsSkip, Statuses
  <2>4. worker[j] # "idle" =>
          \A n \in NeedSet(needs, j) : results[n].status = "success"
    BY <2>1 DEF NeedsSucceeded
  <2> QED
    BY <2>1, <2>2, <2>3, <2>4 DEF Explained
<1> QED
  BY <1>1, Invariance, BookkeepingHolds, PTL

----------------------------------------------------------------------------
(* One job at a time. *)

\* The jobs taken up so far: launched, skipped, or already with a result.
TakenUp == Resulted \cup {j \in Jobs : worker[j] # "idle"}

\* With one slot nothing is in flight while the controller dispatches.
LEMMA SequentialHead ==
  ASSUME IInv, pc = "dispatch", Dispatching, Max = 1
  PROVE  /\ TakenUp = Resulted
         /\ ready = FreeAfter(needs, Resulted)
         /\ Resulted # Jobs
<1>1. TypeOK /\ CountersExact /\ FlightCounted
  BY DEF IInv, Accounting
<1>2. needs \in [Jobs -> Seq(Jobs)]
  BY <1>1, NeedsShape DEF TypeOK
<1>3. InFlightJobs = {}
  <2>1. IsFiniteSet(InFlightJobs)
    BY JobSetFinite DEF InFlightJobs, Unresulted
  <2>2. Cardinality(InFlightJobs) = 0
    BY <1>1 DEF TypeOK, FlightCounted, Dispatching
  <2> QED
    BY <2>1, <2>2, FS_EmptySet
<1>4. \A j \in Unresulted : worker[j] = "idle"
  BY <1>3 DEF InFlightJobs
<1>5. TakenUp = Resulted
  BY <1>4 DEF TakenUp, Unresulted, Resulted
<1>6. ASSUME NEW j \in Jobs
      PROVE  indeg[j] = 0 <=> NeedSet(needs, j) \subseteq Resulted
  <2>1. indeg[j] = Cardinality(Entries(needs, j, Unresulted))
    BY <1>1 DEF CountersExact, Unmet
  <2>2. indeg[j] = 0 <=> \A m \in NeedSet(needs, j) : m \notin Unresulted
    BY <1>2, <2>1, NoneLeft
  <2>3. NeedSet(needs, j) \subseteq Jobs
    BY <1>2, NeedsListFinite DEF NeedSet
  <2> QED
    BY <2>2, <2>3 DEF Unresulted
<1>7. ready = {j \in Unresulted : indeg[j] = 0}
  BY <1>1, <1>4 DEF CountersExact
<1>8. ready = FreeAfter(needs, Resulted)
  <2>1. DOMAIN needs = Jobs
    BY <1>2
  <2> QED
    BY <1>6, <1>7, <2>1 DEF FreeAfter, Unresulted
<1>9. ready # {} /\ ready \subseteq Jobs \ Resulted
  BY <1>7 DEF Dispatching, Unresulted
<1> QED
  BY <1>5, <1>8, <1>9

\* Taking up the head of the queue keeps the order.
LEMMA SequentialTake ==
  ASSUME IInv, pc = "dispatch", Dispatching, Max = 1, SequentialFollowsOrder,
         TakenUp' = TakenUp \cup {Smallest(ready)}, needs' = needs
  PROVE  TakenUp' = OrderPrefixes(needs)[Cardinality(TakenUp')]
<1> DEFINE j == Smallest(ready)
<1>1. /\ TakenUp = Resulted /\ ready = FreeAfter(needs, TakenUp)
  BY SequentialHead
<1>2. j \in Jobs /\ j \notin TakenUp
  BY <1>1, HeadOfQueue DEF Unresulted
<1>3. Take(needs, TakenUp) = TakenUp \cup {j}
  BY <1>1 DEF Take, Smallest
<1>4. TakenUp \subseteq Jobs /\ IsFiniteSet(Jobs) /\ DOMAIN needs = Jobs
  BY JobsAssumption, NeedsShape DEF TakenUp, Resulted, IInv, TypeOK
<1>5. TakenUp = OrderPrefixes(needs)[Cardinality(TakenUp)]
  BY DEF SequentialFollowsOrder, TakenUp
<1> HIDE DEF j
<1> DEFINE n == Cardinality(TakenUp)
<1>6. /\ Cardinality(TakenUp \cup {j}) = n + 1
      /\ n \in Nat /\ n < Cardinality(Jobs) /\ Cardinality(Jobs) \in Nat
  <2>1. IsFiniteSet(TakenUp)
    BY <1>4, FS_Subset
  <2>2. Cardinality(TakenUp \cup {j}) = n + 1
    BY <1>2, <2>1, FS_AddElement
  <2>3. n <= Cardinality(Jobs) /\ n # Cardinality(Jobs)
    BY <1>2, <1>4, FS_Subset
  <2>4. n \in Nat /\ Cardinality(Jobs) \in Nat
    BY <1>4, <2>1, FS_CardinalityType
  <2> QED
    BY <2>2, <2>3, <2>4
<1> HIDE DEF n
<1>7. n + 1 \in 1..Cardinality(DOMAIN needs) /\ (n + 1) - 1 = n
  BY <1>4, <1>6
<1>8. OrderPrefixes(needs)[n + 1] = Take(needs, OrderPrefixes(needs)[n])
  <2>1. IsFiniteSet(DOMAIN needs)
    BY <1>4
  <2> QED
    BY <1>7, <2>1, OrderPrefixesAre
<1>9. OrderPrefixes(needs)[n + 1] = TakenUp'
  BY <1>3, <1>5, <1>8 DEF j, n
<1> QED
  BY <1>6, <1>9 DEF j

\* What each step does to the jobs taken up: a skip and a launch take up the
\* head of the queue, every other step before the return takes up none.
LEMMA NextSequential ==
  IInv /\ IInv' /\ Bookkeeping /\ SequentialFollowsOrder /\ [Next]_vars
    => SequentialFollowsOrder'
<1> SUFFICES ASSUME IInv, IInv', Bookkeeping, SequentialFollowsOrder, [Next]_vars,
                    Max' = 1, pc' = "returned" => infraErr' = NoJob
             PROVE  TakenUp' = OrderPrefixes(needs')[Cardinality(TakenUp')]
  BY DEF SequentialFollowsOrder, TakenUp
<1>1. TypeOK /\ TypeOK'
  BY DEF IInv
<1>2. needs' = needs /\ maxParallel' = maxParallel
  BY DEF Next, Controller, SkipNext, LaunchNext, EndDispatch, Receive, Backfill,
         Finished, Complete, Release, vars
<1>3. Max = 1
  BY <1>2, MaxFixed
<1>4. ASSUME TakenUp' = TakenUp, pc # "returned" \/ infraErr = NoJob
      PROVE  TakenUp' = OrderPrefixes(needs')[Cardinality(TakenUp')]
  BY <1>2, <1>3, <1>4 DEF SequentialFollowsOrder, TakenUp
<1>5. CASE SkipNext
  <2> DEFINE j == Smallest(ready)
  <2>1. j \in Jobs /\ pc = "dispatch" /\ Dispatching
        /\ results' = [results EXCEPT ![j] = Result("skipped", "need")]
        /\ worker' = worker
    BY <1>5, HeadOfQueue DEF SkipNext
  <2>2. Result("skipped", "need") # NoResult
    BY DEF Result, NoResult
  <2> HIDE DEF j
  <2>3. Resulted' = Resulted \cup {j}
    BY <1>1, <2>1, <2>2, RecordResult
  <2>4. TakenUp' = TakenUp \cup {j}
    BY <2>1, <2>3 DEF TakenUp
  <2> QED
    BY <1>2, <1>3, <2>1, <2>4, SequentialTake DEF j
<1>6. CASE LaunchNext
  <2> DEFINE j == Smallest(ready)
  <2>1. j \in Jobs /\ pc = "dispatch" /\ Dispatching
        /\ results' = results
        /\ worker' = [worker EXCEPT ![j] = "running"]
    BY <1>6, HeadOfQueue DEF LaunchNext
  <2> HIDE DEF j
  <2>2. \A k \in Jobs : worker'[k] # "idle" <=> worker[k] # "idle" \/ k = j
    BY <1>1, <2>1 DEF TypeOK
  <2>3. TakenUp' = TakenUp \cup {j}
    BY <2>1, <2>2 DEF TakenUp, Resulted
  <2> QED
    BY <1>2, <1>3, <2>1, <2>3, SequentialTake DEF j
<1>7. CASE EndDispatch
  <2>1. TakenUp' = TakenUp /\ pc = "dispatch"
    BY <1>7 DEF EndDispatch, TakenUp, Resulted
  <2> QED
    BY <1>4, <2>1
<1>8. CASE Receive
  <2>1. PICK c \in [job : Jobs, outcome : Outcomes] :
          /\ worker[c.job] # "idle"
          /\ results' = [results EXCEPT ![c.job] = Recorded(c)]
    BY <1>8, HeadOfDone DEF Receive
  <2>2. Recorded(c) # NoResult
    BY DEF Recorded, Result, NoResult, Outcomes, Statuses
  <2>3. Resulted' = Resulted \cup {c.job} /\ c.job \in Jobs
    BY <1>1, <2>1, <2>2, RecordResult
  <2>4. worker' = worker /\ pc = "receive"
    BY <1>8 DEF Receive
  <2>5. TakenUp' = TakenUp
    BY <2>1, <2>3, <2>4 DEF TakenUp
  <2> QED
    BY <1>4, <2>4, <2>5
<1>9. CASE Backfill
  <2>1. infraErr # NoJob /\ infraErr' = infraErr /\ pc' = "returned"
    BY <1>9 DEF Backfill, Bookkeeping, ControllerPlaces
  <2> QED
    BY <2>1
<1>10. ASSUME NEW j \in Jobs, Finished(j) \/ Release(j)
       PROVE  TakenUp' = OrderPrefixes(needs')[Cardinality(TakenUp')]
  <2>1. UNCHANGED <<results, pc, infraErr>> /\ \A k \in Jobs : worker'[k] = "idle" <=> worker[k] = "idle"
    BY <1>1, <1>10 DEF Finished, Complete, Release, HoldsSlot, TypeOK
  <2>2. TakenUp' = TakenUp
    BY <2>1 DEF TakenUp, Resulted
  <2> QED
    BY <1>4, <2>1, <2>2
<1>11. CASE UNCHANGED vars
  <2>1. TakenUp' = TakenUp /\ pc' = pc /\ infraErr' = infraErr
    BY <1>11 DEF vars, TakenUp, Resulted
  <2> QED
    BY <1>4, <2>1
<1> QED
  BY <1>5, <1>6, <1>7, <1>8, <1>9, <1>10, <1>11 DEF Next, Controller

\* No job is taken up at first.
LEMMA InitSequential == Init => SequentialFollowsOrder
<1> SUFFICES ASSUME Init PROVE TakenUp = OrderPrefixes(needs)[Cardinality(TakenUp)]
  BY DEF SequentialFollowsOrder, TakenUp
<1>1. TakenUp = {}
  BY DEF Init, TakenUp, Resulted
<1>2. IsFiniteSet(DOMAIN needs)
  BY NeedsShape, JobsAssumption DEF Init
<1> QED
  BY <1>1, <1>2, OrderPrefixesAre, FS_EmptySet

\* With MaxParallel 1 the jobs are taken up in exactly the order
\* dag.Build computes, for every graph: the scheduler's counters and Kahn's
\* walk agree at every step, whatever fails or is skipped.
THEOREM SequentialOrder == Spec => []SequentialFollowsOrder
<1>1. Init => SequentialFollowsOrder
  BY InitSequential
<1>2. IInv /\ IInv' /\ Bookkeeping /\ SequentialFollowsOrder /\ [Next]_vars
        => SequentialFollowsOrder'
  BY NextSequential
<1> QED
  BY <1>1, <1>2, Invariance, BookkeepingHolds, PTL DEF Spec

----------------------------------------------------------------------------
(* The action properties. *)

\* What a step does to the recorded results and to the error.
LEMMA StepKeepsResults ==
  ASSUME IInv, [Next]_vars
  PROVE  /\ \A j \in Resulted : results'[j] = results[j]
         /\ infraErr # NoJob => infraErr' = infraErr
<1>1. TypeOK
  BY DEF IInv
<1>2. CASE SkipNext
  <2>1. PICK j \in Jobs : j = Smallest(ready) /\ j \in Unresulted
    BY <1>2, HeadOfQueue DEF SkipNext
  <2>2. results' = [results EXCEPT ![j] = Result("skipped", "need")] /\ infraErr' = infraErr
    BY <1>2, <2>1 DEF SkipNext
  <2> QED
    BY <1>1, <2>1, <2>2 DEF TypeOK, Unresulted, Resulted
<1>3. CASE Receive
  <2>1. PICK c \in [job : Jobs, outcome : Outcomes] : c = Head(done) /\ c.job \in Unresulted
    BY <1>3, HeadOfDone DEF Receive
  <2>2. results' = [results EXCEPT ![c.job] = Recorded(c)] /\ NoteError(c)
    BY <1>3, <2>1 DEF Receive
  <2>3. infraErr # NoJob => infraErr' = infraErr
    BY <2>2 DEF NoteError
  <2> QED
    BY <1>1, <2>1, <2>2, <2>3 DEF TypeOK, Unresulted, Resulted
<1>4. CASE Backfill
  BY <1>4 DEF Backfill, Backfilled, Resulted
<1>5. CASE LaunchNext \/ EndDispatch
  BY <1>5 DEF LaunchNext, EndDispatch
<1>6. ASSUME NEW j \in Jobs, Finished(j) \/ Release(j)
      PROVE  UNCHANGED <<results, infraErr>>
  BY <1>6 DEF Finished, Complete, Release
<1>7. CASE UNCHANGED vars
  BY <1>7 DEF vars
<1> QED
  BY <1>2, <1>3, <1>4, <1>5, <1>6, <1>7 DEF Next, Controller

\* A recorded result and the first infra error are never replaced.
THEOREM ResultsAreFinal == Spec => ResultsFinal
<1>1. ASSUME IInv, [Next]_vars
      PROVE  [/\ \A j \in Resulted : results'[j] = results[j]
              /\ infraErr # NoJob => infraErr' = infraErr]_vars
  BY <1>1, StepKeepsResults
<1> QED
  BY <1>1, Invariance, PTL DEF Spec, ResultsFinal

\* After an infra error no job is started any more.
THEOREM NothingStartsAfterError == Spec => NoLaunchAfterError
<1>1. ASSUME IInv, [Next]_vars
      PROVE  [infraErr # NoJob => \A j \in Jobs : worker[j] = "idle" => worker'[j] = "idle"]_vars
  <2> SUFFICES ASSUME infraErr # NoJob, NEW j \in Jobs, worker[j] = "idle"
               PROVE  worker'[j] = "idle"
    OBVIOUS
  <2>1. TypeOK
    BY <1>1 DEF IInv
  <2>2. CASE SkipNext \/ EndDispatch \/ Receive \/ Backfill \/ UNCHANGED vars
    BY <2>2 DEF SkipNext, EndDispatch, Receive, Backfill, vars
  <2>3. CASE LaunchNext
    BY <2>3 DEF LaunchNext, Dispatching
  <2>4. ASSUME NEW k \in Jobs, Finished(k) \/ Release(k) PROVE worker'[j] = "idle"
    BY <2>1, <2>4 DEF Finished, Complete, Release, HoldsSlot, TypeOK
  <2> QED
    BY <1>1, <2>2, <2>3, <2>4 DEF Next, Controller
<1> QED
  BY <1>1, Invariance, PTL DEF Spec, NoLaunchAfterError

----------------------------------------------------------------------------
(* The refinement. *)

\* The instance's copies of two operators are the operators themselves.
LEMMA SameNeedSet ==
  \A deps, j : Abstract!NeedSet(deps, j) = NeedSet(deps, j)
BY DEF Abstract!NeedSet, NeedSet

LEMMA SameCardinality ==
  \A S : Abstract!Cardinality(S) = Cardinality(S)
BY DEF Abstract!Cardinality, Cardinality

LEMMA PhaseAt ==
  ASSUME NEW j \in Jobs
  PROVE  Phase[j] = IF results[j] # NoResult THEN results[j].status
                    ELSE IF worker[j] = "idle" THEN "pending" ELSE "running"
BY DEF Phase

\* A step that changes the phase of one job.
LEMMA PhaseChange ==
  ASSUME NEW j \in Jobs, NEW s, Phase'[j] = s,
         \A k \in Jobs : k # j => /\ results'[k] = results[k]
                                  /\ worker'[k] = worker[k]
  PROVE  Phase' = [Phase EXCEPT ![j] = s]
BY DEF Phase

LEMMA PhaseSame ==
  ASSUME results' = results,
         \A k \in Jobs : worker'[k] = "idle" <=> worker[k] = "idle"
  PROVE  Phase' = Phase
BY DEF Phase

LEMMA RunningIsInFlight ==
  ASSUME TypeOK
  PROVE  Abstract!Running = InFlightJobs
BY PhaseAt DEF Abstract!Running, InFlightJobs, Unresulted, Resulted, TypeOK, Statuses

LEMMA InitRefines == Init => Abstract!Init
BY DEF Init, Abstract!Init, Phase

LEMMA SkipRefines ==
  ASSUME IInv, SkipNext
  PROVE  \E j \in Jobs : Abstract!PassOver(j)
<1>1. PICK j \in Jobs : j = Smallest(ready) /\ j \in Unresulted /\ worker[j] = "idle"
  BY HeadOfQueue DEF SkipNext
<1>2. /\ NeedsSkip(j)
      /\ results' = [results EXCEPT ![j] = Result("skipped", "need")]
      /\ pc = "dispatch" /\ pc' = "dispatch" /\ infraErr = NoJob
      /\ UNCHANGED <<needs, maxParallel, infraErr, worker>>
  BY <1>1 DEF SkipNext, Dispatching
<1>3. TypeOK /\ needs \in [Jobs -> Seq(Jobs)]
  BY NeedsShape DEF IInv, TypeOK
<1>4. Phase[j] = "pending" /\ j \in Abstract!Pending
  BY <1>1, PhaseAt DEF Abstract!Pending, Unresulted, Resulted
<1>5. \E n \in NeedSet(needs, j) : Phase[n] \in {"failed", "skipped"}
  <2>1. PICK n \in NeedSet(needs, j) : results[n].status \in {"failed", "skipped"}
    BY <1>2 DEF NeedsSkip, Statuses
  <2>2. n \in Jobs
    BY <1>3, NeedsListFinite DEF NeedSet
  <2>3. Phase[n] = results[n].status
    BY <2>1, <2>2, PhaseAt DEF NoResult, Result
  <2> QED
    BY <2>1, <2>3
<1>6. Phase' = [Phase EXCEPT ![j] = "skipped"]
  <2>1. results'[j].status = "skipped" /\ results'[j] # NoResult
    BY <1>2, <1>3 DEF TypeOK, Result, NoResult
  <2>2. Phase'[j] = "skipped"
    BY <2>1 DEF Phase
  <2>3. \A k \in Jobs : k # j => results'[k] = results[k] /\ worker'[k] = worker[k]
    BY <1>2, <1>3 DEF TypeOK
  <2> QED
    BY <2>2, <2>3, PhaseChange
<1>7. Abstract!PassOver(j)
  BY <1>2, <1>4, <1>5, <1>6, SameNeedSet, MaxFixed DEF Abstract!PassOver
<1> QED
  BY <1>7

LEMMA LaunchRefines ==
  ASSUME IInv, IInv', LaunchNext
  PROVE  \E j \in Jobs : Abstract!Start(j)
<1>1. PICK j \in Jobs : j = Smallest(ready) /\ j \in Unresulted /\ worker[j] = "idle"
  BY HeadOfQueue DEF LaunchNext
<1>2. /\ worker' = [worker EXCEPT ![j] = "running"]
      /\ pc = "dispatch" /\ pc' = "dispatch" /\ infraErr = NoJob /\ inFlight < Max
      /\ UNCHANGED <<needs, maxParallel, results, infraErr>>
  BY <1>1 DEF LaunchNext, Dispatching
<1>3. TypeOK /\ TypeOK' /\ needs \in [Jobs -> Seq(Jobs)]
  BY NeedsShape DEF IInv, TypeOK
<1>4. Phase[j] = "pending" /\ j \in Abstract!Pending
  BY <1>1, PhaseAt DEF Abstract!Pending, Unresulted, Resulted
<1>5. Cardinality(Abstract!Running) < Max
  BY <1>2, <1>3, RunningIsInFlight DEF IInv, Accounting, FlightCounted
<1>6. \A n \in NeedSet(needs, j) : Phase[n] = "success"
  <2>1. worker'[j] # "idle"
    BY <1>2, <1>3 DEF TypeOK
  <2>2. \A n \in NeedSet(needs, j) : results[n].status = "success"
    BY <1>2, <2>1 DEF IInv, NeedsSucceeded
  <2>3. \A n \in NeedSet(needs, j) : n \in Jobs
    BY <1>3, NeedsListFinite DEF NeedSet
  <2> QED
    BY <2>2, <2>3, PhaseAt DEF NoResult, Result
<1>7. Phase' = [Phase EXCEPT ![j] = "running"]
  <2>1. Phase'[j] = "running"
    BY <1>1, <1>2, <1>3 DEF Phase, TypeOK, Unresulted, Resulted
  <2>2. \A k \in Jobs : k # j => results'[k] = results[k] /\ worker'[k] = worker[k]
    BY <1>2, <1>3 DEF TypeOK
  <2> QED
    BY <2>1, <2>2, PhaseChange
<1>8. Abstract!Start(j)
  BY <1>2, <1>4, <1>5, <1>6, <1>7, SameNeedSet, SameCardinality, MaxFixed DEF Abstract!Start
<1> QED
  BY <1>8

LEMMA EndDispatchRefines ==
  ASSUME IInv, IInv', Bookkeeping', EndDispatch
  PROVE  Abstract!Return \/ UNCHANGED Abstract!vars
<1>1. /\ pc = "dispatch"
      /\ pc' = IF inFlight > 0 THEN "receive"
               ELSE IF infraErr # NoJob THEN "backfill" ELSE "returned"
      /\ UNCHANGED <<needs, maxParallel, results, infraErr, worker>>
  BY DEF EndDispatch
<1>2. Phase' = Phase
  BY <1>1, PhaseSame
<1>3. CASE pc' # "returned"
  BY <1>1, <1>2, <1>3, MaxFixed DEF Abstract!vars
<1>4. CASE pc' = "returned"
  <2>1. Resulted = Jobs
    BY <1>1, <1>4 DEF Bookkeeping, ControllerPlaces, Resulted
  <2>2. TypeOK
    BY DEF IInv
  <2>3. \A j \in Jobs : Phase[j] \in Statuses
    BY <2>1, <2>2, PhaseAt DEF Resulted, TypeOK
  <2>4. Abstract!Running = {} /\ Abstract!Pending = {}
    BY <2>3 DEF Abstract!Running, Abstract!Pending, Statuses
  <2>5. Phase = [j \in Jobs |-> IF j \in Abstract!Pending THEN "skipped" ELSE Phase[j]]
    BY <2>4 DEF Phase
  <2> QED
    BY <1>1, <1>2, <1>4, <2>4, <2>5, MaxFixed DEF Abstract!Return
<1> QED
  BY <1>3, <1>4

LEMMA ReceiveRefines ==
  ASSUME IInv, Receive
  PROVE  \E j \in Jobs : Abstract!Finish(j) \/ Abstract!Abort(j)
<1>1. PICK c \in [job : Jobs, outcome : Outcomes] :
        c = Head(done) /\ c.job \in Unresulted /\ worker[c.job] \in {"sent", "exited"}
  BY HeadOfDone DEF Receive
<1>2. /\ NoteError(c)
      /\ results' = [results EXCEPT ![c.job] = Recorded(c)]
      /\ pc = "receive" /\ pc' = "dispatch"
      /\ UNCHANGED <<needs, maxParallel, worker>>
  BY <1>1 DEF Receive
<1>3. TypeOK /\ c.job \in Jobs
  BY <1>1 DEF IInv
<1>4. c.job \in Abstract!Running
  BY <1>1, <1>3, RunningIsInFlight DEF InFlightJobs
<1>5. Recorded(c).status \in Statuses
  BY <1>1 DEF Recorded, Result, Outcomes, Statuses
<1>6. Phase' = [Phase EXCEPT ![c.job] = Recorded(c).status]
  <2>1. results'[c.job] = Recorded(c)
    BY <1>2, <1>3 DEF TypeOK
  <2>2. Recorded(c) # NoResult
    BY <1>5 DEF NoResult, Result, Statuses
  <2>3. Phase'[c.job] = Recorded(c).status
    BY <1>3, <2>1, <2>2 DEF Phase
  <2>4. \A k \in Jobs : k # c.job => results'[k] = results[k] /\ worker'[k] = worker[k]
    BY <1>2, <1>3 DEF TypeOK
  <2> QED
    BY <1>3, <2>3, <2>4, PhaseChange
<1>7. CASE c.outcome = "error"
  <2>1. infraErr' # NoJob
    BY <1>2, <1>3, <1>7, JobsAssumption DEF NoteError
  <2>2. Recorded(c).status = "skipped"
    BY <1>7 DEF Recorded, Result
  <2>3. Abstract!Abort(c.job)
    BY <1>2, <1>4, <1>6, <2>1, <2>2, MaxFixed DEF Abstract!Abort
  <2> QED
    BY <1>3, <2>3
<1>8. CASE c.outcome # "error"
  <2>1. infraErr' = infraErr
    BY <1>2, <1>8 DEF NoteError
  <2>2. Abstract!Finish(c.job)
    BY <1>2, <1>4, <1>5, <1>6, <2>1, MaxFixed DEF Abstract!Finish, Abstract!Final, Statuses
  <2> QED
    BY <1>3, <2>2
<1> QED
  BY <1>7, <1>8

LEMMA BackfillRefines ==
  ASSUME IInv, Bookkeeping, Backfill
  PROVE  Abstract!Return
<1>1. /\ results' = [j \in Jobs |-> IF j \in Unresulted
                                    THEN Result("skipped", "infra") ELSE results[j]]
      /\ pc = "backfill" /\ pc' = "returned"
      /\ UNCHANGED <<needs, maxParallel, infraErr, worker>>
  BY DEF Backfill, Backfilled, Unresulted
<1>2. TypeOK /\ infraErr # NoJob /\ InFlightJobs = {}
  BY <1>1 DEF IInv, Accounting, Drained, Bookkeeping, ControllerPlaces
<1>3. Abstract!Running = {}
  BY <1>2, RunningIsInFlight
<1>4. \A j \in Jobs : j \in Abstract!Pending <=> j \in Unresulted
  BY <1>2, PhaseAt DEF Abstract!Pending, InFlightJobs, Unresulted, Resulted, TypeOK, Statuses
<1>5. ASSUME NEW j \in Jobs
      PROVE  Phase'[j] = IF j \in Abstract!Pending THEN "skipped" ELSE Phase[j]
  BY <1>1, <1>4 DEF Phase, Unresulted, Resulted, Result, NoResult
<1>6. Phase' = [j \in Jobs |-> IF j \in Abstract!Pending THEN "skipped" ELSE Phase[j]]
  BY <1>5 DEF Phase
<1> QED
  BY <1>1, <1>2, <1>3, <1>6, MaxFixed DEF Abstract!Return

\* Run implements the abstract run, for every graph, bound and outcome.
THEOREM Refinement == Spec => ImplementsJobRun
<1>1. Init => Abstract!Init
  BY InitRefines
<1>2. ASSUME IInv, IInv', Bookkeeping, Bookkeeping', [Next]_vars
      PROVE  [Abstract!Next]_(Abstract!vars)
  <2>1. CASE SkipNext
    BY <1>2, <2>1, SkipRefines DEF Abstract!Next
  <2>2. CASE LaunchNext
    BY <1>2, <2>2, LaunchRefines DEF Abstract!Next
  <2>3. CASE EndDispatch
    BY <1>2, <2>3, EndDispatchRefines DEF Abstract!Next
  <2>4. CASE Receive
    BY <1>2, <2>4, ReceiveRefines DEF Abstract!Next
  <2>5. CASE Backfill
    BY <1>2, <2>5, BackfillRefines DEF Abstract!Next
  <2>6. ASSUME NEW j \in Jobs, Finished(j) \/ Release(j) PROVE UNCHANGED Abstract!vars
    <3>1. /\ UNCHANGED <<needs, maxParallel, results, infraErr, pc>>
          /\ \A k \in Jobs : worker'[k] = "idle" <=> worker[k] = "idle"
      BY <1>2, <2>6 DEF Finished, Complete, Release, HoldsSlot, IInv, TypeOK
    <3> QED
      BY <3>1, PhaseSame, MaxFixed DEF Abstract!vars
  <2>7. CASE UNCHANGED vars
    BY <2>7, PhaseSame, MaxFixed DEF vars, Abstract!vars
  <2> QED
    BY <1>2, <2>1, <2>2, <2>3, <2>4, <2>5, <2>6, <2>7 DEF Next, Controller
<1> QED
  BY <1>1, <1>2, Invariance, BookkeepingHolds, PTL DEF Spec, ImplementsJobRun, Abstract!Spec
=============================================================================
