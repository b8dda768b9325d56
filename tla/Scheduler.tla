----------------------------- MODULE Scheduler -----------------------------
(***************************************************************************)
(* internal/scheduler: Run, its controller goroutine and the goroutine it  *)
(* starts for each job, at the granularity of their channel operations.    *)
(*                                                                         *)
(* The controller is at one of four places (pc): in the dispatch loop,     *)
(* blocked in `c := <-done`, in the backfill loop, or returned.  A job's   *)
(* goroutine (worker) is running RunJob, has sent its completion but still *)
(* holds its semaphore slot, or has exited.  What RunJob does is a         *)
(* nondeterministic outcome; graph and bound are chosen once, in Init. The *)
(* parent context is context.Background() (engine.go:105), so only the     *)
(* scheduler itself cancels the one it derives.                            *)
(***************************************************************************)
EXTENDS JobGraph

CONSTANTS
  Jobs,          \* job IDs, numbered in alphabetical order
  NeedsChoices,  \* the acyclic dependency maps a run may be given
  MaxChoices,    \* the values of Options.MaxParallel it may be given
  NoJob          \* infraErr = nil

ASSUME JobsAssumption == Jobs \subseteq Nat /\ IsFiniteSet(Jobs) /\ NoJob \notin Jobs

\* dag.Build refuses every other map before the scheduler sees it.
ASSUME NeedsAssumption ==
  \A deps \in NeedsChoices : deps \in [Jobs -> Seq(Jobs)] /\ Acyclic(deps)

ASSUME MaxAssumption == MaxChoices \subseteq Int

VARIABLES
  needs,      \* g.Needs (never written)
  maxParallel,  \* Options.MaxParallel (never written)
  indeg,      \* working copy of g.Indegree
  ready,      \* the jobs waiting to be dispatched (kept sorted by the code)
  inFlight,   \* launched, completion not received yet
  sem,        \* slots taken in the semaphore channel
  done,       \* the completion channel
  results,    \* job -> status and why
  infraErr,   \* the job whose error aborted the run
  ctxDone,    \* the context handed to RunJob is cancelled
  pc,         \* where the controller is
  worker,     \* where each job's goroutine is
  skipCalls   \* how often OnSkip was called for each job

vars == <<needs, maxParallel, indeg, ready, inFlight, sem, done, results,
          infraErr, ctxDone, pc, worker, skipCalls>>

Max == IF maxParallel < 1 THEN 1 ELSE maxParallel

DoneCap == Cardinality(Jobs)

Statuses == {"success", "failed", "skipped"}
Outcomes == Statuses \cup {"error"}

\* why: the job's own RunJob call, an unsuccessful need, or an infra error.
Result(status, why) == [status |-> status, why |-> why]
NoResult == Result("none", "none")
Resulted == {j \in Jobs : results[j] # NoResult}

Init ==
  /\ needs \in NeedsChoices
  /\ maxParallel \in MaxChoices
  /\ indeg = Indegree(needs)
  /\ ready = {j \in Jobs : indeg[j] = 0}
  /\ inFlight = 0
  /\ sem = 0
  /\ done = <<>>
  /\ results = [j \in Jobs |-> NoResult]
  /\ infraErr = NoJob
  /\ ctxDone = FALSE
  /\ pc = "dispatch"
  /\ worker = [j \in Jobs |-> "idle"]
  /\ skipCalls = [j \in Jobs |-> 0]

----------------------------------------------------------------------------
(* The controller. *)

\* Seeded faults: the loop without its in-flight check, and with one slot left
\* unused.
DispatchingUncounted == ready # {} /\ infraErr = NoJob
DispatchingOneShort ==
  ready # {} /\ (inFlight < Max - 1 \/ inFlight = 0) /\ infraErr = NoJob

\* The condition of the dispatch loop.
Dispatching == ready # {} /\ inFlight < Max /\ infraErr = NoJob

\* A need that was itself skipped is overlooked (seeded fault).
NeedsSkipFailedOnly(j) == \E n \in NeedSet(needs, j) : results[n].status = "failed"

\* needsSkip: a need with a result other than success.
NeedsSkip(j) ==
  \E n \in NeedSet(needs, j) : results[n].status \in Statuses \ {"success"}

\* advance: decrement each dependents entry, queue what reaches zero.
Advance(c, waiting) ==
  /\ indeg' = Lowered(needs, indeg, c)
  /\ ready' = waiting \cup Freed(needs, indeg, c)

SkipNext ==
  /\ pc = "dispatch" /\ Dispatching
  /\ LET j == Smallest(ready)
     IN  /\ NeedsSkip(j)
         /\ results' = [results EXCEPT ![j] = Result("skipped", "need")]
         /\ skipCalls' = [skipCalls EXCEPT ![j] = @ + 1]
         /\ Advance(j, ready \ {j})
  /\ UNCHANGED <<needs, maxParallel, inFlight, sem, done, infraErr, ctxDone,
                 pc, worker>>

\* `sem <- struct{}{}` blocks while every slot is taken.
LaunchNext ==
  /\ pc = "dispatch" /\ Dispatching
  /\ sem < Max
  /\ LET j == Smallest(ready)
     IN  /\ ~NeedsSkip(j)
         /\ ready' = ready \ {j}
         /\ worker' = [worker EXCEPT ![j] = "running"]
  /\ sem' = sem + 1
  /\ inFlight' = inFlight + 1
  /\ UNCHANGED <<needs, maxParallel, indeg, done, results, infraErr, ctxDone,
                 pc, skipCalls>>

EndDispatch ==
  /\ pc = "dispatch" /\ ~Dispatching
  /\ pc' = IF inFlight > 0 THEN "receive"
           ELSE IF infraErr # NoJob THEN "backfill" ELSE "returned"
  /\ ctxDone' = (ctxDone \/ pc' = "returned")     \* defer cancel()
  /\ UNCHANGED <<needs, maxParallel, indeg, ready, inFlight, sem, done,
                 results, infraErr, worker, skipCalls>>

\* An error recorded as a failure (seeded fault).
RecordedAsFailure(c) ==
  Result(IF c.outcome = "error" THEN "failed" ELSE c.outcome, "own")

\* A completion's result: an error is recorded as a skip.
Recorded(c) == IF c.outcome = "error" THEN Result("skipped", "infra")
               ELSE Result(c.outcome, "own")

\* The others are not cancelled (seeded fault).
NoteErrorNoCancel(c) ==
  /\ infraErr' = IF c.outcome = "error" /\ infraErr = NoJob THEN c.job ELSE infraErr
  /\ UNCHANGED ctxDone

\* infraErr and cancel(): only the first error counts.
NoteError(c) ==
  IF c.outcome = "error" /\ infraErr = NoJob
  THEN infraErr' = c.job /\ ctxDone' = TRUE
  ELSE UNCHANGED <<infraErr, ctxDone>>

Receive ==
  /\ pc = "receive"
  /\ done # <<>>
  /\ LET c == Head(done)
     IN  /\ done' = Tail(done)
         /\ NoteError(c)
         /\ results' = [results EXCEPT ![c.job] = Recorded(c)]
         /\ Advance(c.job, ready)
  /\ inFlight' = inFlight - 1
  /\ pc' = "dispatch"
  /\ UNCHANGED <<needs, maxParallel, sem, worker, skipCalls>>

\* Only the queued jobs (seeded fault).
BackfilledQueued == ready

\* Jobs without a result when the drain is over.
Backfilled == Jobs \ Resulted

Backfill ==
  /\ pc = "backfill"
  /\ results' = [j \in Jobs |-> IF j \in Backfilled
                                THEN Result("skipped", "infra") ELSE results[j]]
  /\ skipCalls' = [j \in Jobs |-> skipCalls[j] + IF j \in Backfilled THEN 1 ELSE 0]
  /\ pc' = "returned"
  /\ UNCHANGED <<needs, maxParallel, indeg, ready, inFlight, sem, done,
                 infraErr, ctxDone, worker>>

----------------------------------------------------------------------------
(* A job's goroutine. *)

\* RunJob returns, and its completion is sent on done.
Complete(j, outcome) ==
  /\ worker[j] = "running"
  /\ Len(done) < DoneCap
  /\ done' = Append(done, [job |-> j, outcome |-> outcome])
  /\ worker' = [worker EXCEPT ![j] = "sent"]
  /\ UNCHANGED <<needs, maxParallel, indeg, ready, inFlight, sem, results,
                 infraErr, ctxDone, pc, skipCalls>>

\* Seeded faults: the slot is given back twice; not at all after a failure.
HoldsSlotAgain(j) == worker[j] \in {"sent", "exited"}
HoldsSlotUnlessFailed(j) ==
  worker[j] = "sent" /\ results[j].status \in {"none", "success"}

HoldsSlot(j) == worker[j] = "sent"

\* The deferred `<-sem`: after the send, so after the controller may have
\* received the completion.
Release(j) ==
  /\ HoldsSlot(j)
  /\ sem' = sem - 1
  /\ worker' = [worker EXCEPT ![j] = "exited"]
  /\ UNCHANGED <<needs, maxParallel, indeg, ready, inFlight, done, results,
                 infraErr, ctxDone, pc, skipCalls>>

Controller == SkipNext \/ LaunchNext \/ EndDispatch \/ Receive \/ Backfill

Finished(j) == \E outcome \in Outcomes : Complete(j, outcome)

Next == \/ Controller
        \/ \E j \in Jobs : Finished(j) \/ Release(j)

Spec == Init /\ [][Next]_vars

\* The Go runtime schedules every goroutine that can run.  Whether RunJob
\* returns is up to the job, and a step may hang forever; but once its context
\* is cancelled it returns, for `docker exec` is killed with the context.
FairSpec ==
  /\ Spec
  /\ WF_vars(Controller)
  /\ \A j \in Jobs : WF_vars(Release(j)) /\ WF_vars(ctxDone /\ Finished(j))

----------------------------------------------------------------------------
(* Properties. *)

TypeOK ==
  /\ needs \in NeedsChoices
  /\ maxParallel \in MaxChoices
  /\ indeg \in [Jobs -> Int]
  /\ ready \subseteq Jobs
  /\ inFlight \in Nat
  /\ sem \in 0..Max
  /\ done \in Seq([job : Jobs, outcome : Outcomes])
  /\ results \in [Jobs -> [status : Statuses, why : {"own", "need", "infra"}]
                           \cup {NoResult}]
  /\ infraErr \in Jobs \cup {NoJob}
  /\ ctxDone \in BOOLEAN
  /\ pc \in {"dispatch", "receive", "backfill", "returned"}
  /\ worker \in [Jobs -> {"idle", "running", "sent", "exited"}]
  /\ skipCalls \in [Jobs -> Nat]

\* A job whose goroutine was started had every need succeed first, and those
\* results still stand: no interleaving of completions, skips and duplicate
\* needs lets a counter reach zero early.
NeedsSucceeded ==
  \A j \in Jobs : worker[j] # "idle" =>
    \A n \in NeedSet(needs, j) : results[n].status = "success"

\* When the controller blocks on a full semaphore it waits only for a goroutine
\* that already sent its completion: never for a running RunJob, so a finished
\* job's dependents are not held up by an unrelated long one.
SlotWaitIsBrief ==
  pc = "dispatch" /\ Dispatching /\ sem = Max =>
    \E j \in Jobs : worker[j] = "sent" /\ results[j] # NoResult

\* At most Max jobs are inside RunJob, counted by the goroutines themselves
\* rather than by inFlight or sem.
ConcurrencyBound == Cardinality({j \in Jobs : worker[j] = "running"}) <= Max

\* While the controller waits for a completion no slot is wasted: unless the
\* run was aborted or Max jobs are in flight, every job all of whose needs
\* succeeded has been launched.
NoEligibleJobWaits ==
  pc = "receive" /\ infraErr = NoJob /\ inFlight < Max =>
    \A j \in Jobs :
      (\A n \in NeedSet(needs, j) : results[n].status = "success") => worker[j] # "idle"

\* Run returns only after the drain: no goroutine is inside RunJob or still
\* has a completion to deliver, and every job of the graph has a result.
ReturnedComplete ==
  pc = "returned" =>
    /\ Resulted = Jobs
    /\ done = <<>>
    /\ \A j \in Jobs : worker[j] # "running"

\* When Run returns, a job was passed over exactly when it never started: the
\* reason is an unsuccessful need, or an aborted run; and OnSkip was called
\* once for each such job and for no other.
SkipExact ==
  pc = "returned" =>
    \A j \in Jobs :
      /\ skipCalls[j] = (IF worker[j] = "idle" THEN 1 ELSE 0)
      /\ results[j].why = "need" =>
           \E n \in NeedSet(needs, j) : results[n].status # "success"
      /\ results[j].why = "infra" => infraErr # NoJob
      /\ infraErr = NoJob =>
           (worker[j] = "idle" <=>
              \E n \in NeedSet(needs, j) : results[n].status # "success")

\* A result, once recorded, and the first infra error are never replaced, not
\* by a later completion, a later error or the backfill.
ResultsFinal ==
  [][/\ \A j \in Resulted : results'[j] = results[j]
     /\ infraErr # NoJob => infraErr' = infraErr]_vars

\* Once an infra error has been received no further job is started.
NoLaunchAfterError ==
  [][infraErr # NoJob => \A j \in Jobs : worker[j] = "idle" => worker'[j] = "idle"]_vars

\* One job at a time, the jobs are taken up in exactly the order dag.Build
\* computed, whatever fails or is skipped on the way: the counters the
\* scheduler keeps for itself and Kahn's walk agree at every step.
SequentialFollowsOrder ==
  Max = 1 /\ (pc = "returned" => infraErr = NoJob) =>
    LET taken == Resulted \cup {j \in Jobs : worker[j] # "idle"}
    IN  taken = OrderPrefixes(needs)[Cardinality(taken)]

\* If every RunJob returns, so does Run, with all slots given back.
RunReturns ==
  (\A j \in Jobs : WF_vars(Finished(j))) => <>[](pc = "returned" /\ sem = 0)

\* Run returns after an infra error even if the other jobs would hang: their
\* context is cancelled, the drain ends and the backfill is reached.
DrainReturns == infraErr # NoJob ~> pc = "returned"

\* The inductive strengthening of the safety properties above: what each
\* counter and queue stands for.

Unresulted == Jobs \ Resulted
InFlightJobs == {j \in Unresulted : worker[j] # "idle"}
SlotHolders == {j \in Jobs : worker[j] \in {"running", "sent"}}

\* The entries of j's needs list whose job has no result yet.
Unmet(j) == Entries(needs, j, Unresulted)

SlotsCounted == sem = Cardinality(SlotHolders)
FlightCounted == inFlight = Cardinality(InFlightJobs)

\* done holds exactly the completions that were sent and not yet received.
DoneTracks ==
  /\ \A i \in DOMAIN done : done[i].job \in Unresulted
  /\ \A i, k \in DOMAIN done : done[i].job = done[k].job => i = k
  /\ \A j \in Unresulted :
       worker[j] \in {"sent", "exited"} <=> \E i \in DOMAIN done : done[i].job = j

RunningHasNoResult == \A j \in Jobs : worker[j] = "running" => j \in Unresulted

\* Up to the backfill indeg counts the unmet entries, and ready holds the jobs
\* that have none and are neither launched nor skipped.
CountersExact ==
  pc # "returned" =>
    /\ \A j \in Jobs : indeg[j] = Cardinality(Unmet(j))
    /\ ready = {j \in Unresulted : worker[j] = "idle" /\ indeg[j] = 0}
    /\ \A j \in Jobs : j \in Resulted \/ worker[j] # "idle" => indeg[j] = 0

\* Nothing is in flight once the drain is over.
Drained == pc \in {"backfill", "returned"} => InFlightJobs = {}

Accounting == /\ SlotsCounted /\ FlightCounted /\ DoneTracks
              /\ RunningHasNoResult /\ CountersExact /\ Drained

\* Why each job has the result it has: at every moment, not only at the end.
Explained(j) ==
  /\ results[j].why = "none" => skipCalls[j] = 0
  /\ results[j].why = "own" => worker[j] # "idle" /\ skipCalls[j] = 0
  /\ results[j].why = "need" => /\ worker[j] = "idle" /\ skipCalls[j] = 1
                                /\ NeedsSkip(j)
  /\ results[j].why = "infra" =>
       /\ infraErr # NoJob
       /\ skipCalls[j] = IF worker[j] = "idle" THEN 1 ELSE 0

ControllerPlaces ==
  /\ pc = "receive" => ~Dispatching /\ inFlight > 0
  /\ pc = "backfill" => infraErr # NoJob
  /\ pc = "returned" => Resulted = Jobs

Bookkeeping == ControllerPlaces /\ \A j \in Jobs : Explained(j)

\* The abstract promise of Run: a job is running from its launch until the
\* controller has received its completion.
Phase == [j \in Jobs |-> IF results[j] # NoResult THEN results[j].status
                         ELSE IF worker[j] = "idle" THEN "pending" ELSE "running"]

Abstract == INSTANCE JobRun WITH
  slots <- Max,
  phase <- Phase, aborted <- (infraErr # NoJob), over <- (pc = "returned")

\* Run implements it: what the counters, channels and goroutines do is, step
\* by step, a start, a finish, a skip, an abort or a return.
ImplementsJobRun == Abstract!Spec
=============================================================================
