------------------------------- MODULE JobRun -------------------------------
(***************************************************************************)
(* What scheduler.Run promises its caller (scheduler.go:53-61), without    *)
(* goroutines, channels or counters: each job moves from pending to        *)
(* running to one final status; it starts only when all its needs          *)
(* succeeded and a slot is free; it is passed over only because a need did *)
(* not succeed or because the run was aborted; and the run is over only    *)
(* when every job has a status.                                            *)
(***************************************************************************)
EXTENDS JobGraph

CONSTANTS Jobs

VARIABLES
  needs, slots,   \* the graph and the bound on running jobs: never written
  phase, aborted, over

vars == <<needs, slots, phase, aborted, over>>

Final == {"success", "failed", "skipped"}

Running == {j \in Jobs : phase[j] = "running"}
Pending == {j \in Jobs : phase[j] = "pending"}

Init == /\ phase = [j \in Jobs |-> "pending"]
        /\ aborted = FALSE
        /\ over = FALSE

Start(j) ==
  /\ ~aborted /\ ~over
  /\ j \in Pending
  /\ Cardinality(Running) < slots
  /\ \A n \in NeedSet(needs, j) : phase[n] = "success"
  /\ phase' = [phase EXCEPT ![j] = "running"]
  /\ UNCHANGED <<needs, slots, aborted, over>>

Finish(j) ==
  /\ j \in Running
  /\ \E s \in Final : phase' = [phase EXCEPT ![j] = s]
  /\ UNCHANGED <<needs, slots, aborted, over>>

PassOver(j) ==
  /\ ~aborted /\ ~over
  /\ j \in Pending
  /\ \E n \in NeedSet(needs, j) : phase[n] \in {"failed", "skipped"}
  /\ phase' = [phase EXCEPT ![j] = "skipped"]
  /\ UNCHANGED <<needs, slots, aborted, over>>

Abort(j) ==
  /\ j \in Running
  /\ phase' = [phase EXCEPT ![j] = "skipped"]
  /\ aborted' = TRUE
  /\ UNCHANGED <<needs, slots, over>>

Return ==
  /\ ~over
  /\ Running = {}
  /\ aborted \/ Pending = {}
  /\ phase' = [j \in Jobs |-> IF j \in Pending THEN "skipped" ELSE phase[j]]
  /\ over' = TRUE
  /\ UNCHANGED <<needs, slots, aborted>>

Next == \/ Return
        \/ \E j \in Jobs : Start(j) \/ Finish(j) \/ PassOver(j) \/ Abort(j)

Spec == Init /\ [][Next]_vars
=============================================================================
