------------------------------ MODULE MCVerify ------------------------------
EXTENDS Verify, TLC

\* Job 2 needs job 1, which uses a key.
Recipe(files, reads, off, flaky) ==
  [needs |-> (1 :> <<>> @@ 2 :> <<1>>), image |-> [j \in Jobs |-> CHOOSE i \in Images : TRUE],
   uses |-> (1 :> (CHOOSE k \in Keys : TRUE) @@ 2 :> NoKey),
   files |-> [j \in Jobs |-> files], reads |-> [j \in Jobs |-> reads],
   off |-> off, flaky |-> flaky]

Build    == Recipe(Files, {}, {}, {})
Stamped  == Recipe(Files, {"epoch"}, {}, {})
Clocked  == Recipe(Files, {"clock"}, {2}, {})
Flaky    == Recipe(Files, {}, {}, {1})
Deploy   == Recipe({}, {}, {}, {})

MCWorkflows == {Build, Clocked, Flaky}
MCStamped == {Stamped}
MCDeploy == {Deploy}

\* Digests, and commits, are only compared with each other.
MCSymmetry == Permutations(Digests) \cup Permutations(Commits)
=============================================================================
