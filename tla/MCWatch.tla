------------------------------- MODULE MCWatch -------------------------------
EXTENDS Watch, TLC

CONSTANTS versions, releases   \* the patterns v* and v2*
CONSTANTS p1, p2               \* passes
CONSTANTS a, b                 \* commits

\* One branch (1) and two tags, v1 (2) and v2 (3).
MCMatching == versions :> {2, 3} @@ releases :> {3}
MCVersions == versions :> {2} @@ releases :> {3}

Watch1(branches, tags) == [branches |-> branches, tags |-> tags]

\* A repository with a branch and one with tags; and the list after an edit
\* that puts them together and watches another pattern of the second.
MCLists == { << Watch1(<<1>>, <<>>), Watch1(<<>>, <<versions>>) >>,
             << Watch1(<<1>>, <<versions, releases>>) >> }

\* One list for every pass.
MCOneList == { << Watch1(<<1>>, <<versions>>) >> }

\* Two patterns of one entry that match the same tag.
MCOverlapping == { << Watch1(<<>>, <<versions, releases>>) >> }

\* A remote that shows the one commit at some refs and lacks the others.
Showing(present) == [r \in Refs |-> IF r \in present THEN a ELSE NoSha]

Scene(lists, refs, passes, faultBound, overlapBound) ==
  [lists |-> lists, remotes |-> {Showing(present) : present \in refs}, passes |-> passes,
   moves |-> 2, faults |-> faultBound, overlaps |-> overlapBound]

\* One pass at a time and a list that is edited, over a remote that has every
\* ref, no tag yet, or no such branch; passes that overlap.
MCScenes == { Scene(MCLists, {Refs, {1}, {2, 3}}, {p1}, 1, 0),
              Scene(MCOneList, {{1, 2}, {1}}, {p1, p2}, 1, 1) }

MCPatternScenes == { Scene(MCOverlapping, SUBSET Refs, {p1}, 0, 0) }
MCTornScenes == { Scene(MCOneList, SUBSET Refs, {p1}, 1, 0) }

\* The hypotheses of the theorems hold where the properties are checked.
ASSUME ListsAssumption == Scenes = MCScenes => EntriesApart /\ MentionedOnce
=============================================================================
