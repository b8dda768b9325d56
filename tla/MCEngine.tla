------------------------------ MODULE MCEngine ------------------------------
EXTENDS Engine

CONSTANTS a, b, underscore, space   \* characters of job IDs
CONSTANTS alpine, golang            \* images

MCJobs == 1..4

Workflow(bound, deps, parents, images, ids) ==
  [slots |-> bound, needs |-> deps, inherit |-> parents, image |-> images, id |-> ids]

MCIds == << <<a>>, <<b>>, <<a, space>>, <<b, space>> >>

\* A chain that hands its tree down with a job beside it, a diamond, and a
\* fan-in; the jobs that run side by side share an image, or not; with one slot
\* and with two.
MCWorkflows ==
  UNION {{
    Workflow(s, << <<>>, <<1>>, <<2>>, <<>> >>, <<NoJob, 1, 2, NoJob>>,
             <<alpine, alpine, golang, golang>>, MCIds),
    Workflow(s, << <<>>, <<1>>, <<1>>, <<2, 3>> >>, <<NoJob, 1, 1, 3>>,
             <<alpine, golang, golang, golang>>, MCIds),
    Workflow(s, << <<>>, <<>>, <<2, 1>>, <<1>> >>, <<NoJob, NoJob, 2, 1>>,
             <<alpine, alpine, golang, golang>>, MCIds) } : s \in {1, 2}}

\* A matrix over two values that differ in a character no container name has.
MCMatrixIds ==
  { Workflow(2, << <<>>, <<>>, <<1>>, <<2>> >>, <<NoJob, NoJob, 1, 2>>,
             <<alpine, alpine, alpine, alpine>>,
             << <<a, space>>, <<a, underscore>>, <<a>>, <<b>> >>) }
=============================================================================
