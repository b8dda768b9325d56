---------------------------- MODULE MCScheduler ----------------------------
EXTENDS Scheduler

MCJobs == 1..4

\* Dependency maps with the shapes that matter: none, a chain against the
\* alphabetical order, a diamond, a fan-in whose needs list repeats a job, and
\* two chains that share nothing.
MCNeeds ==
  { << <<>>, <<>>, <<>>, <<>> >>,
    << <<2>>, <<3>>, <<4>>, <<>> >>,
    << <<>>, <<1>>, <<1>>, <<2, 3>> >>,
    << <<4, 2, 4>>, <<>>, <<1, 1>>, <<>> >>,
    << <<3>>, <<4>>, <<>>, <<>> >> }
=============================================================================
