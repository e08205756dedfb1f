\* One queue request and the worker: the batch settles.
SPECIFICATION FairSpec
CONSTANTS
  N = 2
  Outcomes = {"FEASIBLE", "FAILED"}
  Queuers = {q1}
  Cancellers = {}
  Shells = {s1}
  Worker = worker
  Viewer = viewer
  NoOne = NoOne
\* A batch that nobody queues rests.
CHECK_DEADLOCK FALSE
PROPERTIES
  EveryBatchSettles
  EverySentRunEnds
