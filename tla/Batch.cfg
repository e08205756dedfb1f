\* Two requests queue a batch that a third cancels and the command executes.
SPECIFICATION Spec
CONSTANTS
  N = 2
  Outcomes = {"FEASIBLE"}
  Queuers = {q1, q2}
  Cancellers = {c1}
  Shells = {s1}
  Worker = worker
  Viewer = viewer
  NoOne = NoOne
\* A batch that nobody queues rests.
CHECK_DEADLOCK FALSE
SYMMETRY RequestSymmetry
INVARIANTS
  BatchInv
  CompletedIsComplete
  CancelledIsOver
PROPERTIES
  StartsInOrder
