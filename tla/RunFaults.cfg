\* One run, three executors, three faults: who executes it, and how does it end.
SPECIFICATION Spec
CONSTANTS
  Runs = {cp}
  Workers = {w1, w2}
  Shells = {s1}
  GaRuns = {}
  DraftlessRuns = {}
  NoRun = NoRun
  MaxFaults = 3
\* Quiescence is legal: every run may have ended.
CHECK_DEADLOCK FALSE
SYMMETRY WorkerSymmetry
INVARIANTS
  SoleSolver
  SafetyInv
PROPERTIES
  TerminalIsFinal
  KeepsPromise
