\* One worker that may be lost once: is a stale run reconciled?
SPECIFICATION FairSpec
CONSTANTS
  Runs = {cp}
  Workers = {w1}
  Shells = {}
  GaRuns = {}
  DraftlessRuns = {cp}
  NoRun = NoRun
  MaxFaults = 1
\* Quiescence is legal: every run may have ended.
CHECK_DEADLOCK FALSE
PROPERTIES
  StaleRunsReconciled
