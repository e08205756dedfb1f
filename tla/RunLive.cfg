\* Two runs that compete for version numbers, a worker and a shell that live:
\* what is stored agrees, and every run ends.
SPECIFICATION FairSpec
CONSTANTS
  Runs = {cp, ga}
  Workers = {w1}
  Shells = {s1}
  GaRuns = {ga}
  DraftlessRuns = {}
  NoRun = NoRun
  MaxFaults = 0
\* Quiescence is legal: every run may have ended.
CHECK_DEADLOCK FALSE
INVARIANTS
  EvidenceAgrees
  VersionsConsecutive
  RunningIsAttended
PROPERTIES
  EveryRunEnds
