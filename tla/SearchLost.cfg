SPECIFICATION Spec
CONSTANTS
  Job <- MCJob
  PopulationSize = 2
  TournamentSize = 2
  Elites = 0
  RepairAttempts = 2
  MaxMutations = 1
INVARIANTS
  NoSolutionFoundNone
