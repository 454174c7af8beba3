SPECIFICATION Spec
CONSTANTS
  N = 2
  Values = {1, 2}
  MaxRuns = 4
INVARIANTS SetIsCoherent NoncesUsedOnce CombinesOneRound
