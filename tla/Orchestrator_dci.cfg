SPECIFICATION FairSpec
CONSTANTS
  Chunks = {c1}
  Wirings <- Deployments
  MaxLegs = 3
  MaxConcurrent = 2
  MaxHops = 2
  MaxBudget = 1
  MaxCost = 1
  MaxCalls = 1
  MaxTurns = 2
INVARIANT OnlyFirstHopOnDci
CHECK_DEADLOCK FALSE
