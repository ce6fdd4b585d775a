CONSTANTS
  Lanes = {l1, l2}
  Queues <- MCQueues
  Tools <- MCTools
  Policies <- MCPolicies
  Floors = {"unset", "full"}
  Overrides <- MCOverrides
  Unknown = "nosuch"
  Batch <- MCBatch
  MaxConcurrency = 2
  MaxTries = 2
  NumAgents = 3
  ParentLimit = 3
  MaxUsd = 2
  MaxRetrieval = 1
  MaxCost = 2
SPECIFICATION MCSpec
INVARIANTS FanOutSound SandboxSound EnrichmentSound
PROPERTIES HardCeilingSpec CallsComeBack
CHECK_DEADLOCK FALSE
