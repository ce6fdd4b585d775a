CONSTANTS
  PopulationSize = 2
  Requests = {1, 3}
  MaxGenerations = 1
  ComputeLimit = 1
  RunLimit = 2
  DailyLimit = 1
  MaxScore = 1
  MaxCost = 1
  MaxCompute = 1
  Experiments = {e1, e2, e3}
  LastGeneration = 1
  MaxVersion = 2
  MaxDeaths = 1
  Specs <- MCSpecs
  Rerankers = {"null"}
  Pools <- MCPools
  Numbers <- MCNumbers
  SeedConfig <- MCSeedConfig
  Members = {1, 2}
  Anchor = 1
  Reports <- MCReports
  Scale = 2
  MaxLineage = 3
  Sigmas = 2
  BroadPercent = 60
  SlowdownPercent = 20
  Candidates = {c1, c2, c3}
  Accepted = {c1, c2}
  MaxCalls = 4
  MaxEdits = 2
  Declared <- MCDeclared
  Wiring = {"index", "embedder", "fetch_parent"}
  Lambdas = {2, 11}
SPECIFICATION MCSpec
INVARIANTS EvolutionSound LedgerSound AcceptMeansProven RealisationSound PullRequestsSound
PROPERTIES RunEnds GenomesSound
CHECK_DEADLOCK FALSE
