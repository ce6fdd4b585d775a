CONSTANTS
  Trackers = {root, t1, t2}
  Root = root
  NoTracker = NoTracker
  Grants = {g1, g2}
  RootLimit = 4
  Costs = {0, 1, 2, 3}
  Queries = {"a", "A", "b"}
  Lower <- MCLower
  HitLists <- MCHits
  MaxHops = 3
  HopBudget = 4
  MaxOverspend = 1
  Sources = 2
  Chunks <- MCChunks
  Answers <- MCAnswers
  Weight <- MCWeight
  Parent <- MCParent
  Text <- MCText
  Topic <- MCTopic
  Relevance <- MCRelevance
  Setups <- MCSetups
  RrfK = 60
  Unit = 238266
  Weightings <- MCWeightings
  Phrases = {"", "q", "r"}
  FilterKeys = {"acl", "user_principals", "doc"}
  Wired = {"hybrid", "iterative"}
  QueryOps <- MCOps
  MaxLines = 2
  Golds <- MCGolds
  Rankings <- MCRankings
  DocOfChunk <- MCDocOfChunk
  Concurrency = 2
  CutOff = 2
  Latencies = {1, 2}
  Discounts <- MCDiscounts
  Whole = 1000
  Contexts = {"t1", "t2", "t3"}
  MaxNesting = 2
  Words = {"a", "b"}
  Sought = {"a"}
  MaxTokens = 5
  Width = 2
SPECIFICATION MCSpec
INVARIANTS LedgersExact HuntSound RankingSound RoutingSound EvaluationSound SpansSound
PROPERTIES HardCeilingSpec SpendReachesRoot
CHECK_DEADLOCK FALSE
