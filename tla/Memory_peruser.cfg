CONSTANTS
  Ids = {a, b, c}
  AnswerId = a
  Unknown = Unknown
  MaxSteps = 3
  MaxNewSteps = 2
  MaxReplans = 1
  Calls = {c1, c2}
  Users = {"ann", "bob", "all"}
  Public = {"all"}
  Keys = {"k1", "k2"}
  Kinds = {"fact", "entity"}
  MaxItems = 2
  MaxForgets = 1
  Askers = {t1, t2}
  Questions = {"q1", "q2", "q3"}
  MaxSize = 2
  TimeToLive = 2
  Texts = {"x", "y"}
  MaxBatch = 3
  MaxTime = 3
  MaxDecided = 3
  Sizes = {1, 4, 9}
  Budgets = {0, 1, 3, 5, 9}
  MaxRanked = 5
  Segments <- MCSegments
  MaxSegments = 4
  Strategies = {"selective_retention", "hierarchical_summarization", "offload_to_memory"}
  Keeps = {0, 1}
  MaxTokens = 3
  GistLines = 2
  LineWidth = 2
  Lengths = {0, 2}
  Durable = {1, 2, 4}
  MaxSaid = 6
  SkillDirs = {1, 2}
  SkillNames = {"a", "b"}
  OwnName <- MCOwnName
  Contents <- MCContents
  MostSkills = 1
  MaxEdits = 2
  Threshold = 1
  MaxSpawned = 2
  MaxActive = 3
  MaxActions = 2
SPECIFICATION MCSpec
PROPERTY OneOwnersMemory
CHECK_DEADLOCK FALSE
