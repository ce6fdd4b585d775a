CONSTANTS
  Workers = {w1, w2}
  Docs = {"d1", "d2"}
  ChunksOf <- MCChunksOf
  Acls = {"a1", "a2"}
  PageSize = 1
  MaxOps = 4
  MaxDeaths = 1
  Papers = {1, 2, 3}
  HashValues = {0, 1}
  Bands = 3
  Rows = 1
  Agreeing = 2
  MaxAdds = 4
  Letters = {"a", "b", "_"}
  MaxText = 5
  MaxWindow = 2
  PaperIds = {"x", "y"}
  ChunkTexts <- MCTexts
  Places <- MCPlaces
  Readers = {"p"}
  MaxBytes = 7
  MaxHits = 3
  MaxChunks = 3
  Passages <- MCPassages
  Callers <- MCCallers
  MaxDepth = 3
  MaxResults = 2
  Extensions = {"md", "html", "docx", "py", "bin"}
  MaxLines = 4
  Capitals = {"Acme", "ACME", "It", "Acquired"}
  Pronouns = {"It"}
  Linkers = {"of"}
  SmallWords = {"acquired", "was", "by", "founded"}
  KeyOf <- MCKeyOf
  Replies <- MCReplies
  MaxWords = 4
SPECIFICATION MCSpec
INVARIANTS DedupSound ChunksSound CorpusSound GraphSound ParsingSound RelationsGrounded
PROPERTY IndexSound
CHECK_DEADLOCK FALSE
