------------------------------- MODULE Ranking -------------------------------
(***************************************************************************)
(* HybridPipeline (src/knowledge_index/retrieval/pipeline.py): retrievers  *)
(* that run at the same time, then fusion, reranking, post-processors in a *)
(* configured order, and the cut to k.  Scores are integers: Unit is what  *)
(* the code calls 1.0, a multiple of every divisor met.                    *)
(***************************************************************************)
EXTENDS Totals, Integers, SequencesExt

CONSTANTS
  Sources,     \* number of retrievers
  Chunks,      \* ids of chunks in the index
  Answers,     \* what a retriever may answer: candidates, the best first
  Weight,      \* WeightedFuser's weight of each retriever
  Parent,      \* [Chunks -> Chunks], a chunk without a parent to itself
  Text,        \* [Chunks -> texts]
  Topic,       \* [Chunks -> topics], chunks of one topic have one embedding
  Relevance,   \* [Chunks -> Int], cosine with the query
  Setups,      \* pipelines: [fuser, reranker, rerankK, posts, k], 0 for no rerankK
  RrfK,        \* constant of reciprocal rank fusion
  Unit

Retrievers == 1 .. Sources
PostProcessors == {"mmr", "parents", "dedup", "middle"}
BestFirst(list) == \A i, j \in DOMAIN list : i < j => list[i].score >= list[j].score /\ list[i].chunk # list[j].chunk

ASSUME RankingAssumption ==
  /\ {RrfK, Unit, Sources} \subseteq Nat \ {0}
  /\ Weight \in [Retrievers -> Nat]
  /\ Parent \in [Chunks -> Chunks] /\ Relevance \in [Chunks -> Int]
  /\ \A a \in Answers : a \in Seq([chunk : Chunks, score : Int]) /\ BestFirst(a)
  /\ "pending" \notin Chunks
  /\ \A s \in Setups : s.k \in Nat \ {0} /\ s.rerankK \in Nat /\ s.posts \in Seq(PostProcessors)

VARIABLES
  setup,     \* the pipeline, as it was built
  stage,     \* "gather", "fuse", "rerank", "post", "done" or "raised"
  lists,     \* answers of the retrievers, in the order of the retrievers
  ranking,   \* the candidates: [chunk, score, rank]
  input,     \* what the last stage was given
  nextPost   \* post-processors run so far

rankingVars == <<setup, stage, lists, ranking, input, nextPost>>

Pending == <<[chunk |-> "pending", score |-> 0]>>
Renumbered(cands) == [i \in DOMAIN cands |-> [cands[i] EXCEPT !.rank = i]]
At(cands, i) == cands[i].chunk
ChunksOf(cands) == {At(cands, i) : i \in DOMAIN cands}
Least(a, b) == IF a < b THEN a ELSE b
Greatest(a, b) == IF a > b THEN a ELSE b

RankingInit ==
  /\ setup \in Setups /\ stage = "gather"
  /\ lists = [r \in Retrievers |-> Pending]
  /\ ranking = << >> /\ input = << >> /\ nextPost = 1

\* A retriever answers; the answers are gathered in the order of the retrievers.
Answer(r, answer) ==
  /\ stage = "gather" /\ lists[r] = Pending
  /\ lists' = [lists EXCEPT ![r] = answer]
  /\ stage' = IF \E q \in Retrievers \ {r} : lists[q] = Pending THEN "gather" ELSE "fuse"
  /\ UNCHANGED <<setup, ranking, input, nextPost>>

\* One retriever that raises fails the retrieval, whatever the others do.
AnswerFails(r) ==
  /\ stage = "gather" /\ lists[r] = Pending
  /\ stage' = "raised"
  /\ UNCHANGED <<setup, lists, ranking, input, nextPost>>

-----------------------------------------------------------------------------
\* RRFFuser: what a place in a list is worth; the retrievers number theirs by place.
Reciprocal(list, i) == Unit \div (RrfK + i)

\* WeightedFuser: the score between the least and the greatest of its list.
Normalised(list, i) ==
  LET lo == list[Len(list)].score
      hi == list[1].score
  IN  IF hi = lo THEN Unit ELSE ((list[i].score - lo) * Unit) \div (hi - lo)

Worth(r, i) ==
  IF setup.fuser = "rrf" THEN Reciprocal(lists[r], i) ELSE Weight[r] * Normalised(lists[r], i)

Holds(r, c) == \E i \in DOMAIN lists[r] : At(lists[r], i) = c
PlaceOf(r, c) == CHOOSE i \in DOMAIN lists[r] : At(lists[r], i) = c

\* A chunk's worth in every list it is in, added list by list.
FusedScore(c) ==
  LET sum[r \in 0 .. Sources] ==
        IF r = 0 THEN 0 ELSE sum[r - 1] + (IF Holds(r, c) THEN Worth(r, PlaceOf(r, c)) ELSE 0)
  IN  sum[Sources]

\* The list a chunk is first met in, and which of two is met first.
FirstList(c) == CHOOSE r \in Retrievers : Holds(r, c) /\ \A q \in 1 .. r - 1 : ~Holds(q, c)
MetBefore(c, d) ==
  LET r == FirstList(c)
      q == FirstList(d)
  IN  r < q \/ (r = q /\ PlaceOf(r, c) < PlaceOf(r, d))

\* Chunks of equal score stay in the order they were first met in.
Offered == UNION {ChunksOf(lists[r]) : r \in Retrievers}
Fusion ==
  LET score == [c \in Offered |-> FusedScore(c)]
      order == InOrder(Offered, {p \in Offered \X Offered :
                 score[p[1]] > score[p[2]] \/ (score[p[1]] = score[p[2]] /\ MetBefore(p[1], p[2]))})
  IN  [i \in DOMAIN order |-> [chunk |-> order[i], score |-> score[order[i]], rank |-> i]]

Fuse ==
  /\ stage = "fuse" /\ stage' = "rerank"
  /\ ranking' = Fusion
  /\ UNCHANGED <<setup, lists, input, nextPost>>

-----------------------------------------------------------------------------
\* At least k are left to the post-processors.
RerankTop == Greatest(IF setup.rerankK # 0 THEN setup.rerankK ELSE 2 * setup.k, setup.k)

\* NullReranker keeps the order; Cohere answers with an order and scores of its own.
Rerank ==
  LET top == Least(RerankTop, Len(ranking)) IN
  /\ stage = "rerank" /\ stage' = "post"
  /\ input' = ranking
  /\ IF setup.reranker = "null"
     THEN ranking' = SubSeq(ranking, 1, top)
     ELSE \E order \in {f \in [1 .. top -> DOMAIN ranking] : \A i, j \in 1 .. top : i # j => f[i] # f[j]} :
            ranking' = [i \in 1 .. top |-> [chunk |-> At(ranking, order[i]), score |-> Unit \div (i + 1), rank |-> i]]
  /\ UNCHANGED <<setup, lists, nextPost>>

-----------------------------------------------------------------------------
\* MMRDiversifier with lambda = 1/2: relevance against likeness to what is
\* selected, the first of equals.
Similar(c, d) == IF Topic[c] = Topic[d] THEN Unit ELSE 0
Marginal(cands, i, selected) ==
  Relevance[At(cands, i)]
    - (IF \E s \in Range(selected) : Similar(At(cands, i), At(cands, s)) = Unit THEN Unit ELSE 0)

\* Mutant: likeness does not count.
SelectMostRelevant(cands, selected) ==
  CHOOSE i \in DOMAIN cands \ Range(selected) : \A j \in DOMAIN cands \ Range(selected) :
    \/ Relevance[At(cands, i)] > Relevance[At(cands, j)]
    \/ Relevance[At(cands, i)] = Relevance[At(cands, j)] /\ i <= j

SelectNext(cands, selected) ==
  CHOOSE i \in DOMAIN cands \ Range(selected) : \A j \in DOMAIN cands \ Range(selected) :
    \/ Marginal(cands, i, selected) > Marginal(cands, j, selected)
    \/ Marginal(cands, i, selected) = Marginal(cands, j, selected) /\ i <= j

Picked(cands) ==
  LET picked[n \in 0 .. Len(cands)] ==
        IF n = 0 THEN << >> ELSE Append(picked[n - 1], SelectNext(cands, picked[n - 1]))
  IN  picked[Len(cands)]

Diversify(cands) ==
  IF Len(cands) <= 1 THEN cands ELSE Renumbered([n \in DOMAIN cands |-> cands[Picked(cands)[n]]])

\* ParentExpander: children of one parent become one candidate, at the place of
\* the first; the parent found by itself is not one of them.
Family(cands, i) ==
  IF Parent[At(cands, i)] = At(cands, i) THEN {i}
  ELSE {j \in DOMAIN cands : Parent[At(cands, j)] = Parent[At(cands, i)] /\ At(cands, j) # Parent[At(cands, j)]}
Expand(cands) ==
  LET first == Ascending({i \in DOMAIN cands : \A j \in Family(cands, i) : i <= j})
  IN  [n \in DOMAIN first |-> [chunk |-> Parent[At(cands, first[n])],
                               score |-> Max({cands[j].score : j \in Family(cands, first[n])}), rank |-> n]]

\* DeduplicatorPostProcessor: the first of each id and of each text.
Deduplicate(cands) ==
  LET first == Ascending(FirstPlaces([i \in DOMAIN cands |-> Text[At(cands, i)]], {}))
  IN  Renumbered([n \in DOMAIN first |-> cands[first[n]]])

\* LostInTheMiddleReorder: odd places from the top, even ones from the bottom.
LoseInTheMiddle(cands) ==
  LET n == Len(cands)
      top == (n + 1) \div 2
  IN  IF n <= 2 THEN cands
      ELSE Renumbered([i \in 1 .. n |-> cands[IF i <= top THEN 2 * i - 1 ELSE 2 * (n + 1 - i)]])

Post ==
  /\ stage = "post" /\ nextPost <= Len(setup.posts)
  /\ ranking' = CASE setup.posts[nextPost] = "mmr" -> Diversify(ranking)
                  [] setup.posts[nextPost] = "parents" -> Expand(ranking)
                  [] setup.posts[nextPost] = "dedup" -> Deduplicate(ranking)
                  [] setup.posts[nextPost] = "middle" -> LoseInTheMiddle(ranking)
  /\ input' = ranking /\ nextPost' = nextPost + 1
  /\ UNCHANGED <<setup, stage, lists>>

Cut ==
  /\ stage = "post" /\ nextPost = Len(setup.posts) + 1 /\ stage' = "done"
  /\ ranking' = SubSeq(ranking, 1, Least(setup.k, Len(ranking))) /\ input' = ranking
  /\ UNCHANGED <<setup, lists, nextPost>>

RankingNext ==
  \/ Fuse \/ Rerank \/ Post \/ Cut
  \/ \E r \in Retrievers : AnswerFails(r) \/ \E answer \in Answers : Answer(r, answer)

RankingSpec == RankingInit /\ [][RankingNext]_rankingVars

-----------------------------------------------------------------------------
\* Properties

Ran(post) == stage = "post" /\ nextPost > 1 /\ setup.posts[nextPost - 1] = post

\* After every stage a candidate's rank is its place.
RankingTypeOK ==
  /\ stage \in {"gather", "fuse", "rerank", "post", "done", "raised"}
  /\ \A i \in DOMAIN ranking : ranking[i].rank = i /\ At(ranking, i) \in Chunks
  /\ stage = "done" => Len(ranking) <= setup.k

Leads(r, c, d) ==
  \A j \in DOMAIN lists[r] : At(lists[r], j) = d =>
    \E i \in 1 .. j - 1 : At(lists[r], i) = c /\ lists[r][i].score > lists[r][j].score

\* Fusion, of either kind, respects what the retrievers agree on: a chunk is
\* ahead of another that no list has before it, if every list with the other
\* has it with a better score.
AgreementKept ==
  stage = "rerank" =>
    /\ ChunksOf(ranking) = Offered
    /\ \A i, j \in DOMAIN ranking :
         i # j /\ (\A r \in Retrievers : Leads(r, At(ranking, i), At(ranking, j))) => i < j

\* Without post-processors and with the baseline reranker the answer is the k
\* best of the fused chunks, all of them if there are fewer, whatever rerank_k is.
BestKReturned ==
  stage = "done" /\ setup.posts = << >> /\ setup.reranker = "null" =>
    /\ Len(ranking) = Least(setup.k, Cardinality(Offered))
    /\ \A c \in ChunksOf(ranking), d \in Offered \ ChunksOf(ranking) : FusedScore(c) >= FusedScore(d)

\* A near copy of what is selected comes after everything as relevant that is
\* like nothing before it.
CopiesLast ==
  Ran("mmr") =>
    /\ ChunksOf(ranking) = ChunksOf(input)
    /\ \A i, j \in DOMAIN ranking : i < j =>
         LET Copy(n, of) == \E s \in 1 .. of : Topic[At(ranking, s)] = Topic[At(ranking, n)]
         IN  ~(Copy(i, i - 1) /\ ~Copy(j, i - 1) /\ Relevance[At(ranking, j)] >= Relevance[At(ranking, i)])

\* All children of a parent are one candidate, with the best of their scores.
ParentsCarryBest ==
  Ran("parents") =>
    \A p \in Chunks :
      LET children == {i \in DOMAIN input : Parent[At(input, i)] = p /\ At(input, i) # p}
          entries == {i \in DOMAIN ranking : At(ranking, i) = p}
      IN  /\ Cardinality(entries) = (IF children = {} THEN 0 ELSE 1)
                                    + Cardinality({i \in DOMAIN input : At(input, i) = p /\ Parent[p] = p})
          /\ children # {} => \E e \in entries : \E c \in children :
               ranking[e].score = input[c].score /\ \A d \in children : input[d].score <= input[c].score

\* No text is lost by deduplication, and it stays at its best place.
TextsKept ==
  Ran("dedup") =>
    /\ {Text[c] : c \in ChunksOf(ranking)} = {Text[c] : c \in ChunksOf(input)}
    /\ \A i, j \in DOMAIN ranking : i # j => Text[At(ranking, i)] # Text[At(ranking, j)]
    /\ \A i \in DOMAIN ranking : \E n \in DOMAIN input :
         /\ At(input, n) = At(ranking, i)
         /\ \A m \in 1 .. n - 1 : \E j \in 1 .. i - 1 : Text[At(ranking, j)] = Text[At(input, m)]

\* From fusion to the cut, in whatever order post-processors are set up: agreement
\* of the lists wins, copies stand back, parents carry their best child, no text is
\* lost and the k best come back.
RankingSound ==
  /\ RankingTypeOK
  /\ AgreementKept
  /\ BestKReturned
  /\ CopiesLast
  /\ ParentsCarryBest
  /\ TextsKept

=============================================================================
