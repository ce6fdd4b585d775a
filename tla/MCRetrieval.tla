----------------------------- MODULE MCRetrieval -----------------------------
(***************************************************************************)
(* Retrieval and its evaluation: the iterative retriever, the tree of      *)
(* budget trackers its hops are paid from, the ranking stages, the routing *)
(* of a query, the spans of a text, the evaluation run and the isolation   *)
(* of the frozen split share no state.  One run checks each of them while  *)
(* the others rest.                                                        *)
(***************************************************************************)
EXTENDS BudgetTracker, Iterative, Ranking, Routing, Evaluation, Spans

VARIABLE subject

\* Queries that differ in case only.
MCLower == [q \in Queries |-> IF q = "A" THEN "a" ELSE q]

Hit(c, s) == [chunk |-> c, score |-> s]
MCHits == {<< >>, <<Hit("x", 2), Hit("y", 1)>>, <<Hit("y", 2)>>, <<Hit("z", 1), Hit("x", 1)>>}

\* Two children of a parent that is indexed itself; the children share a text.
MCChunks == {"c1", "c2", "p"}
Sorted(list) == \A i, j \in DOMAIN list : i < j => list[i].score >= list[j].score /\ list[i].chunk # list[j].chunk
MCAnswers == {a \in UNION {[1 .. n -> [chunk : MCChunks, score : 1 .. 2]] : n \in 0 .. 3} : Sorted(a)}
MCWeight == <<2, 1>>
MCParent == [c \in MCChunks |-> "p"]
MCText == [c \in MCChunks |-> IF c = "p" THEN "long" ELSE "short"]
MCTopic == [c \in MCChunks |-> IF c = "c1" THEN 1 ELSE 2]
MCRelevance == [c \in MCChunks |-> IF c = "p" THEN Unit ELSE Unit \div 2]
Pipe(fuser, reranker, rerankK, posts, k) ==
  [fuser |-> fuser, reranker |-> reranker, rerankK |-> rerankK, posts |-> posts, k |-> k]
DefaultPipe == Pipe("rrf", "cohere", 0, <<"mmr", "parents">>, 2)
MCSetups == {DefaultPipe, Pipe("rrf", "null", 1, << >>, 2), Pipe("weighted", "null", 0, <<"dedup">>, 2),
             Pipe("weighted", "cohere", 3, <<"parents", "dedup", "middle">>, 1)}

MCOps == {<<"rewriter", "hyde", "decompose">>, <<"stepback", "rewriter">>}
Tuned(long) ==
  [quoted |-> 6, backticked |-> 4, identifier |-> 3, keyword |-> 4, bridge |-> 4, long |-> long, threshold |-> 2]
MCWeightings == {Tuned(3), Tuned(8)}

MCGolds == <<[chunks |-> {"c1"}, docs |-> {}], [chunks |-> {}, docs |-> {"d"}], [chunks |-> {"c1"}, docs |-> {"d"}]>>
MCRankings == {<< >>, <<"c1", "c2", "x">>, <<"x", "c2">>, <<"x", "y", "c1">>}
MCDocOfChunk == [c \in {"c1", "c2", "x", "y"} |-> IF c \in {"c1", "c2"} THEN "d" ELSE "e"]
MCDiscounts == <<1000, 631>>

MCInit ==
  /\ Init
  /\ subject \in {"budget", "iterative", "ranking", "routing", "evaluation", "frozen", "spans"}
  /\ IterativeInit /\ (subject # "iterative" => hunt = Start("b"))
  /\ RankingInit /\ (subject # "ranking" => setup = DefaultPipe)
  /\ RoutingInit
  /\ subject # "routing" =>
       route.shown = {} /\ route.weights = Tuned(3) /\ route.filters = << >> /\ route.raw = "q" /\ Len(route.ops) = 2
  /\ EvaluationInit
  /\ IF subject = "spans" THEN SpansInit ELSE passage = [text |-> << >>, cite |-> Extent(1, 1)]

MCNext ==
  /\ UNCHANGED <<subject, passage>>
  /\ \/ subject = "iterative" /\ IterativeNext /\ UNCHANGED <<vars, rankingVars, route, evaluationVars>>
     \/ subject = "ranking" /\ RankingNext /\ UNCHANGED <<vars, huntVars, route, evaluationVars>>
     \/ subject = "routing" /\ RoutingNext /\ UNCHANGED <<vars, huntVars, rankingVars, evaluationVars>>
     \/ subject = "evaluation" /\ ReportNext /\ UNCHANGED <<vars, huntVars, rankingVars, route>>
     \/ subject = "budget" /\ Next /\ UNCHANGED <<huntVars, rankingVars, route, evaluationVars>>
     \/ subject = "frozen" /\ FrozenNext /\ UNCHANGED <<vars, huntVars, rankingVars, route>>

MCSpec ==
  /\ MCInit /\ [][MCNext]_<<subject, vars, huntVars, rankingVars, route, evaluationVars, passage>>
  /\ \A g \in Grants : WF_vars(AbsorbChildSpend(g))

=============================================================================
