------------------------------- MODULE Registry -------------------------------
(***************************************************************************)
(* The component registry (src/self_improvement/registry): a configuration *)
(* becomes a pipeline by instantiating its components in order, each with  *)
(* its parameters checked and with what it needs of the live wiring.  What *)
(* is wrong first decides the error, and no pipeline is half built.        *)
(***************************************************************************)
EXTENDS Naturals, SequencesExt, FiniteSets

CONSTANTS
  Declared,   \* category to its components' names to their parameters: [lo, hi, default]
  Wiring,     \* the live objects there may be
  Lambdas     \* values of mmr_lambda, some out of range

\* What is asked of the registry, and with which wiring.
VARIABLE wanted

\* What a builder requires, in order; a name it does not know is an error of its own.
NeedsOfChunker ==
  [name \in {"recursive", "markdown_header", "semantic", "sentence_window", "late_chunking", "propositional"} |-> << >>]
NeedsOfEnricher == [name \in {"null", "contextual", "title", "summary"} |-> << >>]
NeedsOfRetriever ==
  [dense |-> <<"index", "embedder">>, sparse_bm25 |-> <<"index">>, hybrid_rrf |-> << >>,
   iterative |-> <<"index", "embedder">>]
NeedsOfReranker == [name \in {"null", "cohere_rerank_3", "voyage_rerank_2", "llm_rerank"} |-> << >>]
NeedsOfPost ==
  [mmr |-> <<"embedder">>, parent_expander |-> <<"fetch_parent">>, span_extractor |-> << >>,
   lost_in_the_middle |-> << >>, deduplicator |-> << >>]
NeedsOfQueryOp == [name \in {"rewrite", "hyde", "decompose", "stepback"} |-> << >>]
NeedsOfRouter == [heuristic |-> << >>]
NeedsOfDciTool ==
  [name \in {"corpus_grep", "corpus_glob", "corpus_ls", "corpus_read", "corpus_describe", "corpus_neighbors"} |->
     IF name = "corpus_neighbors" THEN <<"graph_store">> ELSE <<"corpus_store">>]

Builders ==
  [chunkers |-> NeedsOfChunker, enrichers |-> NeedsOfEnricher, retrievers |-> NeedsOfRetriever,
   rerankers |-> NeedsOfReranker, post_processors |-> NeedsOfPost,
   query_ops |-> NeedsOfQueryOp, routers |-> NeedsOfRouter, dci_tools |-> NeedsOfDciTool]

\* configs/components.yaml: what it declares has a builder and defaults in their
\* ranges, and MMR is there with its lambda.
Names(category) == DOMAIN Declared[category]
ASSUME RegistryAssumption ==
  /\ {"retrievers", "rerankers", "post_processors", "query_ops"} \subseteq DOMAIN Declared
  /\ \A category \in DOMAIN Declared :
       /\ category \in DOMAIN Builders /\ Names(category) \subseteq DOMAIN Builders[category]
       /\ \A name \in Names(category) : LET params == Declared[category][name] IN
            \A p \in DOMAIN params : params[p].default \in params[p].lo .. params[p].hi
  /\ "mmr" \in Names("post_processors") /\ "lambda" \in DOMAIN Declared["post_processors"]["mmr"]

Failed(why) == [error |-> why]
HasFailed(result) == "error" \in DOMAIN result

\* RegistryDeps.require, for each: the first that is missing.
Require(needs, wiring, built) ==
  LET missing == {i \in DOMAIN needs : needs[i] \notin wiring}
  IN IF missing = {} THEN built ELSE Failed(<<"wiring", needs[Min(missing)]>>)

\* Defaults, and over them what is given.
ValidateParams(params, given) ==
  LET resolved == [p \in DOMAIN params |-> IF p \in DOMAIN given THEN given[p] ELSE params[p].default]
  IN IF ~(DOMAIN given \subseteq DOMAIN params) THEN Failed(<<"unknown", "parameter">>)
     ELSE IF \E p \in DOMAIN params : resolved[p] \notin params[p].lo .. params[p].hi THEN Failed(<<"range", "parameter">>)
     ELSE [params |-> resolved]

Instantiate(category, name, given, wiring) ==
  IF category \notin DOMAIN Declared \/ name \notin DOMAIN Declared[category] THEN Failed(<<"unknown", "component">>)
  ELSE LET valid == ValidateParams(Declared[category][name], given)
       IN IF HasFailed(valid) THEN valid
          ELSE IF category \notin DOMAIN Builders \/ name \notin DOMAIN Builders[category] THEN Failed(<<"unknown", "builder">>)
          ELSE Require(Builders[category][name], wiring, [category |-> category, name |-> name, params |-> valid.params])

\* The lambda is the only parameter a configuration hands to its components.
ParamsFor(config, category, name) ==
  IF category = "post_processors" /\ name = "mmr" THEN [lambda |-> config.mmr_lambda] ELSE << >>

\* Mutant: the post-processors first.
OrderedPostFirst(config) ==
  [i \in DOMAIN config.post_processors |-> <<"post_processors", config.post_processors[i]>>]
    \o [i \in DOMAIN config.retrievers |-> <<"retrievers", config.retrievers[i]>>]
    \o <<<<"rerankers", config.reranker>>>>
    \o [i \in DOMAIN config.query_ops |-> <<"query_ops", config.query_ops[i]>>]

\* What pipeline_from_registry() instantiates, in order.
Ordered(config) ==
  [i \in DOMAIN config.retrievers |-> <<"retrievers", config.retrievers[i]>>]
    \o <<<<"rerankers", config.reranker>>>>
    \o [i \in DOMAIN config.post_processors |-> <<"post_processors", config.post_processors[i]>>]
    \o [i \in DOMAIN config.query_ops |-> <<"query_ops", config.query_ops[i]>>]

\* The fusion comes last, and a name it does not know is an error there.
PipelineFromRegistry(config, wiring) ==
  LET built == [i \in DOMAIN Ordered(config) |->
                  LET c == Ordered(config)[i]
                  IN Instantiate(c[1], c[2], ParamsFor(config, c[1], c[2]), wiring)]
      failed == {i \in DOMAIN built : HasFailed(built[i])}
  IN IF failed # {} THEN built[Min(failed)]
     ELSE IF config.fusion \notin {"rrf", "hybrid_rrf", "weighted"} THEN Failed(<<"unknown", "fusion">>)
     ELSE [components |-> built, fusion |-> config.fusion]

-----------------------------------------------------------------------------
Subsequences(names, most) == {s \in UNION {[1 .. n -> names] : n \in 0 .. most} : IsInjective(s)}

\* Requests by names as the registry declares them, and one it does not.
Wanted ==
  [wiring : SUBSET Wiring, config :
    [retrievers : Seq(Names("retrievers")) \ {<< >>}, reranker : Names("rerankers") \cup {"bm42"},
     post_processors : Seq(Names("post_processors")), query_ops : Seq(Names("query_ops")),
     mmr_lambda : Lambdas, fusion : {"rrf", "hybrid_rrf", "weighted", "max"}]]

\* Short ones, without repetition, for a run.
RegistryInit ==
  \E wiring \in SUBSET Wiring : \E lambda \in Lambdas :
  \E retrievers \in Subsequences(Names("retrievers"), 2) \ {<< >>} : \E reranker \in Names("rerankers") \cup {"bm42"} :
  \E posts \in Subsequences(Names("post_processors"), 2) : \E ops \in Subsequences(Names("query_ops"), 1) :
  \E fusion \in {"rrf", "weighted", "max"} :
    wanted = [wiring |-> wiring, config |->
      [retrievers |-> retrievers, reranker |-> reranker, post_processors |-> posts, query_ops |-> ops,
       mmr_lambda |-> lambda, fusion |-> fusion]]

\* A realisation leaves the request as it is.
RegistrySpec == wanted \in Wanted /\ [][UNCHANGED wanted]_wanted

\* With the wiring that its components call for, a configuration of declared
\* components with its lambda in range becomes a pipeline: component by component
\* in the configuration's order, each with its own parameters.  Without, nothing
\* is built.
RealisedWhole ==
  LET config == wanted.config
      result == PipelineFromRegistry(config, wanted.wiring)
      retrieves(names) == \E i \in DOMAIN config.retrievers : config.retrievers[i] \in names
      processes(name) == \E i \in DOMAIN config.post_processors : config.post_processors[i] = name
      range == Declared["post_processors"]["mmr"].lambda
      wired == /\ retrieves({"dense", "sparse_bm25", "iterative"}) => "index" \in wanted.wiring
               /\ retrieves({"dense", "iterative"}) \/ processes("mmr") => "embedder" \in wanted.wiring
               /\ processes("parent_expander") => "fetch_parent" \in wanted.wiring
      known == config.reranker # "bm42" /\ config.fusion # "max"
      inRange == processes("mmr") => config.mmr_lambda \in range.lo .. range.hi
      names == config.retrievers \o <<config.reranker>> \o config.post_processors \o config.query_ops
  IN /\ ~HasFailed(result) <=> wired /\ known /\ inRange
     /\ ~HasFailed(result) => \A i \in DOMAIN names \cup DOMAIN result.components :
          /\ result.components[i].name = names[i]
          /\ names[i] = "mmr" => result.components[i].params.lambda = config.mmr_lambda

\* A configuration wrong in several places always fails the same way: what its
\* retrievers lack is reported before its reranker, and that before what the
\* post-processors lack or are given.
FirstErrorFirst ==
  LET config == wanted.config
      result == PipelineFromRegistry(config, wanted.wiring)
  IN HasFailed(result) =>
       /\ "index" \notin wanted.wiring /\ config.retrievers[1] # "hybrid_rrf" => result.error = <<"wiring", "index">>
       /\ config.reranker = "bm42" => result.error \in {<<"wiring", "index">>, <<"wiring", "embedder">>, <<"unknown", "component">>}
       /\ result.error = <<"unknown", "fusion">> => "fetch_parent" \in wanted.wiring
            \/ ~\E i \in DOMAIN config.post_processors : config.post_processors[i] = "parent_expander"

\* A configuration is realised whole, in its own order and with its own parameters,
\* or fails with the error of the first thing that is missing.
RealisationSound == RealisedWhole /\ FirstErrorFirst

=============================================================================
