--------------------------- MODULE MCSelfImprovement ---------------------------
(***************************************************************************)
(* Self-improvement: the loop itself, with its budget guard, and the five  *)
(* parts it calls that share no state with each other: the ledger, the     *)
(* genomes, the registry that builds them, the reviewer and the PR         *)
(* generator.  One run checks each of them from its own initial states     *)
(* while the others rest.                                                  *)
(***************************************************************************)
EXTENDS EvolutionLoop, Ledger, Genome, Reviewer, PRGenerator, Registry

VARIABLE subject

Range0(a, b) == [type |-> "int", lo |-> a, hi |-> b, default |-> a]
MCSpecs ==
  [chunker |-> [recursive |-> [chunk_size |-> Range0(1, 2)],
                window |-> [window_size |-> Range0(0, 1)]],
   enricher |-> [null |-> << >>]]
MCPools ==
  [retrievers |-> {"dense", "sparse_bm25"}, post_processors |-> {"mmr"}, query_ops |-> {}]
MCNumbers ==
  [rrf_k |-> Range0(1, 1), reranker_top_k |-> Range0(1, 1),
   mmr_lambda |-> [type |-> "float", lo |-> 0, hi |-> 0, default |-> 0]]
MCSeedConfig ==
  [chunker |-> "recursive", chunker_params |-> << >>, enricher |-> "null",
   enricher_params |-> << >>, retrievers |-> <<"dense", "sparse_bm25">>, fusion |-> "rrf",
   rrf_k |-> 1, reranker |-> "null", reranker_top_k |-> 1, post_processors |-> << >>,
   mmr_lambda |-> 0, query_ops |-> << >>]

Report(a, b, latency) == [metric |-> [q1 |-> a, q2 |-> b], latency |-> latency]
MCReports ==
  {Report(0, 0, 10), Report(2, 0, 10), Report(2, 2, 12), Report(4, 4, 10),
   Report(9, 0, 10), [metric |-> [q3 |-> 5], latency |-> 0]}

Params(lo, hi, default) == [lo |-> lo, hi |-> hi, default |-> default]
MCDeclared ==
  [retrievers |-> "dense" :> << >> @@ "sparse_bm25" :> << >> @@ "hybrid_rrf" :> ("rrf_k" :> Params(10, 200, 60)),
   rerankers |-> "null" :> << >> @@ "cohere_rerank_3" :> << >>,
   post_processors |-> "mmr" :> ("lambda" :> Params(0, 10, 5)) @@ "parent_expander" :> << >>
     @@ "span_extractor" :> ("max_sentences" :> Params(1, 8, 3)),
   query_ops |-> "rewrite" :> << >>]

NothingWanted ==
  [wiring |-> {}, config |->
    [retrievers |-> <<"dense">>, reranker |-> "null", post_processors |-> << >>, query_ops |-> << >>,
     mmr_lambda |-> 2, fusion |-> "rrf"]]

\* A run that has raised before it began, of which nothing more is due.
NoRun ==
  /\ requested = 1 /\ pc = "raised" /\ gen = 0 /\ batch = << >> /\ assessed = << >> /\ population = << >>
  /\ baseline = 0 /\ trip = "none" /\ started = 0 /\ runSpend = 0 /\ daySpend = 0
  /\ genCompute = [g \in 0 .. MaxGenerations |-> 0] /\ recorded = {} /\ spent = 0 /\ finest = -1

Resting ==
  /\ LedgerInit
  /\ PRInit
  /\ genomes = [i \in Members |-> SeedConfig]
  /\ review = [candidate |-> CHOOSE r \in Reports : TRUE, lineage |-> << >>, train |-> {}]

PartsInit ==
  \/ subject \in {"ledger", "pr_gen"} /\ Resting /\ wanted = NothingWanted
  \/ subject = "registry" /\ Resting /\ RegistryInit
  \/ subject = "genome" /\ LedgerInit /\ PRInit /\ GenomeInit /\ wanted = NothingWanted
       /\ review = [candidate |-> CHOOSE r \in Reports : TRUE, lineage |-> << >>, train |-> {}]
  \/ subject = "reviewer" /\ LedgerInit /\ PRInit /\ wanted = NothingWanted
       /\ genomes = [i \in Members |-> SeedConfig] /\ review \in Reviews

MCInit ==
  \/ PartsInit /\ NoRun
  \/ subject = "evolution" /\ Init /\ Resting /\ wanted = NothingWanted

MCNext ==
  /\ UNCHANGED <<subject, review, wanted>>
  /\ \/ subject = "ledger" /\ LedgerNext /\ UNCHANGED <<prVars, genomes, vars>>
     \/ subject = "pr_gen" /\ PRNext /\ UNCHANGED <<ledgerVars, genomes, vars>>
     \/ subject = "genome" /\ GenomeNext /\ UNCHANGED <<ledgerVars, prVars, vars>>
     \/ subject = "evolution" /\ Next /\ UNCHANGED <<ledgerVars, prVars, genomes>>

MCSpec ==
  /\ MCInit /\ [][MCNext]_<<subject, review, wanted, ledgerVars, prVars, genomes, vars>>
  /\ WF_vars(Step)

=============================================================================
