-------------------------------- MODULE Genome --------------------------------
(***************************************************************************)
(* Genomes of the evolutionary loop (src/self_improvement/evolutionary/    *)
(* genome.py) over the component registry (registry/): seeded from its     *)
(* search space, then mutated and crossed over again and again.  The rng   *)
(* is a free choice: an operator yields the set of its possible results.   *)
(*                                                                         *)
(* A parameter is [type, lo, hi, default]; values of an enum are numbered. *)
(* Floats move on a grid, by a step up or down or not at all.              *)
(***************************************************************************)
EXTENDS Integers, SequencesExt, FiniteSets

CONSTANTS
  Specs,        \* the registry: chunker, enricher |-> name |-> parameters
  Rerankers,    \* the names of its rerankers
  Pools,        \* its retrievers, post_processors, query_ops
  Numbers,      \* the parameters rrf_k, reranker_top_k, mmr_lambda
  Members,       \* of a population
  Anchor,       \* the place of the configuration a run starts from
  SeedConfig    \* that configuration

FusionChoices == {"rrf", "weighted"}
Slots == {"chunker", "enricher"}
Lists == {"retrievers", "post_processors", "query_ops"}
Parameters == {"rrf_k", "reranker_top_k", "mmr_lambda"}
Fields == Slots \cup Lists \cup Parameters
            \cup {"chunker_params", "enricher_params", "reranker", "fusion"}
ParamsOf(slot) == IF slot = "chunker" THEN "chunker_params" ELSE "enricher_params"

VARIABLE genomes  \* of a population

genomeVars == <<genomes>>

-----------------------------------------------------------------------------
\* Registry

\* ParamSpec.sample
SampleSpec(spec) == spec.lo .. spec.hi

SampleParams(params) ==
  {f \in [DOMAIN params -> UNION {SampleSpec(params[p]) : p \in DOMAIN params}] :
     \A p \in DOMAIN params : f[p] \in SampleSpec(params[p])}

\* ParamSpec.validate: within the range, or among the values.
ValidValue(spec, v) == spec.lo <= v /\ v <= spec.hi

\* What is given over the defaults.
Merged(params, given) ==
  [p \in DOMAIN params \cup DOMAIN given |-> IF p \in DOMAIN given THEN given[p] ELSE params[p].default]

\* validate_params: no unknown key; the rest over the defaults, each valid.
ValidParams(params, given) ==
  /\ DOMAIN given \subseteq DOMAIN params
  /\ \A p \in DOMAIN params : ValidValue(params[p], Merged(params, given)[p])

\* instantiate: what the registry builds without an error.
Buildable(slot, name, given) ==
  name \in DOMAIN Specs[slot] /\ ValidParams(Specs[slot][name], given)

\* The search space is declared with ranges and defaults within them, and a run
\* starts from a configuration that is known to be good.
KnownGood(g) ==
  /\ DOMAIN g = Fields
  /\ \A slot \in Slots :
       LET given == g[ParamsOf(slot)]
       IN given \in [DOMAIN given -> Int] /\ Buildable(slot, g[slot], given)
  /\ g["reranker"] \in Rerankers /\ g["fusion"] \in FusionChoices
  /\ \A list \in Lists : g[list] \in Seq(Pools[list]) /\ IsInjective(g[list])
  /\ g["retrievers"] # << >>
  /\ \A p \in Parameters : g[p] \in Int /\ ValidValue(Numbers[p], g[p])

WellDeclared(spec) ==
  /\ spec.type \in {"enum", "int", "float"}
  /\ spec.lo \in Int /\ spec.hi \in Int /\ spec.default \in spec.lo .. spec.hi

ASSUME GenomeAssumption ==
  /\ \A slot \in Slots :
       /\ DOMAIN Specs[slot] # {}
       /\ \A name \in DOMAIN Specs[slot] :
            \A p \in DOMAIN Specs[slot][name] : WellDeclared(Specs[slot][name][p])
  /\ Rerankers # {} /\ Pools["retrievers"] # {}
  /\ \A list \in Lists : IsFiniteSet(Pools[list])
  /\ \A p \in Parameters : WellDeclared(Numbers[p])
  /\ KnownGood(SeedConfig) /\ Anchor \in Members

-----------------------------------------------------------------------------
\* Low-level steps

OtherChoice(chosen, choices) ==
  IF choices \ {chosen} = {} THEN {chosen} ELSE choices \ {chosen}

\* Add, drop or swap one element.
StepSubset(items, pool) ==
  LET addable == pool \ ToSet(items)
      Added == {InsertAt(items, i, x) : i \in 1 .. Len(items) + 1, x \in addable}
      Dropped == IF Len(items) > 1 THEN {RemoveAt(items, i) : i \in DOMAIN items} ELSE {}
      Swapped == {[items EXCEPT ![i] = x] : i \in DOMAIN items, x \in addable}
      results == Added \cup Dropped \cup Swapped
  IN  IF results = {} THEN {items} ELSE results

RandomSubset(pool, least) ==
  {s \in UNION {[1 .. n -> pool] : n \in least .. Cardinality(pool)} : IsInjective(s)}

StepParam(spec, v) ==
  LET clamp(x) == Max({spec.lo, Min({spec.hi, x})})
  IN  CASE spec.type = "enum" -> OtherChoice(v, SampleSpec(spec))
        [] spec.type = "int" -> {clamp(v - 1), clamp(v + 1)}
        [] spec.type = "float" -> {clamp(v - 1), clamp(v), clamp(v + 1)}

-----------------------------------------------------------------------------
\* Genomes

\* random_config.
RandomConfigs ==
  UNION {
    [chunker : {c}, chunker_params : SampleParams(Specs["chunker"][c]),
     enricher : {e}, enricher_params : SampleParams(Specs["enricher"][e]),
     retrievers : RandomSubset(Pools["retrievers"], 1),
     fusion : FusionChoices,
     rrf_k : SampleSpec(Numbers["rrf_k"]),
     reranker : Rerankers,
     reranker_top_k : SampleSpec(Numbers["reranker_top_k"]),
     post_processors : RandomSubset(Pools["post_processors"], 0),
     mmr_lambda : SampleSpec(Numbers["mmr_lambda"]),
     query_ops : RandomSubset(Pools["query_ops"], 0)] :
    c \in DOMAIN Specs["chunker"], e \in DOMAIN Specs["enricher"]}

\* _mutate_component_params: what is given over the defaults, one stepped.
MutateParams(params, given) ==
  LET merged == Merged(params, given)
  IN  UNION {{[merged EXCEPT ![p] = v] : v \in StepParam(params[p], merged[p])} :
               p \in DOMAIN params}

\* _applicable_genes.
ApplicableGenes(g) ==
  {"fusion", "rrf_k", "reranker_top_k", "retrievers"}
    \cup {slot \in Slots : Cardinality(DOMAIN Specs[slot]) > 1}
    \cup (IF Cardinality(Rerankers) > 1 THEN {"reranker"} ELSE {})
    \cup {ParamsOf(slot) : slot \in {s \in Slots : DOMAIN Specs[s][g[s]] # {}}}
    \cup {list \in {"post_processors", "query_ops"} : Pools[list] # {}}
    \cup (IF "mmr" \in ToSet(g.post_processors) THEN {"mmr_lambda"} ELSE {})

\* mutate: one gene by one step; a new component starts from its defaults.
Mutate(g, gene) ==
  LET To(values) == {[g EXCEPT ![gene] = v] : v \in values} IN
  CASE gene \in Slots ->
         {[g EXCEPT ![gene] = n, ![ParamsOf(gene)] = << >>] :
            n \in OtherChoice(g[gene], DOMAIN Specs[gene])}
    [] gene = "reranker" -> To(OtherChoice(g.reranker, Rerankers))
    [] gene = "fusion" -> To(OtherChoice(g.fusion, FusionChoices))
    [] gene \in Lists -> To(StepSubset(g[gene], Pools[gene]))
    [] gene \in Parameters -> To(StepParam(Numbers[gene], g[gene]))
    [] gene = "chunker_params" ->
         To(MutateParams(Specs["chunker"][g.chunker], g.chunker_params))
    [] gene = "enricher_params" ->
         To(MutateParams(Specs["enricher"][g.enricher], g.enricher_params))

\* crossover: field by field, the parameters with their component.  Where the
\* parents agree it does not matter whose the field is.
Carried(f) == IF f \in Slots THEN {f, ParamsOf(f)} ELSE {f}

Crossover(a, b) ==
  {[f \in Fields |-> IF \E c \in fromB : f \in Carried(c) THEN b[f] ELSE a[f]] :
     fromB \in SUBSET {c \in Fields \ {"chunker_params", "enricher_params"} : \E f \in Carried(c) : a[f] # b[f]}}

-----------------------------------------------------------------------------
GenomeInit ==
  \E random \in [Members -> RandomConfigs] : genomes = [random EXCEPT ![Anchor] = SeedConfig]

\* Mutant: a list both genomes have from one parent is changed in place.
MutateShared(i, parent) ==
  \E gene \in ApplicableGenes(genomes[parent]) : \E child \in Mutate(genomes[parent], gene) :
    genomes' = [j \in Members |->
      IF j = i THEN child
      ELSE IF gene \in Lists /\ genomes[j][gene] = genomes[parent][gene]
           THEN [genomes[j] EXCEPT ![gene] = child[gene]] ELSE genomes[j]]

\* A child takes a place in the population, its parent's or another's.
MutateOne(i, parent) ==
  \E gene \in ApplicableGenes(genomes[parent]) : \E child \in Mutate(genomes[parent], gene) :
    genomes' = [genomes EXCEPT ![i] = child]

CrossOne(i, parent, mate) ==
  /\ parent # mate
  /\ \E child \in Crossover(genomes[parent], genomes[mate]) :
       genomes' = [genomes EXCEPT ![i] = child]

GenomeNext ==
  \E i, parent \in Members :
    \/ MutateOne(i, parent)
    \/ \E mate \in Members : CrossOne(i, parent, mate)

GenomeSpec == GenomeInit /\ [][GenomeNext]_genomeVars

-----------------------------------------------------------------------------
\* Properties

\* However often genomes are mutated and crossed, the registry builds them
\* without an error: every component with parameters of its own in range,
\* lists without repetition, at least one retriever.
GenomesBuildable ==
  \A i \in Members :
    LET g == genomes[i] IN
    /\ \A slot \in Slots : Buildable(slot, g[slot], g[ParamsOf(slot)])
    /\ g.reranker \in Rerankers /\ g.fusion \in FusionChoices
    /\ \A list \in Lists : ToSet(g[list]) \subseteq Pools[list] /\ IsInjective(g[list])
    /\ g.retrievers # << >>
    /\ \A p \in Parameters : ValidValue(Numbers[p], g[p])

\* Breeding leaves every genome but one alone, and that one is a child: it differs
\* from a parent in one gene, with the parameters that hang on it, or has every
\* field from one of two.
OneGeneAtATime ==
  [][\E i \in Members :
       /\ \A j \in Members \ {i} : genomes'[j] = genomes[j]
       /\ \/ \E parent \in Members :
               LET changed == {f \in Fields : genomes'[i][f] # genomes[parent][f]}
               IN Cardinality(changed) <= 1 \/ \E slot \in Slots : changed \subseteq {slot, ParamsOf(slot)}
          \/ \E a, b \in Members : \A f \in Fields : genomes'[i][f] \in {genomes[a][f], genomes[b][f]}]_genomeVars

\* Breeding yields genomes the registry can build, and a mutation is one gene of one
\* genome that leaves its parent alone.
GenomesSound == []GenomesBuildable /\ OneGeneAtATime

=============================================================================
