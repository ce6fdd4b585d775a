------------------------------- MODULE Routing -------------------------------
(***************************************************************************)
(* What happens to a query before it is retrieved                          *)
(* (src/knowledge_index/retrieval/routers, query_ops, retrievers/base.py): *)
(* a strategy is chosen, filters are merged, query ops add reformulations  *)
(* and the retrievers build the filters of the index.                      *)
(***************************************************************************)
EXTENDS Naturals, FiniteSets, SequencesExt, Totals

CONSTANTS
  Weightings,  \* tunable weights: of every signal, and the threshold
  Phrases,     \* texts: of queries and of what a model makes of them
  FilterKeys,  \* keys of filters, with "acl" and "user_principals" among them
  Wired,       \* strategies RouterPipeline has a variant for
  QueryOps,    \* pipelines of query ops: sequences of names
  MaxLines     \* bound: lines of a decomposition

Signals == {"quoted", "backticked", "identifier", "keyword", "bridge", "long"}
DciStrategies == {"dci", "dci_then_vector", "vector_then_dci"}
Blank == ""  \* the empty text
ASSUME RoutingAssumption == (\A w \in Weightings : w \in [Signals \cup {"threshold"} -> Nat]) /\ MaxLines \in Nat

VARIABLE route  \* the query on its way: what it shows, and what was made of it

-----------------------------------------------------------------------------
\* HeuristicRouter.decide: the weights of the signals shown, for the corpus
\* tools, the vector search and both.
Weigh(shown, signals, w) == Total(w, shown \cap signals)
DciSigns == {"quoted", "backticked", "identifier", "keyword"}

Pick(dci, vector, bridge, w) ==
  CASE bridge >= w.threshold /\ dci > 0 /\ vector > 0 -> IF dci >= vector THEN "dci_then_vector" ELSE "vector_then_dci"
    [] bridge >= w.threshold /\ ~(dci > 0 /\ vector > 0) -> "dci_then_vector"
    [] bridge < w.threshold /\ dci >= w.threshold /\ dci >= vector -> "dci"
    [] OTHER -> "hybrid"

Decide(shown, w) == Pick(Weigh(shown, DciSigns, w), Weigh(shown, {"long"}, w), Weigh(shown, {"bridge"}, w), w)

\* RouterPipeline._select: what has no variant of its own goes to hybrid.
Select(strategy) == IF strategy \in Wired THEN strategy ELSE "hybrid"

\* The query's own filters win over the router's.
Merged(decided, own) ==
  [key \in DOMAIN own \cup DOMAIN decided |-> IF key \in DOMAIN own THEN own[key] ELSE decided[key]]

\* Mutant: the caller's principals are put in only where the query has none.
SearchFiltersAdded(filters, principals) ==
  [key \in DOMAIN filters \cup {"acl"} |-> IF key \in DOMAIN filters THEN filters[key] ELSE principals]

\* build_search_filters: access is never taken from the filters of the query.
SearchFilters(filters, principals) ==
  [key \in (DOMAIN filters \ {"user_principals"}) \cup {"acl"} |-> IF key = "acl" THEN principals ELSE filters[key]]

-----------------------------------------------------------------------------
\* Rewriter and Stepback: what is empty, the query itself or known is dropped.
AddRewrite(rewrites, raw, text) ==
  IF text \in {Blank, raw} \cup Range(rewrites) THEN rewrites ELSE Append(rewrites, text)

AddHyde(hyde, text) == IF text \in {Blank} \cup Range(hyde) THEN hyde ELSE Append(hyde, text)

\* Decomposer: one line that is the query itself is no decomposition.
AddSubQueries(subs, raw, lines) ==
  LET new == NewOf(lines, {Blank})
  IN  IF new = << >> \/ new = <<raw>> THEN subs ELSE subs \o NewOf(new, Range(subs))

\* The dense retriever embeds the first rewrite, the sparse one the query itself.
DenseText(r) == IF r.rewrites # << >> THEN Head(r.rewrites) ELSE r.raw

FilterSets == UNION {[keys -> {"query"}] : keys \in SUBSET FilterKeys}

RoutingInit ==
  \E shown \in SUBSET Signals, w \in Weightings, raw \in Phrases \ {Blank}, filters \in FilterSets, ops \in QueryOps :
    route = [stage |-> "route", shown |-> shown, weights |-> w, raw |-> raw, filters |-> filters, own |-> filters, ops |-> ops,
             variant |-> "", rewrites |-> << >>, hyde |-> << >>, subs |-> << >>, sent |-> << >>]

\* RouterPipeline.retrieve; a model that routes may infer any filters.
Routed ==
  /\ route.stage = "route"
  /\ \E keys \in SUBSET FilterKeys :
       route' = [route EXCEPT !.stage = "transform", !.variant = Select(Decide(route.shown, route.weights)),
                              !.filters = Merged([key \in keys |-> "router"], @)]

Transform ==
  /\ route.stage = "transform" /\ route.ops # << >>
  /\ \/ /\ Head(route.ops) \in {"rewriter", "stepback"}
        /\ \E text \in Phrases :
             route' = [route EXCEPT !.ops = Tail(@), !.rewrites = AddRewrite(@, route.raw, text)]
     \/ /\ Head(route.ops) = "hyde"
        /\ \E text \in Phrases : route' = [route EXCEPT !.ops = Tail(@), !.hyde = AddHyde(@, text)]
     \/ /\ Head(route.ops) = "decompose"
        /\ \E lines \in SeqOf(Phrases, MaxLines) :
             route' = [route EXCEPT !.ops = Tail(@), !.subs = AddSubQueries(@, route.raw, lines)]

Send ==
  /\ route.stage = "transform" /\ route.ops = << >>
  /\ route' = [route EXCEPT !.stage = "sent",
                            !.sent = [dense |-> DenseText(route), sparse |-> route.raw,
                                      filters |-> SearchFilters(route.filters, "session")]]

RoutingNext == Routed \/ Transform \/ Send
RoutingSpec == RoutingInit /\ [][RoutingNext]_route

-----------------------------------------------------------------------------
\* Properties

\* However the weights are tuned, a further sign of an exact lookup never takes
\* a query away from the corpus tools.
MoreSignsMoreLookup ==
  \A s \in DciSigns :
    Decide(route.shown, route.weights) \in DciStrategies =>
      Decide(route.shown \cup {s}, route.weights) \in DciStrategies

\* What reaches the index is limited to the caller's session, whatever filters
\* came with the query or from the router; the query's other filters all hold.
SessionDecides ==
  route.stage = "sent" =>
    LET sent == route.sent.filters
        trusted == DOMAIN route.own \ {"acl", "user_principals"} IN
    /\ sent["acl"] = "session" /\ "user_principals" \notin DOMAIN sent
    /\ \A key \in trusted : key \in DOMAIN sent /\ sent[key] = "query"

\* Reformulations of however many ops are new texts: none is empty, none twice,
\* and none that is embedded in place of the query is the query itself.
ReformulationsNew ==
  LET Distinct(s) == \A i, j \in DOMAIN s : i # j => s[i] # s[j] IN
  /\ Distinct(route.rewrites) /\ Distinct(route.hyde) /\ Distinct(route.subs)
  /\ Blank \notin Range(route.rewrites \o route.hyde \o route.subs)
  /\ route.raw \notin Range(route.rewrites)

\* Another sign of a lookup never leads away from it, the filters of the session
\* cannot be overruled, and reformulations are never what was there.
RoutingSound == MoreSignsMoreLookup /\ SessionDecides /\ ReformulationsNew

=============================================================================
