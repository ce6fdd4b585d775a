----------------------------- MODULE KnowledgeGraph -----------------------------
(***************************************************************************)
(* The knowledge graph: EntityGraphBuilder writing InMemoryGraphStore      *)
(* (src/knowledge_index/graph), and who walks it, GraphRetriever           *)
(* (src/knowledge_index/retrieval/retrievers/graph.py) and the tool        *)
(* corpus_neighbors (src/knowledge_index/dci/tools.py).  What an extractor *)
(* finds in a chunk is given with it: entity keys, and pairs that a triple *)
(* relates.  The graph grows chunk by chunk, as build() writes it.         *)
(***************************************************************************)
EXTENDS Totals, SequencesExt

CONSTANTS
  Passages,     \* chunks: [id, entities, triples, acl]
  Callers,      \* sets of principals
  MaxDepth,     \* hops of a walk
  MaxResults    \* ceiling of corpus_neighbors

Weight == 60    \* a common multiple: the score 1/(1+hops) is Weight \div (1+hops)
EntitiesOf(p) == p.entities \cup UNION {{t[1], t[2]} : t \in p.triples}
ASSUME GraphAssumption ==  \* keys are numbers, for their order
  /\ \A p \in Passages :
       /\ p.entities \subseteq Nat /\ p.triples \subseteq Nat \X Nat
       /\ IsFiniteSet(p.entities) /\ IsFiniteSet(p.triples)
       /\ \A t \in p.triples : t[1] # t[2]
  /\ MaxDepth \in 1 .. 4 /\ MaxResults \in Nat \ {0}

VARIABLES
  edges,   \* entity key to its relations' ends, in order (_adj)
  linked   \* entity key to the chunks that mention it, in order (_chunks)

graphVars == <<edges, linked>>

Entities == DOMAIN edges
Built == UNION {Range(linked[e]) : e \in Entities}

-----------------------------------------------------------------------------
\* add_entity keeps what is there.
AddEntity(store, e) ==
  LET kept(list) == [x \in DOMAIN list \cup {e} |-> IF x \in DOMAIN list THEN list[x] ELSE << >>]
  IN  [edges |-> kept(store.edges), linked |-> kept(store.linked)]

\* add_relation: on both ends.
AddRelation(store, s, o) ==
  LET both == AddEntity(AddEntity(store, s), o)
  IN  [both EXCEPT !.edges[s] = Append(@, o), !.edges[o] = Append(@, s)]

\* link_chunk: once per chunk id.
LinkChunk(store, e, p) ==
  LET known == AddEntity(store, e)
  IN  IF p \in Range(known.linked[e]) THEN known ELSE [known EXCEPT !.linked[e] = Append(@, p)]

\* A triple with its chunk on either end.
Relate(store, t, p) == LinkChunk(LinkChunk(AddRelation(store, t[1], t[2]), t[1], p), t[2], p)

GraphInit == edges = << >> /\ linked = << >>

\* build: the entities with their chunk, the triples with theirs, then an edge
\* between any two entities of the chunk.
WriteChunk(p) ==
  LET names == Ascending(p.entities)
      triples == Lexicographic(p.triples)
      pairs == Lexicographic({c \in p.entities \X p.entities : c[1] < c[2]})
      named[n \in 0 .. Len(names)] ==
        IF n = 0 THEN [edges |-> edges, linked |-> linked] ELSE LinkChunk(named[n - 1], names[n], p)
      told[n \in 0 .. Len(triples)] ==
        IF n = 0 THEN named[Len(names)] ELSE Relate(told[n - 1], triples[n], p)
      met[n \in 0 .. Len(pairs)] ==
        IF n = 0 THEN told[Len(triples)] ELSE AddRelation(met[n - 1], pairs[n][1], pairs[n][2])
      store == met[Len(pairs)]
  IN
  /\ p \notin Built
  /\ edges' = store.edges
  /\ linked' = store.linked

GraphNext == \E p \in Passages : WriteChunk(p)
GraphSpec == GraphInit /\ [][GraphNext]_graphVars

-----------------------------------------------------------------------------
\* Walks

\* Mutant: what was reached already is given a distance again.
VisitAnyway(state, n, depth) ==
  IF n > Len(state.order) \/ state.hops[state.order[n]] >= depth THEN state
  ELSE LET key == state.order[n]
           reached == Range(edges[key])
       IN  [order |-> state.order \o NewOf(edges[key], Range(state.order)),
            hops |-> [e \in DOMAIN state.hops \cup reached |->
                        IF e \in reached THEN state.hops[key] + 1 ELSE state.hops[e]]]

\* One turn of the loop: the n-th entity in the queue, if there is one.
Visit(state, n, depth) ==
  IF n > Len(state.order) \/ state.hops[state.order[n]] >= depth THEN state
  ELSE LET key == state.order[n]
           new == NewOf(edges[key], Range(state.order))
       IN  [order |-> state.order \o new,
            hops |-> [e \in DOMAIN state.hops \cup Range(new) |->
                        IF e \in DOMAIN state.hops THEN state.hops[e] ELSE state.hops[key] + 1]]

\* _bfs, _bfs_hops and traverse: every entity is queued once, the first in next.
\* What was taken from the queue stays in the order in which it was reached.
Searched(seeds, depth) ==
  LET state[n \in 0 .. Cardinality(Entities)] ==
        IF n = 0 THEN [order |-> seeds, hops |-> [s \in Range(seeds) |-> 0]]
        ELSE Visit(state[n - 1], n, depth)
  IN  state[Cardinality(Entities)]

MaySee(p, caller) == p.acl = {} \/ p.acl \cap caller # {}

\* GraphRetriever.retrieve: each entity reached adds to its chunks' scores.
Scores(seeds, depth, caller) ==
  LET hops == Searched(seeds, depth).hops
      hits == {p \in UNION {Range(linked[e]) : e \in DOMAIN hops} : MaySee(p, caller)}
      of(p) == {e \in DOMAIN hops : p \in Range(linked[e])}
  IN  [p \in hits |-> Total([e \in of(p) |-> Weight \div (1 + hops[e])], of(p))]

\* A chunk met on the way, until there are enough; one met again nearer is taken again.
TakeChunk(found, p, hops, from, caller) ==
  IF \/ p = from \/ ~MaySee(p, caller) \/ Cardinality(DOMAIN found) >= MaxResults
     \/ p \in DOMAIN found /\ found[p] <= hops
  THEN found
  ELSE [q \in DOMAIN found \cup {p} |-> IF q = p THEN hops ELSE found[q]]

\* corpus_neighbors: the chunks of what is reached, in the order it was reached.
NeighborsOf(from, depth, caller) ==
  LET search == Searched(Ascending({e \in Entities : from \in Range(linked[e])}), depth)
      chunksOf(k) == linked[search.order[k]]
      walk == Lexicographic(UNION {{k} \X DOMAIN chunksOf(k) : k \in DOMAIN search.order})
      found[n \in 0 .. Len(walk)] ==
        IF n = 0 THEN << >>
        ELSE LET k == walk[n][1]
             IN  TakeChunk(found[n - 1], chunksOf(k)[walk[n][2]], search.hops[search.order[k]], from, caller)
  IN  found[Len(walk)]

-----------------------------------------------------------------------------
\* Properties

Times(e, list) == Cardinality({i \in DOMAIN list : list[i] = e})

\* A relation is as often on one end as on the other, and an entity has just
\* the chunks that mention it, in whatever order the chunks came.
GraphTypeOK ==
  /\ DOMAIN linked = Entities
  /\ \A a, b \in Entities : Times(b, edges[a]) = Times(a, edges[b])
  /\ \A e \in Entities :
       /\ IsInjective(linked[e])
       /\ Range(linked[e]) = {p \in Built : e \in EntitiesOf(p)}

\* Reference: entities are related by a triple or by standing in one chunk,
\* and those within some hops of the seeds are found set by set.
RelatedIn(p) ==
  {r \in p.entities \X p.entities : r[1] # r[2]} \cup p.triples \cup {<<t[2], t[1]>> : t \in p.triples}
Related == UNION {RelatedIn(p) : p \in Built}
Wider(related, ball) == ball \cup {r[2] : r \in {pair \in related : pair[1] \in ball}}
Within(related, seeds) ==
  LET ball[n \in 0 .. MaxDepth] == IF n = 0 THEN seeds ELSE Wider(related, ball[n - 1])
  IN  ball
Distance(ball, e) == Min({n \in DOMAIN ball : e \in ball[n]})
SeedSets == {S \in SUBSET Entities : Cardinality(S) \in 1 .. 2}

\* A walk of so many hops finds exactly the entities that near, each at its least
\* distance, however the edges were written and cycles run.  The distances are those
\* of the whole graph: a chunk the caller may not see relates entities all the same.
HopsAreDistances ==
  LET related == Related IN
  \A seeds \in SeedSets :
    LET ball == Within(related, seeds) IN
    \A depth \in 0 .. MaxDepth :
      Searched(Ascending(seeds), depth).hops = [e \in ball[depth] |-> Distance(ball, e)]

\* A chunk with as many of its entities within every distance as another one
\* has does not score less, and with more somewhere scores higher.
CloserScoresHigher ==
  LET related == Related IN
  \A seeds \in SeedSets, caller \in Callers :
    LET ball == Within(related, seeds)
        score == Scores(Ascending(seeds), MaxDepth, caller)
        near == [p \in Built |-> [n \in DOMAIN ball |-> Cardinality(EntitiesOf(p) \cap ball[n])]]
    IN  \A p, q \in DOMAIN score :
          /\ MaySee(p, caller)
          /\ (\A n \in DOMAIN ball : near[p][n] >= near[q][n])
               => IF near[p] = near[q] THEN score[p] = score[q] ELSE score[p] > score[q]

\* The chunks next to a chunk are the nearest of those a caller may see, at their least
\* distance in the whole graph: none is cut off while a farther one is shown.
NeighborsAreNearest ==
  LET related == Related IN
  \A p \in Built, caller \in Callers, depth \in 0 .. MaxDepth :
    LET ball == Within(related, EntitiesOf(p))
        there(q) == EntitiesOf(q) \cap ball[depth]
        near == [q \in {x \in Built \ {p} : MaySee(x, caller) /\ there(x) # {}} |->
                   Min({Distance(ball, e) : e \in there(q)})]
        shown == NeighborsOf(p, depth, caller)
    IN  EntitiesOf(p) # {} =>
          /\ \A q \in DOMAIN shown : q \in DOMAIN near /\ shown[q] = near[q]
          /\ Cardinality(DOMAIN shown) = Min({MaxResults, Cardinality(DOMAIN near)})
          /\ \A q \in DOMAIN shown, r \in DOMAIN near \ DOMAIN shown : near[q] <= near[r]

\* The search goes by the distances of the graph that was built, the caller's and the
\* others' chunks alike; scores and neighbours follow them, and only the chunks shown
\* are the caller's.
GraphSound ==
  /\ GraphTypeOK
  /\ HopsAreDistances
  /\ CloserScoresHigher
  /\ NeighborsAreNearest

=============================================================================
