------------------------------- MODULE Caches -------------------------------
(***************************************************************************)
(* RetrievalCache (src/harness/cache/retrieval_cache.py) under LLMRouter,  *)
(* which keeps its decisions in it, and EmbeddingCache                     *)
(* (src/harness/cache/embedding_cache.py) under embed_documents.  Both are *)
(* looked up before an await and filled after it.                          *)
(***************************************************************************)
EXTENDS Naturals, FiniteSets, SequencesExt, Totals

CONSTANTS
  Askers,      \* tasks that use the caches
  Questions,   \* a query with its filters, hashed
  MaxSize,     \* entries of the retrieval cache
  TimeToLive,
  Texts,
  MaxBatch,    \* bound: texts embedded in a call
  MaxTime,     \* bound: of the clock
  MaxDecided   \* bound: decisions made and batches embedded

ASSUME CachesAssumption ==
  /\ MaxSize \in Nat \ {0} /\ TimeToLive \in Nat \ {0} /\ {MaxBatch, MaxTime, MaxDecided} \subseteq Nat

VARIABLES
  store,      \* the entries, the least recently used first
  clock,
  vectors,    \* texts with an embedding on file, each with the vector's text
  asker,      \* what every task is doing
  decided,    \* history: decisions, each [question, at]
  since,      \* history: question to the other questions used since it was last
  answer,     \* history: the decision a task was given last, for what and when
  given       \* history: the vectors a task was given last, with their texts

cacheVars == <<store, clock, vectors, asker, decided, since, answer, given>>

Idle == [doing |-> "nothing"]
Held(q) == {i \in DOMAIN store : store[i].key = q}
Place(q) == CHOOSE i \in Held(q) : TRUE
Entry(q) == store[Place(q)]
Others(q) == IF Held(q) = {} THEN store ELSE RemoveAt(store, Place(q))

\* The question is used: its count starts anew, those of the others go on.
Used(q) == [p \in {q} \cup DOMAIN since |-> IF p = q THEN {} ELSE since[p] \cup {q}]

-----------------------------------------------------------------------------
CachesInit ==
  /\ store = << >>
  /\ clock = 0
  /\ vectors = << >>
  /\ asker = [t \in Askers |-> Idle]
  /\ decided = << >>
  /\ since = << >>
  /\ answer = << >>
  /\ given = << >>

Tick ==
  /\ clock < MaxTime /\ clock' = clock + 1
  /\ UNCHANGED <<store, vectors, asker, decided, since, answer, given>>

\* route: the cache first, where get marks a live entry as used last and drops
\* an expired one; on a miss the classifier.
Ask(t, q) ==
  /\ asker[t] = Idle
  /\ IF Held(q) # {} /\ clock < Entry(q).expires
     THEN /\ store' = Append(Others(q), Entry(q))
          /\ since' = Used(q)
          /\ answer' = <<q, Entry(q).value, clock>>
          /\ UNCHANGED asker
     ELSE /\ store' = Others(q)
          /\ asker' = [asker EXCEPT ![t] = [doing |-> "ask", question |-> q]]
          /\ UNCHANGED <<since, answer>>
  /\ UNCHANGED <<clock, vectors, decided, given>>

\* put refreshes an entry and its expiry, and evicts the least recently used.
Put(q, value) ==
  LET with == Append(Others(q), [key |-> q, value |-> value, expires |-> clock + TimeToLive])
  IN  IF Len(with) > MaxSize THEN Tail(with) ELSE with

\* The classifier has answered.
Decide(t) ==
  /\ asker[t].doing = "ask" /\ Len(decided) < MaxDecided
  /\ LET q == asker[t].question IN
     /\ decided' = Append(decided, [question |-> q, at |-> clock])
     /\ store' = Put(q, Len(decided'))
     /\ since' = Used(q)
     /\ answer' = <<q, Len(decided'), clock>>
  /\ asker' = [asker EXCEPT ![t] = Idle]
  /\ UNCHANGED <<clock, vectors, given>>

Untouched(p) == [q \in DOMAIN since \ p |-> since[q]]
Invalidate(q) ==
  /\ Held(q) # {}
  /\ store' = Others(q) /\ since' = Untouched({q})
  /\ UNCHANGED <<clock, vectors, asker, decided, answer, given>>

Clear ==
  /\ store # << >> /\ store' = << >> /\ since' = << >>
  /\ UNCHANGED <<clock, vectors, asker, decided, answer, given>>

\* What zip makes of two lists in a dict: a later pair replaces an earlier one.
Zipped(keys, values) ==
  [x \in Range(keys) |-> values[Max({i \in DOMAIN keys : keys[i] = x})]]

\* A dict with the pairs of another added to it.
Updated(file, new) ==
  [x \in DOMAIN new \cup DOMAIN file |-> IF x \in DOMAIN new THEN new[x] ELSE file[x]]

\* embed_documents: what is on file is looked up, the rest goes to the model, each
\* text once.
Embed(t, texts) ==
  LET hits == [x \in Range(texts) \cap DOMAIN vectors |-> vectors[x]] IN
  /\ asker[t] = Idle
  /\ asker' = [asker EXCEPT ![t] = [doing |-> "embed", texts |-> texts, hits |-> hits,
                                    misses |-> NewOf(texts, DOMAIN hits)]]
  /\ UNCHANGED <<store, clock, vectors, decided, since, answer, given>>

Handed(texts, got) ==
  [i \in DOMAIN texts |-> <<texts[i], IF texts[i] \in DOMAIN got THEN got[texts[i]] ELSE "">>]

\* Mutant: the vectors are matched with the texts still missing, repeats and all.
StoreByPlace(t) ==
  LET its == asker[t]
      missing == SelectSeq(its.texts, LAMBDA x : x \notin DOMAIN its.hits)
      new == Zipped(SubSeq(missing, 1, Len(its.misses)), its.misses)
  IN
  /\ its.doing = "embed"
  /\ vectors' = Updated(vectors, new)
  /\ given' = Handed(its.texts, Updated(its.hits, new))
  /\ asker' = [asker EXCEPT ![t] = Idle]
  /\ UNCHANGED <<store, clock, decided, since, answer>>

\* The model has answered with one vector for each text, in order: put on file
\* one by one, and handed out in the order asked.
Store(t) ==
  LET its == asker[t]
      new == Zipped(its.misses, its.misses)
  IN
  /\ its.doing = "embed"
  /\ vectors' = Updated(vectors, new)
  /\ given' = Handed(its.texts, Updated(its.hits, new))
  /\ asker' = [asker EXCEPT ![t] = Idle]
  /\ UNCHANGED <<store, clock, decided, since, answer>>

\* The model's answer does not come or cannot be read; one with too few vectors
\* or too many is noticed after those that have a text have been put on file.
NoAnswer(t) ==
  LET its == asker[t] IN
  /\ its # Idle
  /\ asker' = [asker EXCEPT ![t] = Idle]
  /\ \/ UNCHANGED vectors
     \/ /\ its.doing = "embed"
        /\ \E n \in DOMAIN its.misses :
             LET some == SubSeq(its.misses, 1, n) IN vectors' = Updated(vectors, Zipped(some, some))
  /\ UNCHANGED <<store, clock, decided, since, answer, given>>

CacheNext ==
  \/ Tick \/ Clear \/ \E q \in Questions : Invalidate(q)
  \/ \E t \in Askers : Decide(t) \/ NoAnswer(t) \/ \E q \in Questions : Ask(t, q)

EmbeddingNext ==
  \E t \in Askers :
    \/ Store(t) \/ NoAnswer(t)
    \/ \E n \in 1 .. MaxBatch : \E texts \in [1 .. n -> Texts] : Embed(t, texts)

CachesSpec == CachesInit /\ [][CacheNext \/ EmbeddingNext]_cacheVars

-----------------------------------------------------------------------------
\* Properties

\* The cache is bounded, has one entry for a key and none that outlives its time.
CachesTypeOK ==
  /\ Len(store) <= MaxSize
  /\ \A i, j \in DOMAIN store :
       /\ store[i].key = store[j].key => i = j
       /\ store[i].expires <= clock + TimeToLive
  /\ DOMAIN vectors \subseteq Texts

\* The router's answer to a question was decided for that question, and less
\* than the time to live ago, however many tasks ask for it at a time.
DecisionsFresh ==
  answer # << >> =>
    LET made == decided[answer[2]] IN made.question = answer[1] /\ answer[3] < made.at + TimeToLive

LastDecided(q) == Max({decided[i].at : i \in {j \in DOMAIN decided : decided[j].question = q}})

\* A decision is still in the cache while it lives, unless it was taken out or
\* as many other questions as the cache has room for were used since.
LeastUsedEvicted ==
  \A q \in DOMAIN since :
    Cardinality(since[q]) < MaxSize /\ clock < LastDecided(q) + TimeToLive => Held(q) # {}

\* Every text is given its own vector, in its place, whichever of them were on
\* file and however often it is repeated; so is every vector on file.
EmbeddingsAligned ==
  /\ \A x \in DOMAIN vectors : vectors[x] = x
  /\ \A i \in DOMAIN given : given[i][1] = given[i][2]

\* Answers of the caches are fresh, made for what was asked, and on file for as long
\* as use and bound allow, whatever is computed, expires or fails meanwhile.
CachesSound ==
  /\ CachesTypeOK
  /\ DecisionsFresh
  /\ LeastUsedEvicted
  /\ EmbeddingsAligned

=============================================================================
