# Knowledge agents in TLA+

TLA+ specifications of the Knowledge Agents repository: an agent harness that
answers questions over a knowledge index within a hard budget, the index and its
retrieval, and an evolutionary loop that improves the configuration of both. Each
module is translated from the Python source. TLC checks small instances, and
TLAPS proves the main safety properties, those of the core first, for every value
of the constants. `PROJECT.json` lists for every definition the source lines it stands
for, for every property the run that checks it and a plausible bug that breaks
it, and for every hazard of the code the properties that would notice it.

    tlc -workers 2 -config Orchestrator_thread.cfg MCOrchestrator
    tlapm BudgetTracker_proofs.tla

## 1. The system

All paths are below `src/src/` of the repository.

### The harness

| Part | State | Operations | Talks to | Module |
|---|---|---|---|---|
| Budget tracker, `harness/budget/tracker.py` | limit, `_reserved`, `_consumed`, open grants, `_parent`, a lock per tracker | `reserve`, `consume` with its climb through the ancestors, `child_budget`, `available` | every caller that spends | `BudgetTracker` |
| Orchestrator, `harness/orchestrator/graph.py` | `OrchestratorState` on a checkpointed thread | the twelve nodes, the conditional edges, interrupt and resume, `answer()` | all of the harness | `Orchestrator` |
| Planner, `harness/planning/todo.py` | steps with dependencies and status | `plan`, `execute` in concurrent waves, `adapt` | a language model; `run_step` of the caller | `TodoPlanner` |
| Sub-agents, `harness/subagents` | a tracker and a graph per child | `spawn_all`, the default handler | the parent's tracker; the enforcer, shared with the siblings | `SubAgents` |
| Citation enforcer and packer, `harness/citation`, `context` | `_last_cost`, `_last_tokens` | `enforce`, `pack`, `order_evidence` | a language model | `Answering`, also `SubAgents` |
| Compaction, `harness/compaction` | the history of a thread | `should_compact`, three ways to `compact` | memory, a summariser | `Compaction` |
| Permission gates, `harness/permissions` | the action waited for, the approval | `evaluate_gates`, the gate node, its resumption | the runtime's interrupt, a person | `Permissions` |
| Memory, `harness/memory` | scratchpad, session table, vector collection | `remember`, `consolidate`, `recall`, `forget` | embedder, index | `Memory` |
| Caches, `harness/cache` | entries with expiry, in order of use | `get`, `put` around an await | router, embedder | `Caches` |
| Sandbox, `harness/sandbox` | directories, containers, watching threads | `execute` of a call, timeout, cancellation | tools, a docker daemon | `Sandbox` |
| Skills, `harness/skills` | manifests, in order of discovery | `discover`, `select`, `load` | the disk, a classifier | `Skills` |

### The knowledge index

| Part | State | Operations | Talks to | Module |
|---|---|---|---|---|
| Qdrant index and ingestion, `knowledge_index/indexing`, `pipeline.py` | a remote collection; whether it was ensured | `ingest`, `upsert`, `delete`, `snapshot`, `restore` | the server | `KnowledgeIndex` |
| Enrichment, `knowledge_index/enrichment` | a semaphore, calls under way | `enrich` of a document | a language model | `Enrichment` |
| Parsers, near-duplicates, chunkers, `ingestion`, `chunking` | banded signatures; else none | `parse_path`, `cluster`, `build_chunks` | libraries | `Parsing`, `Dedup`, `Chunking` |
| Corpus tools, `dci` | documents put back together from chunks | `add_chunks`; `ls`, `glob`, `read`, `grep` | their caller's access list | `Corpus` |
| Knowledge graph, `graph` | entities, relations, links to chunks | `build`, `traverse`, the retriever, the neighbours tool | extractors | `KnowledgeGraph`, `Extraction` |
| Iterative retriever, `retrieval/iterative` | evidence, queries asked, a grant per hop | `retrieve` | a budget tracker, a judge | `Iterative` |
| Pipeline, fusion, reranking, post-processors | candidates of a query | the stages of `retrieve` | retrievers, a reranker | `Ranking`, `Spans` |
| Routers and query operations | none | route, merge filters, expand | a language model | `Routing`, `Caches` |

### Self-improvement and evaluation

| Part | State | Operations | Talks to | Module |
|---|---|---|---|---|
| Evolutionary loop and guard, `self_improvement/evolutionary`, `budget_guard` | population, report; spend of run and day, trip reason | `run`: assess, select, breed; `record_spend`, `start_generation` | evaluator, reviewer, ledger | `EvolutionLoop` |
| Genome and registry, `evolutionary/genome.py`, `registry` | the declared components | sample, mutate, cross; realise a pipeline | | `Genome`, `Registry` |
| Ledger, `self_improvement/ledger` | append-only files | `append`, `update_status`, `read`, `lineage` | the disk | `Ledger` |
| Reviewer, `self_improvement/reviewer` | none | four checks and a verdict | a language model | `Reviewer` |
| PR generator, `self_improvement/pr_gen` | a working tree, branches, pull requests | `generate` | git, GitHub | `PRGenerator` |
| Evaluation, `evaluation` | datasets, reports, the flag of evolution mode | `run`, the metrics, `load` | a pipeline | `Evaluation`, `Spans` |

What is hard about them:

- **Concurrency.** `consume()` gives up its tracker's lock before it takes its
  parent's. Coroutines run between each other's awaits: the steps of a wave, the
  sub-agents of a fan-out, queries of an evaluation, calls of an enrichment,
  writers of a memory or a collection.
- **Failure.** A refused `consume` restores what it released; any component of
  the graph may raise; a batch fails after money was spent; a model call fails
  while its siblings go on; a process dies in the middle of a ledger line or
  between the two halves of a restore; a pull request stops half-way.
- **Ordering.** The tests in `route_decision`; compaction against delegation; a
  cut to `k` before or after a reordering; the gravest of several gates.
- **Staleness.** Questions on threads with the state of earlier ones; `by_id` of
  a replanned plan; `_last_cost`; lists read before an await and used after it.
- **Timeouts and retries.** A tool's answer races its timer; cached decisions
  expire while they are computed; an ingestion or a pull request is tried again.
- **Edges.** Ties, empty lists, repeated sentences and chunks, spans and windows,
  labels on two levels.
- **Termination.** The graph of nodes, the loop of `execute()` and the judge of
  the iterative retriever are cyclic.

What makes them correct: no tracker passes its ceiling and no money is counted
twice or lost; a spawn is authorised, and happens once; an answer cites what its
turn found; a step starts after its predecessors, and a failure stops exactly its
dependents; nothing said or worth remembering is lost unread; the index holds
documents whole; a caller sees what its access list allows, and finds it; a
ranking keeps the best; a metric measures what its name says; the search keeps its
best candidate, its books and its lineage; only what was accepted is proposed; and
everything that is started ends.

## 2. The modules

### How they are put together

Every module has one component: its variables, `Init`, one action per operation
or step, `Next`, and its properties: named parts, one hazard each, and what the
component promises as the conjunction of them, which is what a run checks.
Operators that begin with the comment "Mutant:" are bugs a maintainer could make.
Nothing uses them; each stands before the definition it would replace.

Components that interact are modelled together: the tracker tree with its
callers, the orchestrator with planner, gates, compactor and enforcer, the
fan-out with the parent's budget and the shared enforcer (`SubAgents`), the
loop with its guard and ledger (`EvolutionLoop`), ingestion with the collection
(`KnowledgeIndex`) and with the enrichment (`Enrichment`), the router with its
cache (`Caches`), the hops with the budget they are paid from (`Iterative`).

Components that share no state are checked side by side by one run: an MC module
extends them and adds a variable `subject`, chosen at first, that tells which of
them takes steps; the others rest. The state space of such a run is the sum of
its parts, and its properties are theirs.

| MC module | Components |
|---|---|
| `MCOrchestrator` | one |
| `MCSelfImprovement` | `EvolutionLoop`, `Ledger`, `Genome`, `Reviewer`, `PRGenerator`, `Registry` |
| `MCKnowledge` | `KnowledgeIndex`, `Dedup`, `Chunking`, `Corpus`, `KnowledgeGraph`, `Parsing`, `Extraction` |
| `MCHarness` | `TodoPlanner`, `Memory`, `Caches`, `Answering`, `Compaction`, `Skills`, `Permissions` |
| `MCCalls` | `Sandbox`, `Enrichment`, `SubAgents` |
| `MCRetrieval` | `BudgetTracker`, `Iterative`, `Ranking`, `Routing`, `Evaluation`, `Spans` |

`Totals` has the sum of a function over a finite set, as a cardinality, the
elements of a finite set in a given order, by counting those before each, and what is
new in a sequence (`NewOf`);
`HardCeiling` is the abstract promise of a budget, a spend that grows up to a
limit, which `BudgetTracker` and `SubAgents` both implement. `*_proofs` hold the
theorems.

Pure algorithms are operators (folds and recursive functions, no recursive
operators), compared with a second definition that does not work like the code: components of similarity for
the union-find, distances for the search of the graph, runs of sentences for the
span extractor, the lines of a file for the block parser. They are checked over
all inputs up to a bound, as initial states.

In modules with proofs a loop is defined by what it computes, where that can be said
without the order of its turns, because a proof about a fold takes an induction.
`Carvings` are the sequences of ceilings of which each is what `_carve_child` takes of
the rest; `SkippedInPass` are the steps one pass of the cascade marks, a pass being
able to see only what lies before a step; `Best` of the loop, `DedupAndRank` of the iterative
retriever and `Percentile` list a set in its order (`InOrder`), the embedder and the
decomposer take what is new (`NewOf`), weights and gains are sums (`Total`); the ledger's reader finds, for an id, the
line with no other of that id after it, and `EvaluateGates` the first gate that trips.
Likewise `Walked` and `Selected` of the skills, `Chain` of the ledger, and in `Ranking`
what is fused (`Fusion`), opened by a parent (`Expand`) or first of its text (`Deduplicate`)
are a set in its order. Where the turns matter, as one sees what the turns before have
come to, the loop is a recursive function over the number of turns: a lineage generation
by generation (`Lineages`), a chunk's score list by list (`FusedScore`), what MMR has
selected so far (`Picked`), the union-find link by link (`Parents`) and its way up (`Find`), an answer segment by segment
(`Enforce`), the chunks of a document piece by piece (`BuildChunks`) and together again (`AddChunks`),
a tree of paths level by level (`Walk`), the graph triple by triple (`WriteChunk`), its search entity by
entity (`Searched`) and what is shown of it chunk by chunk (`NeighborsOf`). The definitions that check them, such as `Downstream`, stay
of another kind.

### The core

**BudgetTracker.** One step is one critical section of one tracker's lock.
`Consume` and `ConsumeRefused` are the two outcomes of `consume()` on the grant's
own tracker. `Consume` leaves the grant `climbing`, and each `AbsorbChildSpend`
is `_absorb_child_spend` on the next ancestor; anything may run in between.
`Reserve` and `ChildBudget` return at once when they would raise, and so are not
steps then. A grant may be settled with any cost, also more than it reserved, and
may be tried again after a refusal. Money is in whole units.

**Orchestrator.** `pc` is the node that runs next, and an action is a node with
the edge it leaves by: that is what the checkpointer makes atomic. `Raise` is any
exception of a component. `Gate` and `Resume` are the two halves of the gate node
around its `interrupt`; a person's answer comes as a mapping, as an object or bare, and
`Approves` is what the node makes of it, which is not always what the person meant: an
object is true whatever it says (`graph.py:394`). `Ask` is `answer()` on a thread that has stopped, however
it has stopped: it overwrites the state with `initial_state`. What models,
retrievers and people decide is a free choice: a plan is the number of legs
`delegatable_steps` finds in it, evidence a set of chunk ids, the conversation
whether it is too long. `gathered`, `spawns`, `dciHops` and `answered`, the person's answer, are
history variables.

**TodoPlanner.** `Dispatch`, `CascadeOn` and `Return` are the rounds of the loop
in `execute()`; `StartStep` and `FinishStep` the coroutines of a wave. The model
may write any plan `_parse_steps` accepts. `Adapt` replaces the plan between two
executions, keeps the finished steps, and may bring ids that collide with theirs.

**SubAgents.** `spawn_all` carves the children one after the other before any of
them runs, so the ceilings are part of `Init`. Then each child retrieves, drafts
or refuses, finalizes and settles; a step runs from one await to the next.
`Draft` leaves its price in the enforcer's `_last_cost`, and `Finalize` reads it.

**EvolutionLoop.** `Assess` is one turn of the loop in `_assess`: score, charge,
append. `Charge` is the adapter over `record_spend` and `record_compute`, which
swallows the breach and leaves the guard tripped. `AppendFails` and `BatchFails`
are the calls that raise. The calendar day may turn at any time (`Midnight`).

### The parts

**Ledger** - a file is its lines; a line that lost its newline takes the next
one with it. `DieAppending` and `DieUpdating` leave any part of a line, `Reopen`
is the next process.
**Genome** - operators yield the sets of results the random generator may
choose from; a population of any size is bred from a configuration known to be good.
**Reviewer** - metrics are integers in a unit that means divide exactly, means and
variances are compared by cross-multiplication. **Registry** - a configuration is
realised component by component, and the first thing wrong decides the error.
**PRGenerator** - one step is one subprocess or request; `EditBase` and `Merge`
are people.

**KnowledgeIndex** - one step is one request to the server; workers are
processes that may die between two. **Enrichment** - one step runs from await
to await; a task that lost its ingestion goes on. **Corpus** - offsets count
characters, form feeds are line breaks for `splitlines` alone. **Dedup** -
signatures agree in any of their places; hashing is left out. **Chunking** - a text is
a sequence of letters, and a splitter any cut of it into pieces that leaves nothing out;
they may overlap, as those of the recursive and of the header chunker do by default.
**Parsing**, **Extraction** - files are sequences of lines, excerpts of words.
**KnowledgeGraph** grows chunk by chunk as the builder writes it; entities and
triples of a chunk are given with it, and `Extraction` shows that triples lead
from one node to another, which the graph assumes.

**Memory** - calls of several users meet between the embedding and the write,
and between the list and the delete. **Caches** - a lookup, an await, a fill; a
clock that may tick at any time. **Answering** - sizes and lengths instead of
texts. **Compaction** - a message is its number, repeated; a note knows which
messages its writer was given. **Skills** - the disk changes at any time.
**Permissions** - both gate nodes there are, and every form of reply. **Sandbox**
- two threads share executor, disk and daemon; `Timer` and the tool's own end race. Every
removal may fail: of a directory silently, as `rmtree` ignores its errors; of a read-only one
with an exception in place of the answer, or of a cancellation, which is lost; of a container
with an exception too. A container may be created and not started, and stays then; the worker
thread of a cancelled call goes on, and the daemon makes its directory anew. `stuck` is the
history of directories that could not be removed. That the docker SDK is installed is assumed
of a `DockerSandbox`.

**Iterative** - a hop reserves, retrieves and pays from a tracker others spend
from. **Ranking** - any number of retrievers answer in any order, each with
its best first and no chunk twice, then the stages of a configured pipeline; scores are
integers in a unit that all divisors met divide.
**Routing** - a query goes through router, operations and filters. **Evaluation**
- queries run concurrently, fail, and are scored. **Spans** - texts of words,
stops and blanks.

## 3. What the runs check

A passing run checks safety and liveness together. In brackets are the named parts
of a property, as they stand in the module. Every property of a passing run is
broken by a mutant of the code under the same bounds, so the bounds are large
enough for the case it is about. Runs do not check for deadlock: in every
system here work comes to an end, and `TurnEnds`, `ExecuteReturns`, `RunEnds` and
`CallsComeBack` state that it does.

**`Orchestrator_thread`** - two turns under seven wirings; plans of up to three
legs where the gate trips at more than two; two hops, one unit of budget, one
queued call, one chunk. Two turns are what it takes for state to leak from one to
the other, one chunk what it takes for a citation to be grounded or not.
`SpawnsWithinAuthority` (`SpawnAuthorised`, `DelegatesOnce`): with gates, more
sub-agents than the cap run only when a person was asked in the same turn, and none
after a refusal the gate node can read, one that came as a mapping or bare; that it does
not read the others is the finding of `Permissions_denial`. `AnswersOnEvidence`
(`CitationsGrounded`, `ToolsRunBeforeAnswer`), `GatheringSound`
(`StrategyDecidesHops`, `DelegatedEvidenceKept`), and `TurnEnds`.

**`SelfImprovement_parts`** - the loop with seeds and two generations of two
candidates; every ceiling can be breached, in the middle of a batch and at its end.
`EvolutionSound` (`EliteKept`, `OvershootBounded`, `BooksAgree`, `LineageOnFile`,
`GenerationsWithinCeiling`), `RunEnds`. Beside it, a ledger of three experiments over
two files with one death; genomes of two chunkers bred from a seed; reviews of six
reports with up to three ancestors; three candidates, two of them accepted, in four
calls with two edits by people; configurations with every kind of mistake under every
wiring. `LedgerSound`: what was written is read (`WritesKept`), ancestors come in
order and once (`LineageInOrder`). `GenomesSound`: bred genomes can be built
(`GenomesBuildable`) and differ in one gene (`OneGeneAtATime`). `AcceptMeansProven`.
`PullRequestsSound`: one pull request per candidate, with its text, and only for the
accepted (`OnePRPerCandidate`, `ProposesItsConfig`, `LandsAcceptedOnly`).
`RealisationSound`: a pipeline is realised whole or fails by its first error
(`RealisedWhole`, `FirstErrorFirst`).

**`Knowledge_parts`** - two workers, two documents of three chunks, pages of one
point, four operations and a death; signatures of three hashes over three
documents, one of them added twice; texts of five letters; corpora of three
chunks; graphs of six entities; files of four lines; excerpts of four words.
`IndexSound` (`WholeDocuments`, `SnapshotFaithful`, `RestoreExact`), `DedupSound`
(`ClustersAreComponents`, `OneKeptOfEach`), `ChunksSound` (`SpansTrue`,
`SpansOwn`, `WindowsComplete`), `CorpusSound` (`WindowsMakeTheText`, `GrepCitesItsLines`,
`WalkFindsAll`), `GraphSound` (`HopsAreDistances`, `CloserScoresHigher`,
`NeighborsAreNearest`), `ParsingSound` (`EveryLineOnce`, `OutlineTrue`,
`TitleOfItsOwn`), `RelationsGrounded`.

**`Harness_parts`** - every plan of up to three steps (chains, forks, cycles, dangling
and self dependencies) and every replacement of up to two, with colliding ids.
`PlanSound` (`DependenciesResolve`, `StartsAfterPredecessors`, `ExactCasualties`
against the least set closed under dependency, `OnlyCyclesLeftBehind`),
`FinishedStaysFinished`, `ExecuteReturns`. Beside it, two overlapping calls of two
users and the public, two keys; a cache of two for three questions and two tasks;
rankings of five, drafts of four segments; six messages with repeated compaction; two
skills of one name; two actions on one thread. `MemorySound` (`RememberedOrForgotten`,
`ForgetSparesOthers`), `CachesSound` (`DecisionsFresh`, `LeastUsedEvicted`,
`EmbeddingsAligned`), `AnswerSound` (`EvidenceEndLoaded`, `SpansHoldTheirClaims`),
`TalkSound` (`LastTurnsStay`, `NothingUnread`), `SkillsSound` (`ListedStayLoadable`,
`SelectionKept`, `InstructionsOfTheListed`), `PermissionsSound` (`NothingRiskyPasses`,
`GravestAsked`).

**`Calls_parts`** - two threads with three tool calls between them, so that one may be
at its last while the other has left something behind; some tools need the network or
a container; documents of three and one chunks, two calls at a time, ingested twice;
three sub-agents on a budget of three that ask for two each. `SandboxSound`
(`NothingLeftBehind`, `OneResultEach`, `ResultsTrue`), `EnrichmentSound` (permits,
`IndexedEnriched`), `FanOutSound` (`ParentWithinLimit`, `CostsAddUp`,
`SettledWithRealCost`), `HardCeilingSpec` of the fan-out, and `CallsComeBack`
(`EveryCallAnswered`, `EveryPieceComesBack`, `AllReturn`).

**`Retrieval_parts`** - a tree of three trackers (chain and fork), two grants, ceiling
4, costs 0 to 3. Two grants are the least with which one caller runs in the middle of
the climb of another, three trackers give a climb of two levels. `LedgersExact`:
reservations are exact (`ReservedLedger`), spend is exact up to what is in flight
(`ConsumedLedger`, `BooksBalance`), commitments fit (`CommittedWithinLimit`), no
tracker passes its limit, in flight or not (`NoOverspend`), and who reserved can
settle within the reservation as long as no child was carved (`ReservationHonoured`).
`HardCeilingSpec`: the root implements `HardCeiling`. `SpendReachesRoot`: every
settled cost climbs to the root. Beside it, three hops over queries that differ in
case only; two retrievers and four pipelines over two children and their parent; every
choice of signals; three queries with labels on either level, two at a time; three
tasks with nested blocks; texts of five tokens. `HuntSound` (`NoQueryTwice`,
`HopsPaid`, `BestKept`), `RankingSound` (`AgreementKept`, `BestKReturned`,
`CopiesLast`, `ParentsCarryBest`, `TextsKept`), `RoutingSound` (`MoreSignsMoreLookup`,
`SessionDecides`, `ReformulationsNew`), `EvaluationSound` (`ReportComplete`,
`MetricsAgree`, `PercentilesExact`, `FrozenUnseen`), `SpansSound` (`RecallByPlace`,
`BestWindowKept`).

### Fairness

No fairness is on a step that fails where liveness could depend on it: what fails
ends work sooner. A part that rests has nothing to do, so no fairness is asked of it.

- `BudgetTracker`: weak fairness of `AbsorbChildSpend`. A thread that has booked
  its spend climbs without waiting for anything but short locks.
- `Orchestrator`: weak fairness of the nodes together. The runtime drives a turn
  from node to node, and a component returns or raises. Nobody has to answer an
  interrupt or ask again.
- `TodoPlanner`: weak fairness of rounds and coroutines together: the event loop
  runs what it can, `run_step` returns or raises.
- `SubAgents`: weak fairness per agent: `asyncio.gather` runs them all.
- `EvolutionLoop`: weak fairness of the steps of `run()`, one coroutine.
- `Sandbox`: weak fairness of a lane's next step, its timer included, and of the
  thread that watches a container: `asyncio.wait_for` and the daemon's wait have a
  timeout.
- `Enrichment`: weak fairness of the ingestion, of each task that may acquire the
  semaphore (it is first come, first served), and of each model call's end, an
  answer or an error: the client gives up after a timeout. The caller need not
  try again.

### Where the code differs from what it says

Each of these runs checks one claim, and TLC finds it violated.

| Run | Claim | What happens |
|---|---|---|
| `Permissions_denial` | a person resumes with an `ApprovalResponse`; "on denial the spawn is skipped" (`orchestrator/graph.py:373`) | the node takes the truth of anything but a mapping, and a response object with `approved=False` is true |
| `Memory_peruser` | durable memory for one owner, "memory is per-user" (`memory/longterm.py:33,46`) | the point's id is the item's key alone: a write of one user replaces the item of another |
| `Evaluation_ndcg` | "Normalized discounted cumulative gain" (`metrics/retrieval.py:78`) | labelled by document, every chunk of it counts as a hit of one ideal hit; nDCG exceeds one |
| `Orchestrator_dci` | "only the first hop runs against DCI; subsequent hops fall through to `answer`" (`orchestrator/graph.py:185`, and the table of `docs/orchestrator-graph.md:110`) | every hop of the strategy runs on DCI, as many as the request allows |
| `Chunking_spans` | each chunk has "a char span within the parent document text when locatable" (`chunking/base.py:60`) | a chunk that begins before the last one ended stands in the text and has no span; by default chunks overlap by 75 characters (`chunkers.py:42,83`) |
| `Parsing_order` | a structure element is "one structural unit of a parsed document, in document order" (`ingestion/base.py:20`) | the tables of a .docx file come after all its paragraphs (`parsers.py:255`) |

These are in the models, and the properties state how far the claims do hold:

- A child's ceiling stays reserved in the parent while its spend is booked there
  as well, so that a grant may be refused what it reserved (`tracker.py:83`;
  `ReservationHonoured` holds without children only).
- With strategy `dci` the first hop runs on DCI (`StrategyDecidesHops`); the ones
  after it are those of `Orchestrator_dci`.
- Chunks cite their own places as long as no two have a letter in common; after that a chunk
  has no span, or that of a later copy of its text (`SpansOwn`; `SpansTrue` holds throughout).
- Lines that are no table of a .docx file, and its tables, are each in order among
  themselves (`EveryLineOnce`).
- `dci/tools.py:9` says access lists are enforced inside the store. The graph store has none:
  the search goes through the entities of chunks the caller may not see, and
  only what is shown is filtered (`retrievers/graph.py`, `dci/tools.py:222`). Distances and
  scores are those of the whole graph (`HopsAreDistances`).
- A call may leave a directory or a container behind (`docker.py:87,124`, `local.py:72`).
  `NothingLeftBehind` says when: a refusal to remove it, a container its call's result
  tells of, or a cancelled call.
- A compaction between delegation and answer keeps only evidence that `citations`
  backs, which is empty until `finalize` (`compaction/strategies.py:42`;
  `DelegatedEvidenceKept` excepts it).
- `answer()` returns `None` when the gate pauses (`harness/__init__.py:171`).
- "The DAG is always resolvable" (`todo.py:104`) except with a cycle, whose steps
  stay pending (`OnlyCyclesLeftBehind`).
- A sub-agent may settle with the price of a sibling's draft (`enforcer.py:122`;
  `SettledWithRealCost` holds as long as no sibling has drafted).
- One generation more than `max_generations` is bred (`integration.py:143`;
  `GenerationsWithinCeiling`).
- Writes of one memory key land in any order, and a forget that has listed
  deletes what was written since (`longterm.py:70,88`; `RememberedOrForgotten` is
  about calls with no other beside them).
- A torn line makes the ledger unreadable until somebody repairs it
  (`ledger.py:87`; `WritesKept` speaks of readers that can read).
- `grep` counts form feeds as line ends, its citation does not (`dci/base.py:474`;
  `GrepCitesItsLines` excepts them). Below an absolute source path `ls` finds
  nothing (`WalkFindsAll` excepts it). A limit of nothing gives one hit.
- Names are found on the whole text and relations by the clause: a relation may
  end in a pronoun or in a part of a name (`graph/extraction.py`;
  `RelationsGrounded`). "X was acquired by Y" is read as "X acquired Y": the first
  pattern takes both.
- A tool's own `TimeoutError` is reported as a breach of resources
  (`sandbox/local.py:62`), and any error of a container's wait as an overrun
  (`docker.py:111`); `ResultsTrue` says of which results that is not so.
- `LostInTheMiddle` before the cut to `k` moves the second best to the end, where
  it is cut (`retrieval/pipeline.py:114`; `BestKReturned` is about pipelines
  without post-processors).

Seen on the way, without a property:

- `parse_path` offers the stem of the file as a title (`parsers.py:307`), by `setdefault`: the
  parsers of Markdown, HTML, PDF and .docx have set the key by then, to `None` where they found
  none, so that such a document stays without (`TitleOfItsOwn` speaks of the others).
- "Echo outputs are dropped" (`query_ops/expanders.py:14`) is so of rewrites. A HyDE passage that
  is the query stays, and so does a sub-query among others (`ReformulationsNew` says of
  rewrites only that none is the query).
- `SessionMemory.max_items` is never looked at. With no owner, memory shows
  everybody's items.
- A changed file is a new document, as ids are hashes of the text, and the chunks
  of the old one stay. Chunks added to the corpus twice are in its text twice.
- Several runs of a day have a budget guard each, and so a daily ceiling each
  (`integration.py:182`). Compute of the seeds and of generation 1 goes to one
  account, as it is attributed to the generation ticked last.
- `active_subagents` is never counted up, so that the concurrency gate sees one
  spawn at a time. `approval_denied` stays with a thread of `make_gate_node`.
- The judge of the iterative retriever sees the first eight pieces of evidence in
  the order they came. A reply of it that cannot be read ends the retrieval with
  an error, after the hops were paid.
- `hyde` and `sub_queries` are filled and no retriever reads them. On a tie the
  heuristic router takes DCI, though it says otherwise.
- A query that failed scores no cost, no latency and full citation precision.
  The flag of evolution mode is called process-wide and is per context.
- An embedder that answers with too short a list leaves a prefix of the answers
  in the cache. `_embed_chunks` overwrites embeddings late chunking made.
- Broken front matter of one skill stops the discovery of all.

## 4. What is proved

### Budget tracker

`BudgetTracker_proofs`, for any finite set of trackers and of grants, any ceiling
and any set of costs (`BudgetAssumption`; the constants are natural numbers, the
null parent is no tracker): `BooksHold`, that is `LedgersExact` in all its parts
(`TypeCorrect`, `ReservationsExact`, `SpendCountedOnce`, `CommitmentsFit`,
`HardCeilingHolds`, `ReservationsHonoured`), and `TreeIsOneAccount`: `Spec`
implements `HardCeiling`.

`NoOverspend` is not inductive. `_absorb_child_spend` adds to an ancestor without
looking at its limit, so why does it fit? Because what a child has spent and what
still climbs out of it fit under the child's own ceiling, that ceiling is reserved
in the parent (`ReservedLedger`), the parent's own settlements fit next to its
reservations (`CommittedWithinLimit`), and the parent has booked exactly its
settlements and its children's spend, short of what still climbs to it
(`ConsumedLedger`). `IInv` is the conjunction of these, of the shape of the tree,
and of `OwnSpendBooked`. The sums are over sets that grow and shrink step by step:
`Totals` defines a sum as the cardinality of a set of units, so that adding,
removing and raising one summand follow from the library's theorems on finite sets
(`Totals_proofs`), without an induction.

`ReservationHonoured` rests on the same books: a tracker without children has booked
only its own settlements, and these fit beside all its reservations, so that each
open grant still has its amount (`ClaimFits`).

### Orchestrator

`Orchestrator_proofs`, for any corpus, any set of wirings and any bounds
(`OrchestratorAssumption`): `SpawnsStayInAuthority` (from `TypeCorrect`,
`SpawnsAuthorised`, `DelegationBounded`) and `AnswersRestOnEvidence` (from
`AnswersGrounded`, `ToolsFirst`). The inductive invariant adds
what holds on the way: a hop under way was due (`HopDue`), nothing has been
delegated on the way to a spawn (`SpawnPending`), a spawn about to run is within
the cap or approved (`SpawnCleared`), the latch knows (`LatchTells`), evidence was
gathered in this turn (`EvidenceGathered`), there is no result before the end
(`ResultAtEnd`), and a queued call is kept or has a result (`CallsConserved`).

`GatheringHolds` (`GatheringSound`): that the strategy decides which hops run on DCI is
about a choice made at one node and carried out at the next, so that the node under
way has to be the one the strategy wants at this count of hops (`HopAimed`); that
delegated evidence survives up to the answer is kept at every node in between
(`DelegatedKept`).

### Planner

`Harness_proofs`, for any step ids, plans of any size and any number of
replacements (`TodoAssumption`): `PlanHolds` (`PlanSound` in all its parts) and
`FinishedStays` (`FinishedStaysFinished`). A step is dispatched one action and
started another, so that `StartsAfterPredecessors` needs what holds of a whole wave
while its members run, fail and finish (`WaveMayRun`). `ExactCasualties` speaks of the
end of an execution. On the way only half of it holds: whatever is skipped lies in every
set that is closed under dependency and holds the failures (`SkippedWithCause`), and
`Return` adds the other half, because a cascade that skips nothing more leaves a
closed set. Replacing a plan keeps the finished steps in front (`KeptIsDone`) and
ids may collide with theirs, so what is known of dependencies is that they are
names in the plan (`PredecessorsKnown`), and `by_id` takes the last of that name.

### Permission gates

`Harness_proofs`, for any threshold, limits, actions and replies
(`PermissionsAssumption`): `PermissionsHold` (`PermissionsSound`). What a paused thread
shows is the first gate its action trips, still when it resumes (`ShownIsFound`);
`GravestAsked` holds as the only gate of high risk stands first (`FirstIsGravest`).

### Caches

`Harness_proofs`, for any number of tasks, questions, texts and entries and any time to
live (`CachesAssumption`): `CachesHold` (`CachesSound` in all its parts). `LeastUsedEvicted`
is about the past of an entry, and what keeps that past is the order of the store:
whatever stands behind an entry was used since it was (`UsedInOrder`), so that the first
of more entries than fit was passed by as many others (`FirstUsedLongAgo`). An entry is
the latest decision on its question (`Latest`), although two tasks may have missed
together and decide one after the other; what is gone is gone with cause
(`GoneWithCause`), whatever is used and however the clock ticks afterwards. For the
embeddings the invariant says what a task waiting for the model knows: hits and misses
cover what it was asked (`Embedding`, `MissesCover`), though others fill the file meanwhile.

### Compaction

`Harness_proofs`, for conversations of any length, any number of turns to keep, any token
limit and any width of a gist (`CompactionAssumption`): `CompactionHolds` (`TalkSound` in
all its parts). A history is some notes and after them the last messages said, one by one
(`History`): a compaction keeps the messages at the end, notes among them if there are
fewer messages than it keeps, so that the notes pile up in front. How many messages are
left may fall with every compaction, never below what is to be kept (`Enough`). That a
note names nothing that was not said goes through the gist, whose words are listed in the
order of reading (`ReadingOrders`, `GistWords`). When the estimate calls for a compaction
plays no part: the theorem holds of a compaction at any time.

### Sub-agents, sandbox, enrichment

`Calls_proofs`. **`FanOutHolds`** (`FanOutSound`) and **`FanOutImplementsHardCeiling`**,
for any number of agents, any requests and any budget (`SubAgentsAssumption`): the
ceilings carved add up to no more than the parent had (`CarvingWithinLimit`, an
argument about the last child that got anything), and each agent spends within its own
(`SpendWithinCeiling`). `SettledWithRealCost` needs the price followed from the draft
over the shared `_last_cost` to the result (`PriceFollowed`).

**`SandboxHolds`** (`SandboxSound`), for any tools, queues and policy: in every lane,
results, the call under way and what is queued make up the list that was asked
(`OneResultEach`), whichever of tool, timer, container and cancellation comes first;
a thread without its call belongs to a cancelled one (`OrphansCancelled`), and what runs
was let through (`RunsAllowed`), which is what makes results true. What is left behind
by a call that is over is explained by something that stays: a result is never taken back
(`ResultsGrow`), a directory once stuck is stuck, and a cancelled thread begins
nothing more (`LeftOversKept`).

**`EnrichmentHolds`** (`EnrichmentSound`), for any batch of documents, any number of
permits and of tries: a semaphore and the calls it serves come into being together
(`CallsShape`, `BegunInTurn`), its permits and the calls under way add up
(`PermitsConserved`), and before an ingestion moves on, every piece of the documents
behind it has its answer from this try (`EarlierWhole`), so that what it indexes at its
end is enriched, though tasks of failed tries still answer.

### Evolutionary loop

`SelfImprovement_proofs`, for any population size, elite, generations, costs, scores and
ceilings (`LoopAssumption`): `EvolutionHolds` (`EvolutionSound` in all its parts).
The properties hold between generations; a run is in the middle of one most of the time.
The best score so far may be of a candidate assessed and not in the population yet
(`FinestTracked`), a breach may be as old as the batch (`OvershootOfBatch`), candidates
assessed are on file though no population has them (`AssessedOnFile`), the ticks of the
guard follow the loop's counter (`TicksFollow`). That selection keeps the best rests on
`Best`: the survivors in the order of their scores, a strict one, as ties go by the place
among the candidates (`BetterOrders`, `InOrderEnumerates`).

### Self-improvement

`SelfImprovement_proofs`. **`PullRequestsHold`** (`PullRequestsSound`), for any
candidates, calls, failures, merges and edits of the base (`PRAssumption`): nothing is
undone when a call fails half-way. A retry is safe because the branch of the first try
is in its way, so that a call past its first step is the first to have got there
(`BranchFirst`), with the text it was given (`OwnText`).

**`LedgerHolds`** (`LedgerSound`), for any experiments, files, versions and deaths
(`LedgerAssumption`). That what was written is read is inductive as it stands
(`LedgerInv`), and the work is in the reader: appending a line to one file of
many changes what is read of one id and no other (`AppendedLineCounts`), because all
lines of an id are in one file and a line without its newline is the last one
(`LedgerTypeOK`). `LineageInOrder` is about a walk over whatever can be read, cycles
and missing parents included: every experiment met but the first has a child met
before it, which is carried from generation to generation (`UpTo`).

**`AcceptHolds`** (`AcceptMeansProven`), for any reports, reviews and thresholds
(`ReviewerAssumption`). A verdict is never milder than the machine's, so what is accepted
has passed every check, against the strongest of its ancestors. That a gain beyond twice
the deviation is beyond what any two seeds differ is algebra: the spread of two scores is
the square of their difference, that of three at least half as much again.

**`RealisationHolds`** (`RealisationSound`), for any catalogue and requests of any length
(`RegistryAssumption`, which says of the catalogue what `configs/components.yaml` has): a
component fails for a reason of its own, and a realisation for the reason of the first
that fails, since the places of the four parts of a request follow each other.

**`GenomesHold`** (`GenomesSound`), for any search space whose defaults are within their
ranges, any population and number of generations (`GenomeAssumption`). The invariant
is that every gene is within its choices (`WithinChoices`): component and parameters fit
together, lists are free of repetitions, and there is a retriever. A mutant keeps it
since a component comes with parameters of its own, a cross since the parameters of a
component cross with it (`Carried`).

### Knowledge index

`Knowledge_proofs`, for any documents, workers, page size and deaths
(`IndexAssumption`): `IndexHolds` (`IndexSound`). `SnapshotFaithful` is about a scroll and
a collection that others write to between two of its pages. The invariant keeps book of
both (`BookKept`): below its offset a scroll has all that has stayed since it began,
and what it has was there at some time. A job that calls itself alone is the only
one (`AloneOnly`), so that its book is the collection itself, and what a restore is
about to fill is empty (`AloneKept`); `RestoreExact` follows. A collection is made
of whole documents as long as every snapshot is (`AllWhole`).

### Memory

`Harness_proofs`, for any users, keys, calls and numbers of items (`MemoryAssumption`):
`MemoryHolds` (`MemorySound`). A call that writes holds the end of its list
(`LeftToWrite`), and what it has written is held under its number or a later one, if
nobody came between (`Landed`, `Undisturbed`). A call that deletes by a list may delete,
of the keys on it, what it may see or what was written since (`MayDelete`): that
second half is what the code does not look at, and it is in the property too.

### Skills

`Harness_proofs`, for any directories, contents, names and limits (`SkillsAssumption`):
`SkillsHold` (`SkillsSound`). Manifests only grow, so that a name listed stays one the
registry can load; while the disk is as it was listed, a name that one directory has
leads there (`ManifestsAsListed`); a selection is the first listed names there are.

### Retrieval and evaluation

`Retrieval_proofs`. **`HuntHolds`** (`HuntSound`), for any judge, any inner retriever and
any others that spend from the budget (`IterativeAssumption`). The queries sent are among
the issued ones, in lower case, and the next one is not among the sent (`AskedOnce`); one
is sent in each hop, and no judge is asked after the last (`HopsCounted`), which bounds
them. What is paid for follows the hop under way and not the tracker, on which others
settle meanwhile (`PaidUp`). That deduplication keeps the best of every chunk is a fact
about a strict order of places, by score and then by where a chunk was first met
(`BeforeOrders`, `RankedRight`).

**`RoutingHolds`** (`RoutingSound`), for any weights, filters and query operations
(`RoutingAssumption`): a further sign adds its weight to one sum and to no other
(`SignsAdd`), and the choice is monotone in that sum (`MoreLookupPicked`); a query's own
filters are in force from the merge to the index (`FiltersKept`); each operation adds new
texts to new texts (`TextsNew`, `NewTextsMore`).

**`EvaluationHolds`** (`EvaluationSound`), for any dataset, any answers and any number of
tasks (`EvaluationAssumption`: rankings without a chunk twice, discounts that fall, and a
unit of ratios fine enough for what is divided by it). There is a report only when no
query is under way any more (`ReportInv`). The nearest rank has as many values within it
as it says, because places sorted by value are a strict order (`PercentileExact`). One
metric sees a hit exactly if the others do (`MetricsTell`); nDCG does not exceed one where
labels are chunks, as any places move forward, each to a rank of its own, to the first as
many (`FirstPlacesBest`). A context inside a block, its own or its starter's, has the mode
set (`InBlocks`), through nesting, return and the start of tasks.

**`RankingHolds`** (`RankingSound`), for any number of retrievers, any answers, weights,
pipelines and order of post-processors (`RankingAssumption`). The k best are taken from a
ranking that has been cut before, so the invariant says that up to the post-processors it
is the fused one, as far as the baseline reranker's cut (`FusionKept`, `CutBest`).
Agreement wins because a score is a sum over the lists: in each the leading chunk is worth
as much or more (`ScoreMono`), and of two with the same sum it was met first
(`AgreedFirst`). MMR's selection is followed place by place: each is the best
of what is left by then (`NextIsBest`, `PickedRight`). Parents and texts are counted by
the candidate that opens their entry (`OpenedBy`, `AscendingRight`).

**`AnswerHolds`** (`AnswerSound`), for any candidates, budget, draft and mode. The answer
grows segment by segment, and after each it is known how many characters of every segment,
and how many marks, are in the text, and that no span of a citation reaches into what is
still to come (`Good`, `GoodNext`): the cursor is the length of the text so far
(`WriteAdds`), and the characters of joined texts add up (`CountConcat`). The evidence is
an arithmetic of places, odd ranks from the front and even ones from the back
(`ReorderPlaces`).

**`DedupHolds`** (`DedupSound`), for any documents, signatures, re-adds and order. Its
assumption is that near signatures disagree in fewer places than there are bands
(`DedupAssumption`): 12 of 128 places and 32 bands, by the defaults. Then one band is
shared (`BandShared`, by pigeonhole), and neighbours are just the near (`NeighboursNear`).
The union-find is a forest in which no parent is greater than its child, so that the way
up ends (`FindIsRoot`); a link unites two trees and disturbs no other (`JoinUnites`), and
two are in one tree exactly if they are in the same closed sets (`ParentsRight`,
`ComponentsAreTrees`). A root is the least of its tree, the one that is kept.

**`ChunksHold`** (`ChunksSound`), for any text and any cuts, overlapping or not. A span is
searched for and not handed down, so that a repeated text may be found where another piece
came from. As long as nothing overlaps it is not: between the cursor and the piece's own first
letter only blanks lie, blank pieces and the margins `strip` takes away, and no copy can begin
with a blank (`FindsOwn`); a piece that begins before the cursor is not found at its own place,
as the search never looks there. Whatever is found is a place where the text stands, behind all
spans before (`FindsTrue`), and each piece leaves the cursor so for the next one
(`AssembledNext`). Windows are an arithmetic of edges (`WindowsRight`), and the group of a
sentence and its place there are quotient and remainder (`GroupsRight`).

**`CorpusHolds`** (`CorpusSound`), for any documents, chunks, places, callers and ceilings
(`CorpusAssumption`: no chunk is empty, and no id). A hit and a read cite the chunk found
for the place where their line begins, and that is theirs because of what the text is
made of: every offset is inside a chunk or not one where a line begins, and no line goes
on after a chunk (`Settled`, kept by every chunk that is added, `AppendNext`,
`JoinedRight`). Where a line begins is counted twice by the code, once over the lines and
once over the newlines; the counts agree in a text without form feeds, as before every
later line stands one newline more than before the one it begins after (`StartsCount`,
`StartFound`). The walk goes level by level: when no path is blank in a part or a prefix of
another's, level n has exactly the first n parts of all longer paths (`NextLevel`), so
that the last level of each is its document (`WalkIs`).

**`GraphHolds`** (`GraphSound`), for any chunks with any entities and triples, in any order
(`GraphAssumption`: keys are numbers, which gives them their order, and a triple leads from one
entity to another). The store is followed turn by turn while a chunk is written: what it
has of links and related pairs grows by just what the turn adds (`Grows`, `LinkGrows`,
`RelationGrows`), which sums up over names, triples and pairs (`GrowsByTurns`), so that the graph
is known by the chunks built (`GraphInv`). The search keeps the textbook's invariant
(`Searching`): the queue is in order of distance and spans two distances at most, and
everything a finished entity leads to is in it (`VisitTurns`, `SearchGoesOn`); at the
end hops are the distances that the reference finds set by set (`SearchedRight`). A score is a
sum over levels of nearness with weights that fall, so that more entities within every distance
weigh more (`MoreNearerWeighsMore`). What is shown is filled up in the order of the queue, hence
from the nearest on (`TakeGoesOn`, `NeighborsRight`).

### Lemmas

`Totals_proofs`: sums over finite sets (adding, removing, raising a summand, monotony,
congruence), and that a finite set of integers has a greatest and a least element, which
is what makes `Max` and `Min` of the community modules usable; that a strict order of a
finite set lists it completely and once (`InOrderEnumerates`), and that what is new in a
sequence is all that is not known, once (`NewOfIsNew`). Two lemmas stand in for the
induction theorems of the library, which take an operator that no installed prover can
instantiate: a set that has zero, and with each number the next one, has all of them up to
a bound (`UpTo`, from the least one it would miss), and a value is determined for
every turn if each turn makes the next (`Iterates`), so that a recursive function exists
and is known by what its turns preserve.

### Model-checked only

- All liveness: it rests on fairness and `ENABLED`, which the prover does not handle.
- `ParsingSound`, `RelationsGrounded` and `SpansSound`: their algorithms (the block
  parser, the reading of triples, spans) are folds of the community modules. A fold takes
  its step as an operator, and a lemma about it for every step would need a hypothesis
  about an operator.
- The violations of section 3: a counterexample is what they are.

## 5. What is not modelled, and why

- Observability (`harness/observability`): spans and logs nothing reads again.
- Settings, configuration and scripts: plain data and command lines.
- Text: prompts, summaries, wording, the description and evidence of a pull
  request. Where a property is about a text (spans, notes, outlines), it is modelled.
- Libraries and services: tokenisers, splitters, the parsers of PDF, HTML and
  DOCX, Qdrant's search, hashing, embedding and language models: free choices, or
  external definitions for what the code relies on. The semantic and the
  propositional chunker, ragas, and the entities a model lists are such calls.
- The parquet file and the manifest of the ledger, which nothing reads back;
  `SimpleBudgetGuard`, which only tests use; a day shared by several guards.
- Rounding of money and scores: integers in a unit that keeps fractions exact.

## 6. Plan

What was planned is modelled, and its properties are checked. What could still be
proved are the three invariants under "Model-checked only": each asks for its fold to be
written as a recursive function over the turns, as `Ranking`, `Ledger` and `KnowledgeGraph` have theirs,
and for `UpTo` and `Iterates` to carry what a turn preserves. Liveness stays with TLC.
