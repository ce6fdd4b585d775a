----------------------------- MODULE Evaluation -----------------------------
(***************************************************************************)
(* Evaluation (src/evaluation): queries of a dataset run at the same time  *)
(* under a semaphore, each scored by the retrieval metrics, the scores     *)
(* folded into a report; and the frozen split, which code in evolution     *)
(* mode cannot load.  Ratios are kept in parts of Whole.                   *)
(***************************************************************************)
EXTENDS Naturals, FiniteSets, SequencesExt, Totals

CONSTANTS
  Golds,         \* the dataset: a sequence of [chunks, docs] labelled relevant
  Rankings,      \* what a pipeline may retrieve: sequences of chunks
  DocOfChunk,    \* [chunks -> docs]
  Concurrency,   \* permits of the semaphore
  CutOff,        \* k of the metrics
  Latencies,     \* what a query may take
  Discounts,     \* worth of a hit at each place, 1 / log2(place + 1) in parts of Whole
  Whole,
  Contexts,      \* tasks: each has its own copy of the mode
  MaxNesting     \* bound: blocks of evolution mode in one another

\* The dataset labels finitely many chunks and documents, and no pipeline answers
\* with a chunk twice.  Whole is fine enough to tell a hit from none: a multiple of
\* every place, and no smaller than what it is divided by.
ASSUME EvaluationAssumption ==
  /\ {Concurrency, CutOff, Whole} \subseteq Nat \ {0} /\ MaxNesting \in Nat /\ Latencies \subseteq Nat
  /\ Golds \in Seq(Range(Golds))
  /\ \A gold \in Range(Golds) : IsFiniteSet(gold.chunks) /\ IsFiniteSet(gold.docs)
  /\ \A r \in Rankings : r \in Seq(Range(r)) /\ \A i, j \in DOMAIN r : i # j => r[i] # r[j]
  /\ Discounts \in [1 .. CutOff -> Nat \ {0}]
  /\ \A i, j \in 1 .. CutOff : i < j => Discounts[i] > Discounts[j]
  /\ \A gold \in Range(Golds) : Cardinality(gold.chunks) + Cardinality(gold.docs) <= Whole
  /\ \A i \in 1 .. CutOff : (Whole \div i) * i = Whole /\ Discounts[i] * Whole >= Total(Discounts, 1 .. CutOff)

VARIABLES
  running,   \* every query of the dataset: "waiting", "running" or its outcome
  report,    \* what run returns, one entry for each query
  mode,      \* evolution mode of every context that was started: the values set, the last one counts
  blocks,    \* history: open blocks of each context, its own and the one it was started in
  shown      \* history: loads of the frozen split that went through, with the blocks open around them

evaluationVars == <<running, report, mode, blocks, shown>>

Asked == DOMAIN Golds
Waiting == [state |-> "waiting"]
Running == [state |-> "running"]
Finished == {q \in Asked : running[q].state = "done"}
Failed == [state |-> "done", failed |-> TRUE, ranking |-> << >>, latency |-> 0]

-----------------------------------------------------------------------------
\* Metrics of one query.
TopK(ranking) == SubSeq(ranking, 1, IF Len(ranking) < CutOff THEN Len(ranking) ELSE CutOff)

Relevant(gold, c) == c \in gold.chunks \/ DocOfChunk[c] \in gold.docs

Targets(gold) == Cardinality(gold.chunks) + Cardinality(gold.docs)

\* Every label found counts once, a chunk and its document each.
HitTargets(gold, ranking) ==
  Cardinality(gold.chunks \cap Range(ranking)) + Cardinality(gold.docs \cap {DocOfChunk[c] : c \in Range(ranking)})

Recall(gold, ranking) ==
  IF Targets(gold) = 0 THEN 0 ELSE (HitTargets(gold, TopK(ranking)) * Whole) \div Targets(gold)

Hits(gold, ranking) == {i \in DOMAIN ranking : Relevant(gold, ranking[i])}

Precision(gold, ranking) ==
  IF ranking = << >> THEN 0 ELSE (Cardinality(Hits(gold, TopK(ranking))) * Whole) \div Len(TopK(ranking))

Gain(places) == Total(Discounts, places)

\* The ideal ranking has a hit for every label.
NDCG(gold, ranking) ==
  LET ideal == IF Targets(gold) < CutOff THEN Targets(gold) ELSE CutOff
  IN  IF Targets(gold) = 0 THEN 0 ELSE (Gain(Hits(gold, TopK(ranking))) * Whole) \div Gain(1 .. ideal)

ReciprocalRank(gold, ranking) ==
  IF Hits(gold, ranking) = {} THEN 0 ELSE Whole \div Min(Hits(gold, ranking))

HitRate(gold, ranking) == IF Hits(gold, TopK(ranking)) # {} THEN Whole ELSE 0

Score(q, outcome) ==
  LET r == outcome.ranking IN
  [query |-> q, failed |-> outcome.failed, latency |-> outcome.latency,
   recall |-> Recall(Golds[q], r), precision |-> Precision(Golds[q], r), ndcg |-> NDCG(Golds[q], r),
   mrr |-> ReciprocalRank(Golds[q], r), hit |-> HitRate(Golds[q], r)]

\* The places of the values in the order of sorted, by value.
Sooner(values) ==
  {p \in (DOMAIN values) \X (DOMAIN values) :
     values[p[1]] < values[p[2]] \/ (values[p[1]] = values[p[2]] /\ p[1] < p[2])}

\* The nearest rank: pct percent of the values, rounded up.
Percentile(values, pct) ==
  LET ordered == InOrder(DOMAIN values, Sooner(values))
      rank == (pct * Len(values) + 99) \div 100
  IN  IF values = << >> THEN 0 ELSE values[ordered[IF rank < 1 THEN 1 ELSE rank]]

-----------------------------------------------------------------------------
EvaluationInit ==
  /\ running = [q \in Asked |-> Waiting] /\ report = << >>
  /\ mode = [c \in {CHOOSE d \in Contexts : TRUE} |-> <<FALSE>>] /\ blocks = [c \in DOMAIN mode |-> {}]
  /\ shown = {}

\* The semaphore lets queries in in the order of the dataset.
Enter(q) ==
  /\ running[q] = Waiting /\ \A p \in Asked : p < q => running[p] # Waiting
  /\ Cardinality({p \in Asked : running[p] = Running}) < Concurrency
  /\ running' = [running EXCEPT ![q] = Running]
  /\ UNCHANGED <<report, mode, blocks, shown>>

\* The pipeline answers, or raises: an outcome without candidates.
Leave(q) ==
  /\ running[q] = Running
  /\ \E outcome \in {Failed} \cup [state : {"done"}, failed : {FALSE}, ranking : Rankings, latency : Latencies] :
       running' = [running EXCEPT ![q] = outcome]
  /\ UNCHANGED <<report, mode, blocks, shown>>

\* gather returns the scores in the order of the dataset.
Report ==
  /\ report = << >> /\ Finished = Asked
  /\ report' = [q \in Asked |-> Score(q, running[q])]
  /\ UNCHANGED <<running, mode, blocks, shown>>

ReportNext == Report \/ \E q \in Asked : Enter(q) \/ Leave(q)

-----------------------------------------------------------------------------
Started == DOMAIN mode
Evolving(c) == Last(mode[c])

\* evolution_mode: set on the way in.
Evolve(c) ==
  /\ c \in Started /\ Len(mode[c]) <= MaxNesting
  /\ mode' = [mode EXCEPT ![c] = Append(@, TRUE)]
  /\ blocks' = [blocks EXCEPT ![c] = @ \cup {<<c, Len(mode[c])>>}]
  /\ UNCHANGED <<running, report, shown>>

\* Mutant: the flag is cleared.
EndByClearing(c) ==
  /\ c \in Started /\ Len(mode[c]) > 1
  /\ mode' = [mode EXCEPT ![c] = [i \in 1 .. Len(@) - 1 |-> FALSE]]
  /\ blocks' = [blocks EXCEPT ![c] = @ \ {<<c, Len(mode[c]) - 1>>}]
  /\ UNCHANGED <<running, report, shown>>

\* On the way out, by return or raise, the value from before comes back.
EndEvolution(c) ==
  /\ c \in Started /\ Len(mode[c]) > 1
  /\ mode' = [mode EXCEPT ![c] = Front(@)]
  /\ blocks' = [blocks EXCEPT ![c] = @ \ {<<c, Len(mode[c]) - 1>>}]
  /\ UNCHANGED <<running, report, shown>>

\* A task starts with a copy of the context it is created in.
StartTask(c, new) ==
  /\ c \in Started /\ new \in Contexts \ Started
  /\ mode' = [d \in Started \cup {new} |-> IF d = new THEN <<Evolving(c)>> ELSE mode[d]]
  /\ blocks' = [d \in Started \cup {new} |-> IF d = new THEN blocks[c] ELSE blocks[d]]
  /\ UNCHANGED <<running, report, shown>>

\* load_dataset of the frozen split, without the escape hatch.
LoadFrozen(c) ==
  /\ c \in Started /\ ~Evolving(c)
  /\ shown' = shown \cup {blocks[c]}
  /\ UNCHANGED <<running, report, mode, blocks>>

FrozenNext ==
  \E c \in Contexts : Evolve(c) \/ EndEvolution(c) \/ LoadFrozen(c) \/ \E new \in Contexts : StartTask(c, new)

EvaluationNext == ReportNext \/ FrozenNext
EvaluationSpec == EvaluationInit /\ [][EvaluationNext]_evaluationVars

-----------------------------------------------------------------------------
\* Properties

\* Every query of the dataset is in the report, in its place, and with its own
\* outcome, in whatever order the queries finished and whichever of them failed.
ReportComplete ==
  report # << >> =>
    /\ Len(report) = Len(Golds)
    /\ \A q \in Asked : report[q].query = q /\ report[q].failed = running[q].failed
    /\ \A q \in Asked : report[q].failed => report[q].recall + report[q].ndcg + report[q].mrr = 0

\* The metrics agree: one of them sees a hit among the first k exactly if the
\* others do, and the reciprocal rank tells where.  None exceeds one; nDCG only
\* where the labels are chunks.
MetricsAgree ==
  \A i \in DOMAIN report :
    LET s == report[i] IN
    /\ \A v \in {s.recall, s.precision, s.ndcg} : v > 0 <=> s.hit = Whole
    /\ s.hit = Whole <=> s.mrr * CutOff >= Whole
    /\ s.recall <= Whole /\ s.precision <= Whole /\ (Golds[i].docs = {} => s.ndcg <= Whole)

\* nDCG is normalised, as its name says: at most one, however the labels are
\* given.  Labelled by document, every chunk of it is a hit, of one ideal hit.
NDCGNormalised == \A i \in DOMAIN report : report[i].ndcg <= Whole

\* At least pct percent of the values are within the percentile, fewer than that
\* are below it.
PercentilesExact ==
  LET values == [i \in DOMAIN report |-> report[i].latency]
      Within(v) == Cardinality({i \in DOMAIN values : values[i] <= v})
      Below(v) == Cardinality({i \in DOMAIN values : values[i] < v})
  IN  report # << >> =>
        \A pct \in {50, 95} :
          LET v == Percentile(values, pct) IN
          Within(v) * 100 >= pct * Len(values) /\ Below(v) * 100 < pct * Len(values)

\* The frozen split is never loaded in a block of evolution mode, nested or
\* not, nor by a task started in one.
FrozenUnseen == shown \subseteq {{}}

\* However queries fail and finish, the report has each in its place and its numbers
\* agree, and no task under evolution sees the frozen split.
EvaluationSound ==
  /\ ReportComplete
  /\ MetricsAgree
  /\ PercentilesExact
  /\ FrozenUnseen

=============================================================================
