------------------------------ MODULE Enrichment ------------------------------
(***************************************************************************)
(* Enrichment in the ingestion pipeline (src/knowledge_index/enrichment,   *)
(* pipeline.py): document after document, one model call per chunk, so     *)
(* many at a time.  The first call that fails fails the ingestion, which   *)
(* may be tried again while the other calls of the document go on.         *)
(***************************************************************************)
EXTENDS Naturals, FiniteSets, Sequences

CONSTANTS
  Batch,           \* the documents of the ingestion: numbers of chunks
  MaxConcurrency,
  MaxTries         \* bound: times the ingestion is begun

ASSUME EnrichmentAssumption ==
  Batch \in Seq(Nat) /\ {MaxConcurrency, MaxTries} \subseteq Nat \ {0}

VARIABLES
  ingestion,  \* its try, the document it is at, and how it is doing
  tasks,      \* of a try, document and chunk to the state of its call
  permits,    \* of a try and document to the permits its semaphore has left
  contexts,   \* of a try, document and chunk to its context
  pointsOf    \* document and chunk to what the index holds of it

enrichVars == <<ingestion, tasks, permits, contexts, pointsOf>>

Tries == 1 .. MaxTries
Pieces(d) == {<<d, i>> : i \in 1 .. Batch[d]}
AllPieces == UNION {Pieces(d) : d \in DOMAIN Batch}
TaskOf(t, piece) == <<t, piece[1], piece[2]>>
Ours(t, d) == {task \in DOMAIN tasks : task[1] = t /\ task[2] = d}
Calling(t, d) == {task \in Ours(t, d) : tasks[task] = "calling"}

\* f with the keys of S besides, all of them mapped to value
With(f, S, value) == [x \in DOMAIN f \cup S |-> IF x \in S THEN value ELSE f[x]]

\* Mutant: a failed call counts as one that came back.
GatheredAnyway(t, d) ==
  IF \A task \in Ours(t, d) : tasks[task] \in {"answered", "failed"} THEN "whole" ELSE "open"

\* asyncio.gather: the first failure at once, or all of them answered.
Gathered(t, d) ==
  IF \E task \in Ours(t, d) : tasks[task] = "failed" THEN "raised"
  ELSE IF \A task \in Ours(t, d) : tasks[task] = "answered" THEN "whole" ELSE "open"

-----------------------------------------------------------------------------
EnrichmentInit ==
  /\ ingestion = [try |-> 1, doc |-> 1, at |-> "chunking"]
  /\ tasks = << >> /\ permits = << >> /\ contexts = << >> /\ pointsOf = << >>

\* The document is cut anew and enrich() called: a semaphore of its own, a task
\* for every chunk.
BeginEnrich ==
  LET t == ingestion.try d == ingestion.doc new == {TaskOf(t, piece) : piece \in Pieces(d)}
  IN /\ ingestion.at = "chunking" /\ d <= Len(Batch)
     /\ ingestion' = [ingestion EXCEPT !.at = "enriching"]
     /\ tasks' = With(tasks, new, "waiting")
     /\ contexts' = With(contexts, new, "none")
     /\ permits' = With(permits, {<<t, d>>}, MaxConcurrency)
     /\ UNCHANGED pointsOf

\* Mutant: the calls of a document that has failed are not made any more.
AcquireOfGood(t, d, i) ==
  /\ <<t, d, i>> \in DOMAIN tasks /\ tasks[<<t, d, i>>] = "waiting" /\ Gathered(t, d) # "raised"
  /\ \A j \in 1 .. i - 1 : tasks[<<t, d, j>>] # "waiting"
  /\ permits[<<t, d>>] > 0
  /\ tasks' = [tasks EXCEPT ![<<t, d, i>>] = "calling"]
  /\ permits' = [permits EXCEPT ![<<t, d>>] = @ - 1]
  /\ UNCHANGED <<ingestion, contexts, pointsOf>>

\* The semaphore serves its waiters in turn.
Acquire(t, d, i) ==
  /\ <<t, d, i>> \in DOMAIN tasks /\ tasks[<<t, d, i>>] = "waiting"
  /\ \A j \in 1 .. i - 1 : tasks[<<t, d, j>>] # "waiting"
  /\ permits[<<t, d>>] > 0
  /\ tasks' = [tasks EXCEPT ![<<t, d, i>>] = "calling"]
  /\ permits' = [permits EXCEPT ![<<t, d>>] = @ - 1]
  /\ UNCHANGED <<ingestion, contexts, pointsOf>>

\* The model's answer may be blank, and is no context then.
AnswerContext(task, blank) ==
  /\ tasks[task] = "calling"
  /\ tasks' = [tasks EXCEPT ![task] = "answered"]
  /\ contexts' = [contexts EXCEPT ![task] = IF blank THEN "none" ELSE "own"]
  /\ permits' = [permits EXCEPT ![<<task[1], task[2]>>] = @ + 1]
  /\ UNCHANGED <<ingestion, pointsOf>>

FailContext(task) ==
  /\ tasks[task] = "calling"
  /\ tasks' = [tasks EXCEPT ![task] = "failed"]
  /\ permits' = [permits EXCEPT ![<<task[1], task[2]>>] = @ + 1]
  /\ UNCHANGED <<ingestion, contexts, pointsOf>>

\* enrich() comes back, or raises while calls of the document go on.
EndEnrich ==
  /\ ingestion.at = "enriching" /\ Gathered(ingestion.try, ingestion.doc) # "open"
  /\ ingestion' = IF Gathered(ingestion.try, ingestion.doc) = "whole"
                  THEN [ingestion EXCEPT !.at = "chunking", !.doc = @ + 1]
                  ELSE [ingestion EXCEPT !.at = "raised"]
  /\ UNCHANGED <<tasks, permits, contexts, pointsOf>>

\* All chunks are embedded with their contexts and upserted together; when that
\* fails, nothing is.
EndIngest ==
  /\ ingestion.at = "chunking" /\ ingestion.doc > Len(Batch)
  /\ \/ /\ ingestion' = [ingestion EXCEPT !.at = "done"]
        /\ pointsOf' = [piece \in AllPieces |-> contexts[TaskOf(ingestion.try, piece)]]
     \/ ingestion' = [ingestion EXCEPT !.at = "raised"] /\ UNCHANGED pointsOf
  /\ UNCHANGED <<tasks, permits, contexts>>

\* The caller ingests again: new chunks, all documents from the first.
TryAgain ==
  /\ ingestion.at = "raised" /\ ingestion.try < MaxTries
  /\ ingestion' = [try |-> ingestion.try + 1, doc |-> 1, at |-> "chunking"]
  /\ UNCHANGED <<tasks, permits, contexts, pointsOf>>

ComeBack(task) == (\E blank \in BOOLEAN : AnswerContext(task, blank)) \/ FailContext(task)

EnrichmentNext ==
  \/ BeginEnrich \/ EndEnrich \/ EndIngest \/ TryAgain
  \/ \E t \in Tries : \E d \in DOMAIN Batch : \E i \in 1 .. Batch[d] : Acquire(t, d, i)
  \/ \E task \in DOMAIN tasks : ComeBack(task)

\* The loop goes on, and a model call ends: the client gives up after a timeout.
EnrichmentFairness ==
  /\ WF_enrichVars(BeginEnrich \/ EndEnrich \/ EndIngest)
  /\ \A t \in Tries : \A d \in DOMAIN Batch : \A i \in 1 .. Batch[d] :
       /\ WF_enrichVars(Acquire(t, d, i))
       /\ WF_enrichVars(<<t, d, i>> \in DOMAIN tasks /\ ComeBack(<<t, d, i>>))

EnrichmentSpec ==
  EnrichmentInit /\ [][EnrichmentNext]_enrichVars /\ EnrichmentFairness

-----------------------------------------------------------------------------
\* Of the calls of one document no more are under way than its semaphore allows,
\* and what they do not hold it has.
EnrichmentTypeOK ==
  /\ ingestion.at \in {"chunking", "enriching", "raised", "done"} /\ ingestion.try \in Tries
  /\ \A td \in DOMAIN permits :
       permits[td] \in 0 .. MaxConcurrency /\ permits[td] + Cardinality(Calling(td[1], td[2])) = MaxConcurrency

\* The index has all chunks of the ingestion or none; every one of them was
\* answered in the try that wrote it, and is embedded with its own answer
\* whatever calls of failed tries came back since.
IndexedEnriched ==
  pointsOf # << >> =>
    /\ DOMAIN pointsOf = AllPieces
    /\ \A piece \in AllPieces :
         LET task == TaskOf(ingestion.try, piece)
         IN tasks[task] = "answered" /\ pointsOf[piece] = contexts[task]

\* Every call that was to be made comes back in the end, those of a document
\* whose enrichment has failed too, and the ingestion is done or has failed.
EveryPieceComesBack ==
  /\ \A t \in Tries : \A d \in DOMAIN Batch : \A i \in 1 .. Batch[d] :
       <<t, d, i>> \in DOMAIN tasks ~> (<<t, d, i>> \in DOMAIN tasks /\ tasks[<<t, d, i>>] \in {"answered", "failed"})
  /\ <>(ingestion.at \in {"raised", "done"})

\* No more model calls at a time than permits, the leftovers of a failed try included,
\* and only documents with all their pieces enriched are indexed.
EnrichmentSound == EnrichmentTypeOK /\ IndexedEnriched

=============================================================================
