---------------------------- MODULE KnowledgeIndex ----------------------------
(***************************************************************************)
(* QdrantIndex (src/knowledge_index/indexing/qdrant_index.py) and the      *)
(* ingestion pipeline in front of it (src/knowledge_index/pipeline.py).    *)
(* Workers are processes with an index object each over one server: every  *)
(* request to it is a step, and between two of them anybody may run, or    *)
(* the worker die.                                                         *)
(*                                                                         *)
(* A point has the id of its chunk, by whose order the server scrolls, and *)
(* the access list it was ingested with.                                   *)
(***************************************************************************)
EXTENDS Naturals, SequencesExt, FiniteSets

CONSTANTS
  Workers,
  Docs,       \* documents by content: a changed file is another one
  ChunksOf,   \* the chunk ids of every document
  Acls,       \* access lists
  PageSize,   \* points of one scroll
  MaxOps,     \* bound: operations
  MaxDeaths   \* bound: workers that die

ChunkIds == UNION {ChunksOf[d] : d \in Docs}

ASSUME IndexAssumption ==
  /\ \A d \in Docs : IsFiniteSet(ChunksOf[d])
  /\ \A d, e \in Docs : d # e => ChunksOf[d] \cap ChunksOf[e] = {}
  /\ ChunkIds \subseteq Nat /\ {MaxOps, MaxDeaths} \subseteq Nat /\ PageSize \in Nat \ {0}

VARIABLES
  exists,    \* the collection is there
  points,    \* chunk id to access list
  ensured,   \* the workers whose index object has seen the collection
  job,       \* what every worker is doing
  snapshots, \* the snapshot files, each with what may be in it
  ops,       \* history: operations begun
  died       \* history: workers that have died

indexVars == <<exists, points, ensured, job, snapshots, ops, died>>

Pairs(held) == {<<i, held[i]>> : i \in DOMAIN held}
Contents == UNION {[ids -> Acls] : ids \in SUBSET ChunkIds}
NoJob == [kind |-> "idle"]

\* An operation, with what it is about; alone says that no other operation
\* has run beside it.  Of a scroll: what it has, where it goes on, the pairs
\* that have been there all the time and those that have been there at all.
Operation(kind, step, about) ==
  [kind |-> kind, step |-> step, about |-> about, alone |-> TRUE,
   got |-> << >>, next |-> 0, stayed |-> {}, seen |-> {}]

Doing(w, kind, step) == job[w].kind = kind /\ job[w].step = step
Busy == {w \in Workers : job[w] # NoJob}

-----------------------------------------------------------------------------
\* build_chunks and upsert: the same document under the same chunker has the
\* same ids, so that its points are replaced.
PointsOf(d, acl) == [i \in ChunksOf[d] |-> acl]

\* What is held when new is written over it, id by id.
Over(new, held) ==
  [i \in DOMAIN new \cup DOMAIN held |-> IF i \in DOMAIN new THEN new[i] ELSE held[i]]

\* A page of a scroll: the least ids from the offset on; the next offset is the
\* id after them, 0 when there is none.
Page(from) ==
  LET rest == {i \in DOMAIN points : i >= from}
      page == {i \in rest : Cardinality({j \in rest : j < i}) < PageSize}
  IN  [points |-> [i \in page |-> points[i]],
       next |-> IF rest = page THEN 0 ELSE Min(rest \ page)]

\* A step of worker w takes its job on and changes the collection; every scroll
\* under way keeps book of it.
Step(w, its, there, held) ==
  /\ exists' = there
  /\ points' = held
  /\ job' = [v \in Workers |->
       IF v = w THEN its
       ELSE IF job[v].kind # "snapshot" \/ job[v].step # "scroll" THEN job[v]
       ELSE [job[v] EXCEPT !.stayed = @ \cap Pairs(held), !.seen = @ \cup Pairs(held)]]

Goto(w, step) == [job[w] EXCEPT !.step = step]

Begin(w, operation) ==
  /\ job[w] = NoJob /\ ops < MaxOps
  /\ job' = [v \in Workers |->
       IF v = w THEN [operation EXCEPT !.alone = Busy = {}]
       ELSE IF job[v] = NoJob THEN NoJob ELSE [job[v] EXCEPT !.alone = FALSE]]
  /\ ops' = ops + 1
  /\ UNCHANGED <<exists, points, ensured, snapshots, died>>

-----------------------------------------------------------------------------
IndexInit ==
  /\ exists = FALSE
  /\ points = << >>
  /\ ensured = {}
  /\ job = [w \in Workers |-> NoJob]
  /\ snapshots = {}
  /\ ops = 0
  /\ died = 0

\* ingest_docs: one document at a time here.
Ingest(w, d, acl) == Begin(w, Operation("ingest", "prepare", [doc |-> d, acl |-> acl]))

\* delete: one request, for a collection that is taken to be there.
Delete(w, d) == Begin(w, Operation("delete", "write", [doc |-> d]))

TakeSnapshot(w) == Begin(w, Operation("snapshot", "ensure", << >>))

Restore(w, file) == Begin(w, Operation("restore", "exists", file))

\* Chunking, enrichment and embedding change nothing outside.
Prepare(w) ==
  /\ Doing(w, "ingest", "prepare")
  /\ Step(w, Goto(w, "ensure"), exists, points)
  /\ UNCHANGED <<ensured, snapshots, ops, died>>

AfterEnsure(w) ==
  IF job[w].kind = "ingest" THEN Goto(w, "write")
  ELSE [job[w] EXCEPT !.step = "scroll", !.stayed = Pairs(points), !.seen = Pairs(points)]

\* ensure_collection: asks, unless it has seen the collection before.
Ensure(w) ==
  /\ job[w] # NoJob /\ job[w].step = "ensure"
  /\ \/ /\ w \in ensured \/ exists
        /\ Step(w, AfterEnsure(w), exists, points)
        /\ ensured' = ensured \cup {w}
     \/ /\ w \notin ensured /\ ~exists
        /\ Step(w, Goto(w, "create"), exists, points)
        /\ UNCHANGED ensured
  /\ UNCHANGED <<snapshots, ops, died>>

\* create_collection raises when it is there by now (see Fail).
Create(w) ==
  /\ job[w] # NoJob /\ job[w].step = "create" /\ ~exists
  /\ ensured' = ensured \cup {w}
  /\ Step(w, IF job[w].kind = "restore" THEN Goto(w, "write") ELSE AfterEnsure(w), TRUE, points)
  /\ UNCHANGED <<snapshots, ops, died>>

\* upsert: all chunks in one request.
Write(w) ==
  /\ Doing(w, "ingest", "write") /\ exists
  /\ Step(w, NoJob, exists, Over(PointsOf(job[w].about.doc, job[w].about.acl), points))
  /\ UNCHANGED <<ensured, snapshots, ops, died>>

Erase(w) ==
  /\ Doing(w, "delete", "write") /\ exists
  /\ Step(w, NoJob, exists, [i \in DOMAIN points \ ChunksOf[job[w].about.doc] |-> points[i]])
  /\ UNCHANGED <<ensured, snapshots, ops, died>>

\* scroll: page by page, then the file.
Scroll(w) ==
  LET page == Page(job[w].next)
      got == Over(job[w].got, page.points)
  IN
  /\ Doing(w, "snapshot", "scroll") /\ exists
  /\ IF page.next = 0
     THEN /\ Step(w, NoJob, exists, points)
          /\ snapshots' = snapshots \cup
               {[holds |-> got, alone |-> job[w].alone,
                 stayed |-> job[w].stayed, seen |-> job[w].seen]}
     ELSE /\ Step(w, [job[w] EXCEPT !.got = got, !.next = page.next], exists, points)
          /\ UNCHANGED snapshots
  /\ UNCHANGED <<ensured, ops, died>>

\* restore: the file is read first, then the collection asked for, dropped,
\* created again and filled.
RestoreExists(w) ==
  /\ Doing(w, "restore", "exists")
  /\ Step(w, Goto(w, IF exists THEN "drop" ELSE "create"), exists, points)
  /\ UNCHANGED <<ensured, snapshots, ops, died>>

\* Mutant: the collection is kept and written over.
DropNothing(w) ==
  /\ Doing(w, "restore", "drop")
  /\ Step(w, Goto(w, "write"), exists, points)
  /\ UNCHANGED <<ensured, snapshots, ops, died>>

Drop(w) ==
  /\ Doing(w, "restore", "drop")
  /\ Step(w, Goto(w, "create"), FALSE, << >>)
  /\ UNCHANGED <<ensured, snapshots, ops, died>>

Refill(w) ==
  /\ Doing(w, "restore", "write") /\ exists
  /\ Step(w, NoJob, exists, Over(job[w].about.holds, points))
  /\ UNCHANGED <<ensured, snapshots, ops, died>>

\* An operation raises: a stage fails; the collection is there when it is to be
\* created, or is not when it is needed.
Fail(w) ==
  /\ job[w] # NoJob
  /\ \/ job[w].step = "prepare"
     \/ job[w].step = "create" /\ exists
     \/ job[w].step \in {"scroll", "write"} /\ ~exists
  /\ Step(w, NoJob, exists, points)
  /\ UNCHANGED <<ensured, snapshots, ops, died>>

\* The worker's process is killed, and another one started in its place.
WorkerDies(w) ==
  /\ died < MaxDeaths /\ job[w] # NoJob
  /\ Step(w, NoJob, exists, points)
  /\ ensured' = ensured \ {w}
  /\ died' = died + 1
  /\ UNCHANGED <<snapshots, ops>>

IndexNext ==
  \E w \in Workers :
    \/ \E d \in Docs, acl \in Acls : Ingest(w, d, acl)
    \/ \E d \in Docs : Delete(w, d)
    \/ TakeSnapshot(w) \/ \E file \in snapshots : Restore(w, file)
    \/ Prepare(w) \/ Ensure(w) \/ Create(w) \/ Write(w) \/ Erase(w)
    \/ Scroll(w)
    \/ RestoreExists(w) \/ Drop(w) \/ Refill(w) \/ Fail(w) \/ WorkerDies(w)

IndexSpec == IndexInit /\ [][IndexNext]_indexVars

-----------------------------------------------------------------------------
\* Properties

\* Points and snapshots hold chunks under access lists, and there are points only
\* where the collection is, whoever creates, deletes or restores it.
IndexTypeOK ==
  /\ exists \in BOOLEAN /\ ensured \subseteq Workers
  /\ points \in Contents /\ (exists \/ points = << >>)
  /\ \A w \in Workers : job[w] = NoJob \/
       /\ job[w].kind \in {"ingest", "delete", "snapshot", "restore"}
       /\ job[w].got \in Contents /\ job[w].next \in ChunkIds \cup {0}
  /\ \A file \in snapshots : file.holds \in Contents
  /\ ops \in 0 .. MaxOps /\ died \in 0 .. MaxDeaths

\* A snapshot has every point that was there, unchanged, from its first page
\* to its last, and none that never was, whoever writes or restores meanwhile.
SnapshotFaithful ==
  \A file \in snapshots :
    file.stayed \subseteq Pairs(file.holds) /\ Pairs(file.holds) \subseteq file.seen

Whole(held) == \A d \in Docs : ChunksOf[d] \subseteq held \/ ChunksOf[d] \cap held = {}

\* The index holds documents whole or not at all, after any crash and any
\* failure, unless a snapshot taken beside other operations is restored.
WholeDocuments ==
  (\A file \in snapshots : file.alone \/ Whole(DOMAIN file.holds)) => Whole(DOMAIN points)

\* A restore that runs alone leaves exactly what its snapshot holds.
RestoreExact ==
  [][\A w \in Workers : Doing(w, "restore", "write") /\ job[w].alone /\ Refill(w)
       => points' = job[w].about.holds]_indexVars

\* Across overlapping ingestions, deletions, snapshots and restores of several
\* workers that may die: documents are there whole or not at all, a snapshot holds
\* what stayed throughout, and a restore that ends brings back just its file.
IndexSound ==
  /\ []IndexTypeOK
  /\ []SnapshotFaithful
  /\ []WholeDocuments
  /\ RestoreExact

=============================================================================
