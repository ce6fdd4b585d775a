--------------------------- MODULE Knowledge_proofs ---------------------------
(***************************************************************************)
(* The safety properties of parts of the knowledge index: the collection   *)
(* with its snapshots, for any workers, pages and deaths; near-duplicates, *)
(* for any signatures; chunks, for any text and any cuts; the corpus with  *)
(* its tools, for any documents and paths; the knowledge graph with its    *)
(* walks, for any chunks, callers and depths.                              *)
(***************************************************************************)
EXTENDS KnowledgeIndex, Dedup, Chunking, Corpus, KnowledgeGraph, Totals_proofs, SequenceTheorems

-----------------------------------------------------------------------------
(***************************************************************************)
(* The collection.  The invariant relates every scroll under way to the    *)
(* collection beside it, page by page, and says what a job that calls      *)
(* itself alone may rely on; the properties the runs check follow from it. *)
(***************************************************************************)

\* What is a content: chunks, each under an access list.
LEMMA Content ==
  ASSUME NEW f
  PROVE  f \in Contents <=>
           /\ f = [i \in DOMAIN f |-> f[i]] /\ DOMAIN f \subseteq ChunkIds
           /\ \A i \in DOMAIN f : f[i] \in Acls
<1>1. ASSUME f \in Contents
      PROVE  /\ f = [i \in DOMAIN f |-> f[i]] /\ DOMAIN f \subseteq ChunkIds
             /\ \A i \in DOMAIN f : f[i] \in Acls
  <2>1. PICK ids \in SUBSET ChunkIds : f \in [ids -> Acls]
    BY <1>1 DEF Contents
  <2> QED BY <2>1
<1>2. ASSUME f = [i \in DOMAIN f |-> f[i]], DOMAIN f \subseteq ChunkIds,
             \A i \in DOMAIN f : f[i] \in Acls
      PROVE  f \in Contents
  <2> DEFINE ids == DOMAIN f
  <2>1. ids \in SUBSET ChunkIds /\ f \in [ids -> Acls]
    BY <1>2
  <2> QED BY <2>1 DEF Contents
<1> QED BY <1>1, <1>2

LEMMA NothingHeld == << >> \in Contents /\ DOMAIN << >> = {} /\ Pairs(<< >>) = {}
<1>1. DOMAIN << >> = {}
  OBVIOUS
<1>2. << >> = [i \in {} |-> << >>[i]]
  OBVIOUS
<1> QED BY <1>1, <1>2, Content DEF Pairs

LEMMA InPairs ==
  ASSUME NEW f, NEW i, NEW a
  PROVE  <<i, a>> \in Pairs(f) <=> i \in DOMAIN f /\ f[i] = a
BY DEF Pairs

\* What is written over other contents is a content, with the pairs of both
\* that are not written over.
LEMMA OverContent ==
  ASSUME NEW new \in Contents, NEW held \in Contents
  PROVE  /\ Over(new, held) \in Contents
         /\ DOMAIN Over(new, held) = DOMAIN new \cup DOMAIN held
         /\ \A i \in DOMAIN new : Over(new, held)[i] = new[i]
         /\ \A i \in DOMAIN held \ DOMAIN new : Over(new, held)[i] = held[i]
<1> DEFINE all == Over(new, held)
<1>1. /\ DOMAIN new \subseteq ChunkIds /\ \A i \in DOMAIN new : new[i] \in Acls
      /\ DOMAIN held \subseteq ChunkIds /\ \A i \in DOMAIN held : held[i] \in Acls
  BY Content
<1>2. /\ DOMAIN all = DOMAIN new \cup DOMAIN held
      /\ \A i \in DOMAIN new : all[i] = new[i]
      /\ \A i \in DOMAIN held \ DOMAIN new : all[i] = held[i]
      /\ all = [i \in DOMAIN all |-> all[i]]
  BY DEF Over
<1>3. DOMAIN all \subseteq ChunkIds /\ \A i \in DOMAIN all : all[i] \in Acls
  BY <1>1, <1>2
<1>4. all \in Contents
  BY <1>2, <1>3, Content
<1> QED BY <1>2, <1>4

LEMMA PartContent ==
  ASSUME NEW f \in Contents, NEW S \in SUBSET DOMAIN f
  PROVE  /\ [i \in S |-> f[i]] \in Contents /\ DOMAIN [i \in S |-> f[i]] = S
         /\ Pairs([i \in S |-> f[i]]) \subseteq Pairs(f)
<1>1. DOMAIN f \subseteq ChunkIds /\ \A i \in DOMAIN f : f[i] \in Acls
  BY Content
<1>2. [i \in S |-> f[i]] \in Contents
  BY <1>1, Content
<1> QED BY <1>2 DEF Pairs

LEMMA ConstantContent ==
  ASSUME NEW d \in Docs, NEW acl \in Acls
  PROVE  PointsOf(d, acl) \in Contents /\ DOMAIN PointsOf(d, acl) = ChunksOf[d]
<1>1. ChunksOf[d] \subseteq ChunkIds
  BY DEF ChunkIds
<1> QED BY <1>1, Content DEF PointsOf

\* Contents with the same pairs have the same chunks.
LEMMA SamePairs ==
  ASSUME NEW f, NEW g, Pairs(f) = Pairs(g)
  PROVE  DOMAIN f = DOMAIN g
<1>1. \A i \in DOMAIN f : <<i, f[i]>> \in Pairs(g)
  BY DEF Pairs
<1>2. \A i \in DOMAIN g : <<i, g[i]>> \in Pairs(f)
  BY DEF Pairs
<1> QED BY <1>1, <1>2, InPairs

-----------------------------------------------------------------------------
\* What a scroll's page is: the points from the offset to the next one, and all
\* of them when there is no next one.
LEMMA PageCovers ==
  ASSUME NEW from \in Nat, points \in Contents, IsFiniteSet(DOMAIN points)
  PROVE  /\ Page(from).points \in Contents
         /\ Pairs(Page(from).points) \subseteq Pairs(points)
         /\ Page(from).next \in ChunkIds \cup {0}
         /\ \A i \in DOMAIN Page(from).points : from <= i
         /\ Page(from).next = 0 =>
              \A i \in DOMAIN points : from <= i => i \in DOMAIN Page(from).points
         /\ Page(from).next # 0 =>
              /\ from <= Page(from).next
              /\ \A i \in DOMAIN Page(from).points : i < Page(from).next
              /\ \A i \in DOMAIN points :
                   from <= i /\ i < Page(from).next => i \in DOMAIN Page(from).points
<1> DEFINE rest == {i \in DOMAIN points : i >= from}
           Before(i) == {j \in rest : j < i}
           page == {i \in rest : Cardinality(Before(i)) < PageSize}
           held == [i \in page |-> points[i]]
           beyond == rest \ page
<1>1. /\ Page(from).points = held
      /\ Page(from).next = IF rest = page THEN 0 ELSE Min(beyond)
  BY DEF Page
<1>2. DOMAIN points \subseteq ChunkIds /\ ChunkIds \subseteq Nat /\ PageSize \in Nat /\ PageSize # 0
  BY Content, IndexAssumption
<1>3. page \subseteq rest /\ rest \subseteq DOMAIN points /\ rest \subseteq Nat
  BY <1>2
<1>4. held \in Contents /\ DOMAIN held = page /\ Pairs(held) \subseteq Pairs(points)
  BY <1>3, PartContent
<1>5. \A i \in page : from <= i
  BY <1>3
<1>6. CASE rest = page
  BY <1>1, <1>3, <1>4, <1>5, <1>6
<1>7. CASE rest # page
  <2>1. IsFiniteSet(rest) /\ IsFiniteSet(beyond)
    BY <1>3, FS_Subset
  <2>2. beyond # {} /\ beyond \in SUBSET Int
    BY <1>3, <1>7
  <2>3. Min(beyond) \in beyond /\ \A x \in beyond : Min(beyond) <= x
    BY <2>1, <2>2, FiniteMin
  <2> DEFINE m == Min(beyond)
  <2>4. m \in rest /\ m \notin page /\ m \in Nat /\ m \in ChunkIds /\ from <= m
    BY <2>3, <1>2, <1>3
  <2>5. ASSUME NEW i \in page PROVE i < m
    <3>1. i \in Nat /\ i \in rest /\ Cardinality(Before(i)) < PageSize
      BY <1>3
    <3>2. SUFFICES ASSUME m <= i PROVE FALSE
      BY <3>1, <2>4
    <3>3. Before(m) \subseteq Before(i)
      <4>1. ASSUME NEW j \in Before(m) PROVE j \in Before(i)
        <5>1. j \in rest /\ j \in Nat /\ j < m
          BY <1>3
        <5>2. j < i
          BY <5>1, <3>1, <3>2, <2>4
        <5> QED BY <5>1, <5>2
      <4> QED BY <4>1
    <3>4. IsFiniteSet(Before(i)) /\ IsFiniteSet(Before(m))
      BY <2>1, FS_Subset
    <3>5. Cardinality(Before(m)) <= Cardinality(Before(i))
      BY <3>3, <3>4, FS_Subset
    <3>6. Cardinality(Before(m)) \in Nat /\ Cardinality(Before(i)) \in Nat
      BY <3>4, FS_CardinalityType
    <3>7. Cardinality(Before(m)) < PageSize
      BY <3>1, <3>5, <3>6, <1>2
    <3> QED BY <3>7, <2>4
  <2>6. ASSUME NEW i \in DOMAIN points, from <= i, i < m PROVE i \in page
    <3>1. i \in rest /\ i \in Nat
      BY <2>6, <1>2
    <3>2. i \notin beyond
      BY <2>3, <2>6, <2>4, <3>1
    <3> QED BY <3>1, <3>2
  <2>7. m # 0
    <3>1. SUFFICES ASSUME m = 0 PROVE FALSE
      OBVIOUS
    <3>2. \A j \in rest : ~(j < m)
      BY <3>1, <1>3
    <3>3. Before(m) = {}
      BY <3>2
    <3>4. Cardinality(Before(m)) = 0
      BY <3>3, FS_EmptySet
    <3>5. Cardinality(Before(m)) < PageSize
      BY <3>4, <1>2
    <3> QED BY <3>5, <2>4
  <2>8. Page(from).next = m
    BY <1>1, <1>7
  <2> HIDE DEF m, page, rest, held, beyond
  <2> QED BY <1>1, <1>4, <1>5, <2>4, <2>5, <2>6, <2>7, <2>8
<1> QED BY <1>6, <1>7

-----------------------------------------------------------------------------
(***************************************************************************)
(* The inductive invariant.  A scroll has nothing of the ids from its      *)
(* offset on, and below it all that has stayed; what it has was there at   *)
(* some time.  A job that calls itself alone is the only one, so that what *)
(* a scroll has kept book of is the collection itself, and what a restore  *)
(* will fill is empty.                                                     *)
(***************************************************************************)
Scrolls(j) == j.kind = "snapshot" /\ j.step = "scroll"

Job(kind, step, about, alone, got, next, stayed, seen) ==
  [kind |-> kind, step |-> step, about |-> about, alone |-> alone,
   got |-> got, next |-> next, stayed |-> stayed, seen |-> seen]

IsJob(j) == j = Job(j.kind, j.step, j.about, j.alone, j.got, j.next, j.stayed, j.seen)

JobTyped(j, files) ==
  /\ IsJob(j)
  /\ j.kind \in {"ingest", "delete", "snapshot", "restore"} /\ j.alone \in BOOLEAN
  /\ j.got \in Contents /\ j.next \in ChunkIds \cup {0}
  /\ j.kind = "ingest" => j.about.doc \in Docs /\ j.about.acl \in Acls
  /\ j.kind = "delete" => j.about.doc \in Docs
  /\ j.kind = "restore" => j.about \in files
  /\ j.kind = "snapshot" /\ j.step # "scroll" => j.got = << >> /\ j.next = 0

BookKept(j, held) ==
  /\ j.stayed \subseteq Pairs(held) /\ Pairs(held) \subseteq j.seen
  /\ Pairs(j.got) \subseteq j.seen /\ IsFiniteSet(DOMAIN j.got)
  /\ \A i \in DOMAIN j.got : i < j.next
  /\ \A p \in j.stayed : p[1] < j.next => p \in Pairs(j.got)

AloneKept(j, held) ==
  /\ Scrolls(j) => j.stayed = Pairs(held) /\ j.seen = Pairs(held)
  /\ j.kind = "restore" /\ j.step = "write" => held = << >>

JobOK(j, held, files) ==
  /\ JobTyped(j, files)
  /\ Scrolls(j) => BookKept(j, held)
  /\ j.alone => AloneKept(j, held)

JobsOK == \A w \in Workers : job[w] = NoJob \/ JobOK(job[w], points, snapshots)

AloneOnly ==
  \A v, w \in Workers : job[v] # NoJob /\ job[v].alone /\ w # v => job[w] = NoJob

FilesOK ==
  \A file \in snapshots :
    /\ file.holds \in Contents /\ IsFiniteSet(DOMAIN file.holds)
    /\ file.stayed \subseteq Pairs(file.holds) /\ Pairs(file.holds) \subseteq file.seen

Trusted(files) == \A file \in files : file.alone \/ Whole(DOMAIN file.holds)
AllWhole(held, files) ==
  Trusted(files) => Whole(DOMAIN held) /\ \A file \in files : Whole(DOMAIN file.holds)

IndexInv ==
  /\ exists \in BOOLEAN /\ ensured \subseteq Workers
  /\ points \in Contents /\ IsFiniteSet(DOMAIN points) /\ (exists \/ points = << >>)
  /\ job = [w \in Workers |-> job[w]]
  /\ JobsOK /\ AloneOnly /\ FilesOK /\ AllWhole(points, snapshots)
  /\ ops \in 0 .. MaxOps /\ died \in 0 .. MaxDeaths

\* A job of which some fields are changed.
LEMMA JobFields ==
  ASSUME NEW kind, NEW step, NEW about, NEW alone, NEW got, NEW next, NEW stayed, NEW seen,
         NEW j, j = Job(kind, step, about, alone, got, next, stayed, seen)
  PROVE  /\ j.kind = kind /\ j.step = step /\ j.about = about /\ j.alone = alone
         /\ j.got = got /\ j.next = next /\ j.stayed = stayed /\ j.seen = seen
BY DEF Job

LEMMA JobStep ==
  ASSUME NEW j, IsJob(j), NEW x
  PROVE  [j EXCEPT !.step = x] = Job(j.kind, x, j.about, j.alone, j.got, j.next, j.stayed, j.seen)
<1> DEFINE m == [j EXCEPT !.step = x]
<1>1. m = Job(j.kind, x, j.about, j.alone, j.got, j.next, j.stayed, j.seen)
  BY DEF Job, IsJob
<1> QED BY <1>1, Zenon

LEMMA JobAlone ==
  ASSUME NEW j, IsJob(j), NEW x
  PROVE  [j EXCEPT !.alone = x] = Job(j.kind, j.step, j.about, x, j.got, j.next, j.stayed, j.seen)
<1> DEFINE m == [j EXCEPT !.alone = x]
<1>1. m = Job(j.kind, j.step, j.about, x, j.got, j.next, j.stayed, j.seen)
  BY DEF Job, IsJob
<1> QED BY <1>1, Zenon

LEMMA JobBook ==
  ASSUME NEW j, IsJob(j), NEW x, NEW y
  PROVE  [j EXCEPT !.stayed = x, !.seen = y] =
           Job(j.kind, j.step, j.about, j.alone, j.got, j.next, x, y)
<1> DEFINE m == [j EXCEPT !.stayed = x]
<1>1. m = Job(j.kind, j.step, j.about, j.alone, j.got, j.next, x, j.seen)
  BY DEF Job, IsJob
<1>2. [j EXCEPT !.stayed = x, !.seen = y] = [m EXCEPT !.seen = y]
  BY Zenon
<1> HIDE DEF m
<1>3. [m EXCEPT !.seen = y] = Job(j.kind, j.step, j.about, j.alone, j.got, j.next, x, y)
  BY <1>1 DEF Job
<1> QED BY <1>2, <1>3, Zenon

LEMMA JobRead ==
  ASSUME NEW j, IsJob(j), NEW x, NEW y
  PROVE  [j EXCEPT !.got = x, !.next = y] =
           Job(j.kind, j.step, j.about, j.alone, x, y, j.stayed, j.seen)
<1> DEFINE m == [j EXCEPT !.got = x]
<1>1. m = Job(j.kind, j.step, j.about, j.alone, x, j.next, j.stayed, j.seen)
  BY DEF Job, IsJob
<1>2. [j EXCEPT !.got = x, !.next = y] = [m EXCEPT !.next = y]
  BY Zenon
<1> HIDE DEF m
<1>3. [m EXCEPT !.next = y] = Job(j.kind, j.step, j.about, j.alone, x, y, j.stayed, j.seen)
  BY <1>1 DEF Job
<1> QED BY <1>2, <1>3, Zenon

LEMMA JobOpened ==
  ASSUME NEW j, IsJob(j), NEW x
  PROVE  [j EXCEPT !.step = "scroll", !.stayed = x, !.seen = x] =
           Job(j.kind, "scroll", j.about, j.alone, j.got, j.next, x, x)
<1> DEFINE m == [j EXCEPT !.step = "scroll"]
           n == [m EXCEPT !.stayed = x]
<1>1. m = Job(j.kind, "scroll", j.about, j.alone, j.got, j.next, j.stayed, j.seen)
  BY DEF Job, IsJob
<1>2. [j EXCEPT !.step = "scroll", !.stayed = x, !.seen = x] = [n EXCEPT !.seen = x]
  BY Zenon
<1> HIDE DEF m
<1>3. n = Job(j.kind, "scroll", j.about, j.alone, j.got, j.next, x, j.seen)
  BY <1>1 DEF Job
<1> HIDE DEF n
<1>4. [n EXCEPT !.seen = x] = Job(j.kind, "scroll", j.about, j.alone, j.got, j.next, x, x)
  BY <1>3 DEF Job
<1> QED BY <1>2, <1>4, Zenon
LEMMA IdleIsNoJob ==
  /\ NoJob.kind = "idle"
  /\ \A j, files : JobTyped(j, files) => j # NoJob
<1>1. NoJob.kind = "idle"
  BY DEF NoJob
<1>2. ASSUME NEW j, NEW files, JobTyped(j, files) PROVE j # NoJob
  BY <1>1, <1>2 DEF JobTyped
<1> QED BY <1>1, <1>2

\* What the invariant says is what the runs check.
LEMMA InvIsSound ==
  ASSUME IndexInv
  PROVE  IndexTypeOK /\ SnapshotFaithful /\ WholeDocuments
<1>1. ASSUME NEW w \in Workers
      PROVE  job[w] = NoJob \/
               /\ job[w].kind \in {"ingest", "delete", "snapshot", "restore"}
               /\ job[w].got \in Contents /\ job[w].next \in ChunkIds \cup {0}
  BY DEF IndexInv, JobsOK, JobOK, JobTyped
<1>2. IndexTypeOK
  BY <1>1 DEF IndexInv, FilesOK, IndexTypeOK
<1>3. SnapshotFaithful
  BY DEF IndexInv, FilesOK, SnapshotFaithful
<1>4. WholeDocuments
  BY DEF IndexInv, AllWhole, Trusted, WholeDocuments
<1> QED BY <1>2, <1>3, <1>4

\* A step of one worker: the books of the scrolls of the others stay right.
LEMMA StepKeeps ==
  ASSUME JobsOK, AloneOnly, job = [v \in Workers |-> job[v]],
         NEW w \in Workers, job[w] # NoJob,
         NEW its, NEW there, NEW held, Step(w, its, there, held),
         NEW files, snapshots \subseteq files,
         its = NoJob \/ (JobOK(its, held, files) /\ its.alone = job[w].alone)
  PROVE  /\ exists' = there /\ points' = held
         /\ job' = [v \in Workers |-> job'[v]]
         /\ \A v \in Workers : job'[v] = NoJob \/ JobOK(job'[v], held, files)
         /\ AloneOnly'
<1> DEFINE Booked(j) ==
      [j EXCEPT !.stayed = j.stayed \cap Pairs(held), !.seen = j.seen \cup Pairs(held)]
<1>1. /\ exists' = there /\ points' = held
      /\ job' = [v \in Workers |->
           IF v = w THEN its
           ELSE IF job[v].kind # "snapshot" \/ job[v].step # "scroll" THEN job[v]
           ELSE Booked(job[v])]
  BY DEF Step
<1>2. job' = [v \in Workers |-> job'[v]]
  BY <1>1
<1>3. ASSUME NEW v \in Workers, v # w
      PROVE  /\ job'[v] = NoJob \/ JobOK(job'[v], held, files)
             /\ job[v] = NoJob => job'[v] = NoJob
             /\ job'[v] # NoJob => ~job'[v].alone
  <2>1. CASE job[v] = NoJob
    <3>1. job[v].kind # "snapshot"
      BY <2>1, IdleIsNoJob
    <3> QED BY <3>1, <2>1, <1>1, <1>3
  <2>2. CASE job[v] # NoJob
    <3>1. JobOK(job[v], points, snapshots) /\ ~job[v].alone
      BY <2>2, <1>3 DEF JobsOK, AloneOnly
    <3>2. JobTyped(job[v], files)
      BY <3>1 DEF JobOK, JobTyped
    <3>3. CASE ~Scrolls(job[v])
      <4>1. job'[v] = job[v]
        BY <3>3, <1>1, <1>3 DEF Scrolls
      <4> QED BY <4>1, <3>1, <3>2, <3>3, <2>2 DEF JobOK
    <3>4. CASE Scrolls(job[v])
      <4> DEFINE j == job[v]
                 k == Booked(j)
      <4>1. job'[v] = k
        BY <3>4, <1>1, <1>3 DEF Scrolls
      <4>2. /\ k.kind = j.kind /\ k.step = j.step /\ k.about = j.about /\ k.alone = j.alone
            /\ k.got = j.got /\ k.next = j.next
            /\ k.stayed = j.stayed \cap Pairs(held) /\ k.seen = j.seen \cup Pairs(held)
            /\ IsJob(k)
        <5>1. IsJob(j)
          BY <3>2 DEF JobTyped
        <5>2. k = Job(j.kind, j.step, j.about, j.alone, j.got, j.next,
                      j.stayed \cap Pairs(held), j.seen \cup Pairs(held))
          BY <5>1, JobBook, Zenon
        <5> HIDE DEF k
        <5>3. /\ k.kind = j.kind /\ k.step = j.step /\ k.about = j.about /\ k.alone = j.alone
              /\ k.got = j.got /\ k.next = j.next
              /\ k.stayed = j.stayed \cap Pairs(held) /\ k.seen = j.seen \cup Pairs(held)
          BY <5>2, JobFields
        <5> QED BY <5>2, <5>3 DEF IsJob
      <4>3. BookKept(j, points)
        BY <3>1, <3>4 DEF JobOK
      <4> HIDE DEF k
      <4>4. JobTyped(k, files) /\ Scrolls(k)
        BY <4>2, <3>2, <3>4 DEF JobTyped, Scrolls
      <4>5. BookKept(k, held)
        BY <4>2, <4>3 DEF BookKept
      <4>6. ~k.alone
        BY <4>2, <3>1
      <4>7. k # NoJob
        BY <4>4, IdleIsNoJob
      <4> QED BY <4>1, <4>4, <4>5, <4>6, <4>7, <2>2 DEF JobOK
    <3> QED BY <3>3, <3>4
  <2> QED BY <2>1, <2>2
<1>4. job'[w] = its
  BY <1>1
<1>5. \A v \in Workers : job'[v] = NoJob \/ JobOK(job'[v], held, files)
  BY <1>3, <1>4
<1>6. AloneOnly'
  <2>1. SUFFICES ASSUME NEW u \in Workers, NEW v \in Workers,
                        job'[u] # NoJob, job'[u].alone, v # u
                 PROVE  job'[v] = NoJob
    BY Zenon DEF AloneOnly
  <2>2. u = w
    BY <2>1, <1>3
  <2>3. job[w].alone
    BY <2>1, <2>2, <1>4
  <2>4. job[v] = NoJob
    BY <2>1, <2>2, <2>3 DEF AloneOnly
  <2> QED BY <2>1, <2>2, <2>4, <1>3
<1> QED BY <1>1, <1>2, <1>5, <1>6

\* A step of one worker keeps the invariant, when what it leaves behind is right.
LEMMA StepInv ==
  ASSUME IndexInv, NEW w \in Workers, job[w] # NoJob,
         NEW its, NEW there \in BOOLEAN, NEW held \in Contents, Step(w, its, there, held),
         IsFiniteSet(DOMAIN held), there \/ held = << >>,
         snapshots \subseteq snapshots',
         its = NoJob \/ (JobOK(its, held, snapshots') /\ its.alone = job[w].alone),
         FilesOK', AllWhole(held, snapshots'),
         ensured' \subseteq Workers, ops' \in 0 .. MaxOps, died' \in 0 .. MaxDeaths
  PROVE  IndexInv'
<1>1. JobsOK /\ AloneOnly /\ job = [v \in Workers |-> job[v]]
  BY DEF IndexInv
<1>2. /\ exists' = there /\ points' = held
      /\ job' = [v \in Workers |-> job'[v]]
      /\ \A v \in Workers : job'[v] = NoJob \/ JobOK(job'[v], held, snapshots')
      /\ AloneOnly'
  BY <1>1, StepKeeps
<1>3. JobsOK'
  BY <1>2 DEF JobsOK
<1> QED BY <1>2, <1>3 DEF IndexInv

\* The same for a step that leaves the collection and the files alone.
LEMMA LookInv ==
  ASSUME IndexInv, NEW w \in Workers, job[w] # NoJob,
         NEW its, NEW there \in BOOLEAN, Step(w, its, there, points),
         there \/ points = << >>, snapshots' = snapshots,
         its = NoJob \/ (JobOK(its, points, snapshots) /\ its.alone = job[w].alone),
         ensured' \subseteq Workers, ops' = ops, died' \in 0 .. MaxDeaths
  PROVE  IndexInv'
<1>1. /\ points \in Contents /\ IsFiniteSet(DOMAIN points) /\ FilesOK
      /\ AllWhole(points, snapshots) /\ ops \in 0 .. MaxOps
  BY DEF IndexInv
<1>2. FilesOK'
  BY <1>1 DEF FilesOK
<1>3. AllWhole(points, snapshots')
  BY <1>1
<1>4. its = NoJob \/ (JobOK(its, points, snapshots') /\ its.alone = job[w].alone)
  OBVIOUS
<1>5. snapshots \subseteq snapshots' /\ ops' \in 0 .. MaxOps
  BY <1>1
<1> QED BY <1>1, <1>2, <1>3, <1>4, <1>5, StepInv

\* A job goes on to a step that is not the scroll.
LEMMA GotoKeeps ==
  ASSUME NEW j, NEW held, NEW files, JobOK(j, held, files),
         NEW step, NEW later, step # "scroll", j.kind = "snapshot" => j.step # "scroll",
         j.alone /\ j.kind = "restore" /\ step = "write" => later = << >>
  PROVE  /\ JobOK([j EXCEPT !.step = step], later, files)
         /\ [j EXCEPT !.step = step].alone = j.alone
<1> DEFINE k == [j EXCEPT !.step = step]
<1>1. JobTyped(j, files) /\ IsJob(j)
  BY DEF JobOK, JobTyped
<1>2. k = Job(j.kind, step, j.about, j.alone, j.got, j.next, j.stayed, j.seen)
  BY <1>1, JobStep, Zenon
<1> HIDE DEF k
<1>3. /\ k.kind = j.kind /\ k.step = step /\ k.about = j.about /\ k.alone = j.alone
      /\ k.got = j.got /\ k.next = j.next /\ k.stayed = j.stayed /\ k.seen = j.seen
  BY <1>2, JobFields
<1>4. IsJob(k)
  BY <1>2, <1>3 DEF IsJob
<1>5. JobTyped(k, files) /\ ~Scrolls(k)
  BY <1>1, <1>3, <1>4 DEF JobTyped, Scrolls
<1>6. k.alone => AloneKept(k, later)
  BY <1>3, <1>5 DEF AloneKept
<1>7. JobOK(k, later, files) /\ k.alone = j.alone
  BY <1>3, <1>5, <1>6 DEF JobOK
<1> QED BY <1>7 DEF k

\* A scroll begins, its book being the collection.
LEMMA OpenKeeps ==
  ASSUME NEW j, NEW held \in Contents, NEW files, JobOK(j, held, files), j.step # "scroll"
  PROVE  LET k == [j EXCEPT !.step = "scroll", !.stayed = Pairs(held), !.seen = Pairs(held)]
         IN  JobOK(k, held, files) /\ k.alone = j.alone
<1> DEFINE k == [j EXCEPT !.step = "scroll", !.stayed = Pairs(held), !.seen = Pairs(held)]
<1>1. JobTyped(j, files) /\ IsJob(j)
  BY DEF JobOK, JobTyped
<1>2. k = Job(j.kind, "scroll", j.about, j.alone, j.got, j.next, Pairs(held), Pairs(held))
  BY <1>1, JobOpened, Zenon
<1> HIDE DEF k
<1>3. /\ k.kind = j.kind /\ k.step = "scroll" /\ k.about = j.about /\ k.alone = j.alone
      /\ k.got = j.got /\ k.next = j.next /\ k.stayed = Pairs(held) /\ k.seen = Pairs(held)
  BY <1>2, JobFields
<1>4. IsJob(k)
  BY <1>2, <1>3 DEF IsJob
<1>5. JobTyped(k, files)
  BY <1>1, <1>3, <1>4 DEF JobTyped
<1>6. ASSUME Scrolls(k) PROVE BookKept(k, held)
  <2>1. k.got = << >> /\ k.next = 0
    BY <1>1, <1>3, <1>6 DEF JobTyped, Scrolls
  <2>2. DOMAIN k.got = {} /\ Pairs(k.got) = {} /\ IsFiniteSet(DOMAIN k.got)
    BY <2>1, NothingHeld, FS_EmptySet
  <2>3. ASSUME NEW p \in Pairs(held), p[1] < 0 PROVE FALSE
    <3>1. PICK i \in DOMAIN held : p = <<i, held[i]>>
      BY DEF Pairs
    <3>2. i \in Nat
      BY Content, IndexAssumption
    <3> QED BY <3>1, <3>2, <2>3
  <2> QED BY <1>3, <2>1, <2>2, <2>3 DEF BookKept
<1>7. k.alone => AloneKept(k, held)
  BY <1>3 DEF AloneKept
<1>8. JobOK(k, held, files) /\ k.alone = j.alone
  BY <1>3, <1>5, <1>6, <1>7 DEF JobOK
<1> QED BY <1>8 DEF k

-----------------------------------------------------------------------------
\* An operation begins: it is alone only when nobody else is at work, and none of
\* the others is any more.
LEMMA BeginInv ==
  ASSUME IndexInv, NEW w \in Workers, NEW kind, NEW step, NEW about,
         Begin(w, Operation(kind, step, about)), step # "scroll",
         kind \in {"ingest", "delete", "snapshot", "restore"},
         kind = "ingest" => about.doc \in Docs /\ about.acl \in Acls,
         kind = "delete" => about.doc \in Docs,
         kind = "restore" => about \in snapshots /\ step # "write"
  PROVE  IndexInv'
<1> DEFINE op == Operation(kind, step, about)
           alone == Busy = {}
           its == [op EXCEPT !.alone = alone]
           no == FALSE
           Beside(j) == [j EXCEPT !.alone = no]
<1>1. /\ job[w] = NoJob /\ ops < MaxOps /\ ops' = ops + 1
      /\ UNCHANGED <<exists, points, ensured, snapshots, died>>
  BY DEF Begin
<1>2. job' = [v \in Workers |->
                IF v = w THEN its ELSE IF job[v] = NoJob THEN NoJob ELSE Beside(job[v])]
  BY Zenon DEF Begin
<1>3. alone \in BOOLEAN
  OBVIOUS
<1>4. alone => \A v \in Workers : job[v] = NoJob
  BY DEF Busy
<1> HIDE DEF alone
<1> DEFINE yes == TRUE
<1>5. op = Job(kind, step, about, yes, << >>, 0, {}, {})
  BY DEF Operation, Job
<1> HIDE DEF op, yes
<1>6. /\ op.kind = kind /\ op.step = step /\ op.about = about
      /\ op.got = << >> /\ op.next = 0 /\ op.stayed = {} /\ op.seen = {} /\ op.alone = yes
  BY <1>5, JobFields
<1>7. IsJob(op)
  BY <1>5, <1>6 DEF IsJob
<1>8. its = Job(op.kind, op.step, op.about, alone, op.got, op.next, op.stayed, op.seen)
  BY <1>7, JobAlone, Zenon
<1> HIDE DEF its
<1>9. /\ its.kind = kind /\ its.step = step /\ its.about = about /\ its.alone = alone
      /\ its.got = << >> /\ its.next = 0 /\ IsJob(its)
  BY <1>6, <1>8, JobFields DEF IsJob
<1>10. JobOK(its, points, snapshots)
  <2>1. JobTyped(its, snapshots)
    BY <1>3, <1>9, NothingHeld DEF JobTyped
  <2>2. ~Scrolls(its)
    BY <1>9 DEF Scrolls
  <2>3. AloneKept(its, points)
    BY <1>9, <2>2 DEF AloneKept
  <2> QED BY <2>1, <2>2, <2>3 DEF JobOK
<1>0. no \in BOOLEAN /\ ~no
  OBVIOUS
<1> HIDE DEF no
<1>11. ASSUME NEW v \in Workers, job[v] # NoJob
       PROVE  JobOK(Beside(job[v]), points, snapshots) /\ ~Beside(job[v]).alone
  <2> DEFINE j == job[v]
             k == Beside(j)
  <2>1. JobOK(j, points, snapshots)
    BY <1>11 DEF IndexInv, JobsOK
  <2>2. IsJob(j)
    BY <2>1 DEF JobOK, JobTyped
  <2>3. k = Job(j.kind, j.step, j.about, no, j.got, j.next, j.stayed, j.seen)
    BY <2>2, JobAlone, Zenon
  <2> HIDE DEF k
  <2>4. /\ k.kind = j.kind /\ k.step = j.step /\ k.about = j.about /\ k.alone = no
        /\ k.got = j.got /\ k.next = j.next /\ k.stayed = j.stayed /\ k.seen = j.seen
    BY <2>3, JobFields
  <2>5. IsJob(k)
    BY <2>3, <2>4 DEF IsJob
  <2>6. JobTyped(k, snapshots)
    BY <1>0, <2>1, <2>4, <2>5 DEF JobOK, JobTyped
  <2>7. Scrolls(k) => BookKept(k, points)
    BY <2>1, <2>4 DEF JobOK, Scrolls, BookKept
  <2>8. JobOK(k, points, snapshots) /\ ~k.alone
    BY <1>0, <2>4, <2>6, <2>7 DEF JobOK
  <2> QED BY <2>8 DEF k
<1> HIDE DEF Beside
<1>12. ASSUME NEW v \in Workers
       PROVE  /\ job'[v] = NoJob \/ JobOK(job'[v], points, snapshots)
              /\ v # w /\ job'[v] # NoJob => ~job'[v].alone
              /\ v # w /\ job[v] = NoJob => job'[v] = NoJob
  BY <1>2, <1>10, <1>11
<1>13. JobsOK'
  BY <1>1, <1>12 DEF JobsOK
<1>14. AloneOnly'
  <2>1. SUFFICES ASSUME NEW u \in Workers, NEW v \in Workers,
                        job'[u] # NoJob, job'[u].alone, v # u
                 PROVE  job'[v] = NoJob
    BY Zenon DEF AloneOnly
  <2>2. u = w /\ job'[w] = its
    BY <2>1, <1>12, <1>2
  <2>3. alone
    BY <2>1, <2>2, <1>9
  <2> QED BY <2>1, <2>2, <2>3, <1>4, <1>12
<1>15. job' = [v \in Workers |-> job'[v]]
  BY <1>2
<1>16. FilesOK' /\ AllWhole(points, snapshots)' /\ ops' \in 0 .. MaxOps
  BY <1>1, IndexAssumption DEF IndexInv, FilesOK, AllWhole, Trusted, Whole
<1> QED BY <1>1, <1>13, <1>14, <1>15, <1>16 DEF IndexInv

LEMMA BeginsInv ==
  ASSUME IndexInv, NEW w \in Workers,
         \/ \E d \in Docs, acl \in Acls : Ingest(w, d, acl)
         \/ \E d \in Docs : Delete(w, d)
         \/ TakeSnapshot(w)
         \/ \E file \in snapshots : Restore(w, file)
  PROVE  IndexInv'
<1>1. ASSUME NEW d \in Docs, NEW acl \in Acls, Ingest(w, d, acl) PROVE IndexInv'
  <2> DEFINE about == [doc |-> d, acl |-> acl]
  <2>1. about.doc \in Docs /\ about.acl \in Acls
    OBVIOUS
  <2>2. Begin(w, Operation("ingest", "prepare", about))
    BY <1>1 DEF Ingest
  <2> HIDE DEF about
  <2> QED BY <2>1, <2>2, BeginInv
<1>2. ASSUME NEW d \in Docs, Delete(w, d) PROVE IndexInv'
  <2> DEFINE about == [doc |-> d]
  <2>1. about.doc \in Docs
    OBVIOUS
  <2>2. Begin(w, Operation("delete", "write", about))
    BY <1>2 DEF Delete
  <2> HIDE DEF about
  <2> QED BY <2>1, <2>2, BeginInv
<1>3. ASSUME TakeSnapshot(w) PROVE IndexInv'
  BY <1>3, BeginInv DEF TakeSnapshot
<1>4. ASSUME NEW file \in snapshots, Restore(w, file) PROVE IndexInv'
  BY <1>4, BeginInv DEF Restore
<1> QED BY <1>1, <1>2, <1>3, <1>4

-----------------------------------------------------------------------------
\* What is known of a worker's job.
LEMMA AtWork ==
  ASSUME IndexInv, NEW w \in Workers, job[w] # NoJob
  PROVE  JobOK(job[w], points, snapshots) /\ JobTyped(job[w], snapshots)
BY DEF IndexInv, JobsOK, JobOK

LEMMA DoingIsWork ==
  ASSUME NEW w, NEW kind \in {"ingest", "delete", "snapshot", "restore"}, NEW step,
         Doing(w, kind, step)
  PROVE  job[w] # NoJob /\ job[w].kind = kind /\ job[w].step = step
BY IdleIsNoJob DEF Doing

LEMMA AfterEnsureKeeps ==
  ASSUME IndexInv, NEW w \in Workers, job[w] # NoJob, job[w].kind # "restore",
         job[w].step \in {"ensure", "create"}
  PROVE  JobOK(AfterEnsure(w), points, snapshots) /\ AfterEnsure(w).alone = job[w].alone
<1>1. JobOK(job[w], points, snapshots) /\ points \in Contents
  BY AtWork DEF IndexInv
<1>2. CASE job[w].kind = "ingest"
  <2>1. AfterEnsure(w) = [job[w] EXCEPT !.step = "write"]
    BY <1>2 DEF AfterEnsure, Goto
  <2>2. /\ JobOK([job[w] EXCEPT !.step = "write"], points, snapshots)
        /\ [job[w] EXCEPT !.step = "write"].alone = job[w].alone
    BY <1>1, <1>2, GotoKeeps
  <2> QED BY <2>1, <2>2, Zenon
<1>3. CASE job[w].kind # "ingest"
  <2> DEFINE k == [job[w] EXCEPT !.step = "scroll", !.stayed = Pairs(points), !.seen = Pairs(points)]
  <2>1. AfterEnsure(w) = k
    BY <1>3, Zenon DEF AfterEnsure
  <2>2. job[w].step # "scroll"
    OBVIOUS
  <2>3. JobOK(k, points, snapshots) /\ k.alone = job[w].alone
    BY <1>1, <2>2, OpenKeeps, Zenon
  <2> HIDE DEF k
  <2> QED BY <2>1, <2>3
<1> QED BY <1>2, <1>3

LEMMA PrepareInv ==
  ASSUME IndexInv, NEW w \in Workers, Prepare(w)
  PROVE  IndexInv'
<1>1. job[w] # NoJob /\ job[w].kind = "ingest"
  BY DoingIsWork DEF Prepare
<1>2. /\ JobOK(Goto(w, "ensure"), points, snapshots)
      /\ Goto(w, "ensure").alone = job[w].alone
  BY <1>1, AtWork, GotoKeeps DEF Goto
<1>3. /\ Step(w, Goto(w, "ensure"), exists, points)
      /\ UNCHANGED <<ensured, snapshots, ops, died>>
  BY DEF Prepare
<1>4. exists \in BOOLEAN /\ (exists \/ points = << >>) /\ ensured \subseteq Workers
      /\ died \in 0 .. MaxDeaths
  BY DEF IndexInv
<1> QED BY <1>1, <1>2, <1>3, <1>4, LookInv

LEMMA EnsureInv ==
  ASSUME IndexInv, NEW w \in Workers, Ensure(w)
  PROVE  IndexInv'
<1>1. /\ job[w] # NoJob /\ job[w].step = "ensure"
      /\ UNCHANGED <<snapshots, ops, died>>
  BY DEF Ensure
<1>2. exists \in BOOLEAN /\ (exists \/ points = << >>) /\ ensured \subseteq Workers
      /\ died \in 0 .. MaxDeaths
  BY DEF IndexInv
<1>3. CASE Step(w, AfterEnsure(w), exists, points) /\ ensured' = ensured \cup {w}
  <2>1. ensured' \subseteq Workers
    BY <1>2, <1>3
  <2>2. JobOK(AfterEnsure(w), points, snapshots) /\ AfterEnsure(w).alone = job[w].alone
    <3>1. CASE job[w].kind # "restore"
      BY <1>1, <3>1, AfterEnsureKeeps
    <3>2. CASE job[w].kind = "restore"
      <4> DEFINE k == [job[w] EXCEPT !.step = "scroll", !.stayed = Pairs(points), !.seen = Pairs(points)]
      <4>1. AfterEnsure(w) = k
        BY <3>2, Zenon DEF AfterEnsure
      <4>2. JobOK(job[w], points, snapshots) /\ points \in Contents /\ job[w].step # "scroll"
        BY <1>1, AtWork DEF IndexInv
      <4>3. JobOK(k, points, snapshots) /\ k.alone = job[w].alone
        BY <4>2, OpenKeeps, Zenon
      <4> HIDE DEF k
      <4> QED BY <4>1, <4>3
    <3> QED BY <3>1, <3>2
  <2> QED BY <1>1, <1>2, <1>3, <2>1, <2>2, LookInv
<1>4. CASE Step(w, Goto(w, "create"), exists, points) /\ UNCHANGED ensured
  <2>1. /\ JobOK(Goto(w, "create"), points, snapshots)
        /\ Goto(w, "create").alone = job[w].alone
    BY <1>1, AtWork, GotoKeeps DEF Goto
  <2> QED BY <1>1, <1>2, <1>4, <2>1, LookInv
<1> QED BY <1>3, <1>4 DEF Ensure

LEMMA CreateInv ==
  ASSUME IndexInv, NEW w \in Workers, Create(w)
  PROVE  IndexInv'
<1> DEFINE its == IF job[w].kind = "restore" THEN Goto(w, "write") ELSE AfterEnsure(w)
<1>1. /\ job[w] # NoJob /\ job[w].step = "create" /\ ~exists
      /\ ensured' = ensured \cup {w} /\ UNCHANGED <<snapshots, ops, died>>
      /\ Step(w, its, TRUE, points)
  BY DEF Create
<1>2. points = << >> /\ ensured \subseteq Workers /\ died \in 0 .. MaxDeaths
  BY <1>1 DEF IndexInv
<1>3. JobOK(its, points, snapshots) /\ its.alone = job[w].alone
  <2>1. CASE job[w].kind = "restore"
    <3>1. /\ JobOK(Goto(w, "write"), points, snapshots)
          /\ Goto(w, "write").alone = job[w].alone
      BY <1>1, <1>2, <2>1, AtWork, GotoKeeps DEF Goto
    <3> QED BY <2>1, <3>1
  <2>2. CASE job[w].kind # "restore"
    BY <1>1, <2>2, AfterEnsureKeeps
  <2> QED BY <2>1, <2>2
<1>4. ensured' \subseteq Workers /\ died' \in 0 .. MaxDeaths
  BY <1>1, <1>2
<1> HIDE DEF its
<1> QED BY <1>1, <1>3, <1>4, LookInv

LEMMA RestoreExistsInv ==
  ASSUME IndexInv, NEW w \in Workers, RestoreExists(w)
  PROVE  IndexInv'
<1> DEFINE to == IF exists THEN "drop" ELSE "create"
<1>1. job[w] # NoJob /\ job[w].kind = "restore"
  BY DoingIsWork DEF RestoreExists
<1>2. Step(w, Goto(w, to), exists, points) /\ UNCHANGED <<ensured, snapshots, ops, died>>
  BY DEF RestoreExists
<1>3. to # "scroll" /\ to # "write"
  OBVIOUS
<1> HIDE DEF to
<1>4. JobOK(Goto(w, to), points, snapshots) /\ Goto(w, to).alone = job[w].alone
  BY <1>1, <1>3, AtWork, GotoKeeps DEF Goto
<1>5. exists \in BOOLEAN /\ (exists \/ points = << >>) /\ ensured \subseteq Workers
      /\ died \in 0 .. MaxDeaths
  BY DEF IndexInv
<1> QED BY <1>1, <1>2, <1>4, <1>5, LookInv

LEMMA FailInv ==
  ASSUME IndexInv, NEW w \in Workers, Fail(w)
  PROVE  IndexInv'
<1>1. job[w] # NoJob /\ Step(w, NoJob, exists, points)
      /\ UNCHANGED <<ensured, snapshots, ops, died>>
  BY DEF Fail
<1>2. exists \in BOOLEAN /\ (exists \/ points = << >>) /\ ensured \subseteq Workers
      /\ died \in 0 .. MaxDeaths
  BY DEF IndexInv
<1> QED BY <1>1, <1>2, LookInv

LEMMA WorkerDiesInv ==
  ASSUME IndexInv, NEW w \in Workers, WorkerDies(w)
  PROVE  IndexInv'
<1>1. /\ job[w] # NoJob /\ Step(w, NoJob, exists, points)
      /\ ensured' = ensured \ {w} /\ died < MaxDeaths /\ died' = died + 1
      /\ UNCHANGED <<snapshots, ops>>
  BY DEF WorkerDies
<1>2. exists \in BOOLEAN /\ (exists \/ points = << >>) /\ ensured \subseteq Workers
      /\ died \in 0 .. MaxDeaths
  BY DEF IndexInv
<1>3. ensured' \subseteq Workers /\ died' \in 0 .. MaxDeaths
  BY <1>1, <1>2, IndexAssumption
<1> QED BY <1>1, <1>2, <1>3, LookInv

-----------------------------------------------------------------------------
\* Documents stay whole when one is written or erased, and when whole ones are
\* written over whole ones.
LEMMA WholeUnion ==
  ASSUME NEW S, NEW T, Whole(S), Whole(T)
  PROVE  Whole(S \cup T)
BY DEF Whole

LEMMA WholeDocument ==
  ASSUME NEW d \in Docs
  PROVE  Whole(ChunksOf[d]) /\ \A S : Whole(S) => Whole(S \ ChunksOf[d])
<1>1. \A e \in Docs : e = d \/ ChunksOf[e] \cap ChunksOf[d] = {}
  BY IndexAssumption
<1> QED BY <1>1 DEF Whole

LEMMA WriteInv ==
  ASSUME IndexInv, NEW w \in Workers, Write(w)
  PROVE  IndexInv'
<1> DEFINE d == job[w].about.doc
           acl == job[w].about.acl
           held == Over(PointsOf(d, acl), points)
<1>1. /\ job[w] # NoJob /\ job[w].kind = "ingest" /\ exists
      /\ Step(w, NoJob, exists, held) /\ UNCHANGED <<ensured, snapshots, ops, died>>
  BY DoingIsWork DEF Write
<1>2. d \in Docs /\ acl \in Acls
  BY <1>1, AtWork DEF JobTyped
<1>3. /\ points \in Contents /\ IsFiniteSet(DOMAIN points) /\ FilesOK /\ AllWhole(points, snapshots)
      /\ exists \in BOOLEAN /\ ensured \subseteq Workers
      /\ ops \in 0 .. MaxOps /\ died \in 0 .. MaxDeaths
  BY DEF IndexInv
<1> HIDE DEF d, acl
<1>4. held \in Contents /\ DOMAIN held = ChunksOf[d] \cup DOMAIN points
  <2> DEFINE new == PointsOf(d, acl)
  <2>1. new \in Contents /\ DOMAIN new = ChunksOf[d]
    BY <1>2, ConstantContent
  <2> HIDE DEF new
  <2>2. Over(new, points) \in Contents /\ DOMAIN Over(new, points) = DOMAIN new \cup DOMAIN points
    BY <1>3, <2>1, OverContent
  <2> QED BY <2>1, <2>2 DEF new
<1> HIDE DEF held
<1>5. IsFiniteSet(DOMAIN held)
  <2>1. IsFiniteSet(ChunksOf[d])
    BY <1>2, IndexAssumption
  <2> QED BY <1>3, <1>4, <2>1, FS_Union
<1>6. AllWhole(held, snapshots')
  BY <1>1, <1>2, <1>3, <1>4, WholeDocument, WholeUnion DEF AllWhole
<1>7. FilesOK' /\ snapshots \subseteq snapshots' /\ ensured' \subseteq Workers
      /\ ops' \in 0 .. MaxOps /\ died' \in 0 .. MaxDeaths
  BY <1>1, <1>3 DEF FilesOK
<1> QED BY <1>1, <1>3, <1>4, <1>5, <1>6, <1>7, StepInv

LEMMA EraseInv ==
  ASSUME IndexInv, NEW w \in Workers, Erase(w)
  PROVE  IndexInv'
<1> DEFINE d == job[w].about.doc
           left == DOMAIN points \ ChunksOf[d]
           held == [i \in left |-> points[i]]
<1>1. /\ job[w] # NoJob /\ job[w].kind = "delete" /\ exists
      /\ Step(w, NoJob, exists, held) /\ UNCHANGED <<ensured, snapshots, ops, died>>
  BY DoingIsWork DEF Erase
<1>2. d \in Docs
  BY <1>1, AtWork DEF JobTyped
<1>3. /\ points \in Contents /\ IsFiniteSet(DOMAIN points) /\ FilesOK /\ AllWhole(points, snapshots)
      /\ exists \in BOOLEAN /\ ensured \subseteq Workers
      /\ ops \in 0 .. MaxOps /\ died \in 0 .. MaxDeaths
  BY DEF IndexInv
<1>4. held \in Contents /\ DOMAIN held = DOMAIN points \ ChunksOf[d]
  BY <1>3, PartContent
<1> HIDE DEF held, d
<1>5. IsFiniteSet(DOMAIN held)
  BY <1>3, <1>4, FS_Difference
<1>6. AllWhole(held, snapshots')
  BY <1>1, <1>2, <1>3, <1>4, WholeDocument DEF AllWhole
<1>7. FilesOK' /\ snapshots \subseteq snapshots' /\ ensured' \subseteq Workers
      /\ ops' \in 0 .. MaxOps /\ died' \in 0 .. MaxDeaths
  BY <1>1, <1>3 DEF FilesOK
<1> QED BY <1>1, <1>3, <1>4, <1>5, <1>6, <1>7, StepInv

LEMMA DropInv ==
  ASSUME IndexInv, NEW w \in Workers, Drop(w)
  PROVE  IndexInv'
<1>1. /\ job[w] # NoJob /\ job[w].kind = "restore"
      /\ Step(w, Goto(w, "create"), FALSE, << >>) /\ UNCHANGED <<ensured, snapshots, ops, died>>
  BY DoingIsWork DEF Drop
<1>2. /\ FilesOK /\ AllWhole(points, snapshots) /\ ensured \subseteq Workers
      /\ ops \in 0 .. MaxOps /\ died \in 0 .. MaxDeaths
  BY DEF IndexInv
<1>3. << >> \in Contents /\ DOMAIN << >> = {} /\ IsFiniteSet(DOMAIN << >>)
  BY NothingHeld, FS_EmptySet
<1>4. JobOK(Goto(w, "create"), << >>, snapshots) /\ Goto(w, "create").alone = job[w].alone
  BY <1>1, AtWork, GotoKeeps DEF Goto
<1>5. AllWhole(<< >>, snapshots')
  BY <1>1, <1>2, <1>3 DEF AllWhole, Whole
<1>6. /\ FilesOK' /\ snapshots \subseteq snapshots' /\ ensured' \subseteq Workers
      /\ ops' \in 0 .. MaxOps /\ died' \in 0 .. MaxDeaths
      /\ JobOK(Goto(w, "create"), << >>, snapshots')
  BY <1>1, <1>2, <1>4 DEF FilesOK
<1>7. FALSE \in BOOLEAN
  OBVIOUS
<1> QED BY <1>1, <1>3, <1>4, <1>5, <1>6, <1>7, StepInv

LEMMA RefillInv ==
  ASSUME IndexInv, NEW w \in Workers, Refill(w)
  PROVE  IndexInv'
<1> DEFINE file == job[w].about
           held == Over(file.holds, points)
<1>1. /\ job[w] # NoJob /\ job[w].kind = "restore" /\ exists
      /\ Step(w, NoJob, exists, held) /\ UNCHANGED <<ensured, snapshots, ops, died>>
  BY DoingIsWork DEF Refill
<1>2. file \in snapshots
  BY <1>1, AtWork DEF JobTyped
<1>3. /\ points \in Contents /\ IsFiniteSet(DOMAIN points) /\ FilesOK /\ AllWhole(points, snapshots)
      /\ exists \in BOOLEAN /\ ensured \subseteq Workers
      /\ ops \in 0 .. MaxOps /\ died \in 0 .. MaxDeaths
  BY DEF IndexInv
<1>4. file.holds \in Contents /\ IsFiniteSet(DOMAIN file.holds)
  BY <1>2, <1>3 DEF FilesOK
<1>5. held \in Contents /\ DOMAIN held = DOMAIN file.holds \cup DOMAIN points
  BY <1>3, <1>4, OverContent
<1> HIDE DEF held, file
<1>6. IsFiniteSet(DOMAIN held)
  BY <1>3, <1>4, <1>5, FS_Union
<1>7. AllWhole(held, snapshots')
  BY <1>1, <1>2, <1>3, <1>5, WholeUnion DEF AllWhole
<1>8. FilesOK' /\ snapshots \subseteq snapshots' /\ ensured' \subseteq Workers
      /\ ops' \in 0 .. MaxOps /\ died' \in 0 .. MaxDeaths
  BY <1>1, <1>3 DEF FilesOK
<1> QED BY <1>1, <1>3, <1>5, <1>6, <1>7, <1>8, StepInv

\* What a scroll has after one more page.
LEMMA PageKeepsBook ==
  ASSUME points \in Contents, IsFiniteSet(DOMAIN points),
         NEW j, BookKept(j, points), j.got \in Contents, j.next \in Nat
  PROVE  LET page == Page(j.next)
             got == Over(j.got, page.points)
         IN  /\ got \in Contents /\ Pairs(got) \subseteq j.seen
             /\ IsFiniteSet(DOMAIN got)
             /\ DOMAIN got = DOMAIN j.got \cup DOMAIN page.points
             /\ page.next = 0 => j.stayed \subseteq Pairs(got)
             /\ page.next # 0 =>
                  /\ \A i \in DOMAIN got : i < page.next
                  /\ \A p \in j.stayed : p[1] < page.next => p \in Pairs(got)
<1> DEFINE page == Page(j.next)
           got == Over(j.got, page.points)
           from == j.next
           more == page.points
<1>1. /\ more \in Contents /\ Pairs(more) \subseteq Pairs(points)
      /\ page.next \in ChunkIds \cup {0}
      /\ \A i \in DOMAIN more : from <= i
      /\ page.next = 0 => \A i \in DOMAIN points : from <= i => i \in DOMAIN more
      /\ page.next # 0 =>
           /\ from <= page.next
           /\ \A i \in DOMAIN more : i < page.next
           /\ \A i \in DOMAIN points : from <= i /\ i < page.next => i \in DOMAIN more
  BY PageCovers
<1> HIDE DEF page, more
<1>2. /\ got \in Contents /\ DOMAIN got = DOMAIN j.got \cup DOMAIN more
      /\ \A i \in DOMAIN j.got : got[i] = j.got[i]
      /\ \A i \in DOMAIN more \ DOMAIN j.got : got[i] = more[i]
  BY <1>1, OverContent DEF more
<1>3. /\ j.stayed \subseteq Pairs(points) /\ Pairs(points) \subseteq j.seen
      /\ Pairs(j.got) \subseteq j.seen /\ IsFiniteSet(DOMAIN j.got)
      /\ \A i \in DOMAIN j.got : i < from
      /\ \A p \in j.stayed : p[1] < from => p \in Pairs(j.got)
  BY DEF BookKept
<1>4. /\ DOMAIN points \subseteq Nat /\ DOMAIN j.got \subseteq Nat /\ DOMAIN more \subseteq Nat
      /\ page.next \in Nat
  BY <1>1, Content, IndexAssumption
<1> HIDE DEF got
<1>5. ASSUME NEW p \in Pairs(got) PROVE p \in j.seen
  <2>1. PICK i \in DOMAIN got : p = <<i, got[i]>>
    BY DEF Pairs
  <2>2. CASE i \in DOMAIN j.got
    BY <1>2, <1>3, <2>1, <2>2 DEF Pairs
  <2>3. CASE i \notin DOMAIN j.got
    <3>1. p \in Pairs(more)
      BY <1>2, <2>1, <2>3 DEF Pairs
    <3> QED BY <1>1, <1>3, <3>1
  <2> QED BY <2>2, <2>3
\* What has stayed below where the scroll goes on is in one of the two.
<1>6. ASSUME NEW p \in j.stayed, page.next = 0 \/ p[1] < page.next
      PROVE  p \in Pairs(got)
  <2>1. PICK i \in DOMAIN points : p = <<i, points[i]>>
    BY <1>3 DEF Pairs
  <2>2. i \in Nat /\ p[1] = i
    BY <1>4, <2>1
  <2>3. CASE i < from
    <3>1. p \in Pairs(j.got)
      BY <1>3, <2>2, <2>3
    <3>2. PICK k \in DOMAIN j.got : p = <<k, j.got[k]>>
      BY <3>1 DEF Pairs
    <3> QED BY <1>2, <3>2 DEF Pairs
  <2>4. CASE ~(i < from)
    <3>1. from <= i
      BY <2>2, <2>4
    <3>2. i \in DOMAIN more
      BY <1>1, <1>6, <2>2, <3>1
    <3>3. i \notin DOMAIN j.got
      BY <1>3, <2>4
    <3>4. <<i, more[i]>> \in Pairs(points)
      BY <1>1, <3>2 DEF Pairs
    <3>5. more[i] = points[i]
      BY <3>4, InPairs
    <3> QED BY <1>2, <2>1, <3>2, <3>3, <3>5 DEF Pairs
  <2> QED BY <2>3, <2>4
<1>7. ASSUME page.next # 0, NEW i \in DOMAIN got PROVE i < page.next
  <2>1. CASE i \in DOMAIN j.got
    BY <1>1, <1>3, <1>4, <1>7, <2>1
  <2>2. CASE i \in DOMAIN more
    BY <1>1, <1>7, <2>2
  <2> QED BY <1>2, <2>1, <2>2
<1>8. IsFiniteSet(DOMAIN got)
  <2>1. \A i \in DOMAIN more : <<i, more[i]>> \in Pairs(points)
    BY <1>1 DEF Pairs
  <2>2. DOMAIN more \subseteq DOMAIN points
    BY <2>1, InPairs
  <2>3. IsFiniteSet(DOMAIN more)
    BY <2>2, FS_Subset
  <2> DEFINE before == DOMAIN j.got
             now == DOMAIN more
  <2>4. IsFiniteSet(before) /\ IsFiniteSet(now)
    BY <1>3, <2>3
  <2>5. IsFiniteSet(before \cup now)
    <3> HIDE DEF before, now
    <3> QED BY <2>4, FS_Union
  <2> QED BY <1>2, <2>5
<1> QED BY <1>2, <1>5, <1>6, <1>7, <1>8 DEF page, got, more

LEMMA ScrollInv ==
  ASSUME IndexInv, NEW w \in Workers, Scroll(w)
  PROVE  IndexInv'
<1> DEFINE j == job[w]
           page == Page(j.next)
           got == Over(j.got, page.points)
           new == [holds |-> got, alone |-> j.alone, stayed |-> j.stayed, seen |-> j.seen]
           its == [j EXCEPT !.got = got, !.next = page.next]
<1>1. j # NoJob /\ j.kind = "snapshot" /\ j.step = "scroll" /\ Scrolls(j)
  BY DoingIsWork DEF Scroll, Scrolls
<1>2. /\ exists /\ UNCHANGED <<ensured, ops, died>>
      /\ \/ /\ page.next = 0 /\ Step(w, NoJob, exists, points)
            /\ snapshots' = snapshots \cup {new}
         \/ page.next # 0 /\ Step(w, its, exists, points) /\ UNCHANGED snapshots
  BY Zenon DEF Scroll
<1>3. /\ points \in Contents /\ IsFiniteSet(DOMAIN points) /\ FilesOK /\ AllWhole(points, snapshots)
      /\ exists \in BOOLEAN /\ ensured \subseteq Workers
      /\ ops \in 0 .. MaxOps /\ died \in 0 .. MaxDeaths
  BY DEF IndexInv
<1>4. JobOK(j, points, snapshots) /\ JobTyped(j, snapshots) /\ IsJob(j) /\ BookKept(j, points)
  BY <1>1, AtWork DEF JobOK, JobTyped
<1>5. j.got \in Contents /\ j.next \in Nat /\ j.alone \in BOOLEAN
  <2>1. j.got \in Contents /\ j.next \in ChunkIds \cup {0} /\ j.alone \in BOOLEAN
    BY <1>4 DEF JobTyped
  <2>2. ChunkIds \cup {0} \subseteq Nat
    BY IndexAssumption
  <2> QED BY <2>1, <2>2
<1>6. /\ got \in Contents /\ Pairs(got) \subseteq j.seen /\ IsFiniteSet(DOMAIN got)
      /\ DOMAIN got = DOMAIN j.got \cup DOMAIN page.points
      /\ page.next = 0 => j.stayed \subseteq Pairs(got)
      /\ page.next # 0 =>
           /\ \A i \in DOMAIN got : i < page.next
           /\ \A p \in j.stayed : p[1] < page.next => p \in Pairs(got)
  BY <1>3, <1>4, <1>5, PageKeepsBook
<1>7. page.next \in ChunkIds \cup {0}
  BY <1>3, <1>5, PageCovers
<1> HIDE DEF page, got
<1>8. CASE page.next = 0
  <2>1. Step(w, NoJob, exists, points) /\ snapshots' = snapshots \cup {new}
    BY <1>2, <1>8
  <2>2. new.holds = got /\ new.alone = j.alone /\ new.stayed = j.stayed /\ new.seen = j.seen
    OBVIOUS
  <2> HIDE DEF new
  <2>3. j.stayed \subseteq Pairs(points)
    BY <1>4 DEF BookKept
  <2>4. IsFiniteSet(DOMAIN got)
    BY <1>6
  <2>5. FilesOK'
    BY <1>3, <1>6, <1>8, <2>1, <2>2, <2>4 DEF FilesOK
  <2>6. AllWhole(points, snapshots')
    <3>1. SUFFICES ASSUME Trusted(snapshots')
                   PROVE  Whole(DOMAIN points) /\ \A file \in snapshots' : Whole(DOMAIN file.holds)
      BY DEF AllWhole
    <3>2. Trusted(snapshots)
      BY <2>1, <3>1 DEF Trusted
    <3>3. Whole(DOMAIN points) /\ \A file \in snapshots : Whole(DOMAIN file.holds)
      BY <1>3, <3>2 DEF AllWhole
    <3>4. CASE j.alone
      <4>1. j.stayed = Pairs(points) /\ j.seen = Pairs(points)
        BY <1>1, <1>4, <3>4 DEF JobOK, AloneKept
      <4>2. Pairs(got) = Pairs(points)
        BY <1>6, <1>8, <4>1
      <4>3. DOMAIN got = DOMAIN points
        BY <4>2, SamePairs
      <4> QED BY <2>1, <2>2, <3>3, <4>3
    <3>5. CASE ~j.alone
      <4>1. Whole(DOMAIN got)
        BY <2>1, <2>2, <3>1, <3>5 DEF Trusted
      <4> QED BY <2>1, <2>2, <3>3, <4>1
    <3> QED BY <3>4, <3>5
  <2>7. snapshots \subseteq snapshots' /\ ensured' \subseteq Workers
        /\ ops' \in 0 .. MaxOps /\ died' \in 0 .. MaxDeaths
    BY <1>2, <1>3, <2>1
  <2> QED BY <1>1, <1>2, <1>3, <2>1, <2>5, <2>6, <2>7, StepInv
<1>9. CASE page.next # 0
  <2>1. Step(w, its, exists, points) /\ UNCHANGED snapshots
    BY <1>2, <1>9
  <2>2. its = Job(j.kind, j.step, j.about, j.alone, got, page.next, j.stayed, j.seen)
    BY <1>4, JobRead, Zenon
  <2> HIDE DEF its
  <2>3. /\ its.kind = j.kind /\ its.step = j.step /\ its.about = j.about /\ its.alone = j.alone
        /\ its.got = got /\ its.next = page.next /\ its.stayed = j.stayed /\ its.seen = j.seen
    BY <2>2, JobFields
  <2>4. IsJob(its)
    BY <2>2, <2>3 DEF IsJob
  <2>5. JobTyped(its, snapshots)
    BY <1>1, <1>4, <1>6, <1>7, <2>3, <2>4 DEF JobTyped
  <2>6. BookKept(its, points)
    BY <1>4, <1>6, <1>9, <2>3 DEF BookKept
  <2>7. its.alone => AloneKept(its, points)
    BY <1>1, <1>4, <2>3 DEF JobOK, AloneKept, Scrolls
  <2>8. JobOK(its, points, snapshots) /\ its.alone = j.alone
    BY <2>3, <2>5, <2>6, <2>7 DEF JobOK
  <2> HIDE DEF j
  <2> QED BY <1>1, <1>2, <1>3, <2>1, <2>8, LookInv DEF j
<1> QED BY <1>8, <1>9

-----------------------------------------------------------------------------
LEMMA IndexInvStart == IndexInit => IndexInv
<1> SUFFICES ASSUME IndexInit PROVE IndexInv
  OBVIOUS
<1>1. /\ exists = FALSE /\ points = << >> /\ ensured = {} /\ snapshots = {}
      /\ ops = 0 /\ died = 0 /\ job = [w \in Workers |-> NoJob]
  BY Zenon DEF IndexInit
<1>2. points \in Contents /\ IsFiniteSet(DOMAIN points)
  BY <1>1, NothingHeld, FS_EmptySet
<1>3. job = [w \in Workers |-> job[w]] /\ \A w \in Workers : job[w] = NoJob
  BY <1>1
<1>4. JobsOK /\ AloneOnly
  BY <1>3 DEF JobsOK, AloneOnly
<1>5. FilesOK
  BY <1>1 DEF FilesOK
<1>6. AllWhole(points, snapshots)
  BY <1>1, NothingHeld DEF AllWhole, Whole
<1>7. exists \in BOOLEAN
  BY <1>1
<1>8. ops \in 0 .. MaxOps /\ died \in 0 .. MaxDeaths
  BY <1>1, IndexAssumption
<1> QED BY <1>1, <1>2, <1>3, <1>4, <1>5, <1>6, <1>7, <1>8 DEF IndexInv

LEMMA IndexInvStep == IndexInv /\ [IndexNext]_indexVars => IndexInv'
<1> SUFFICES ASSUME IndexInv, [IndexNext]_indexVars PROVE IndexInv'
  OBVIOUS
<1>1. CASE UNCHANGED indexVars
  BY <1>1, Zenon DEF indexVars, IndexInv, JobsOK, AloneOnly, FilesOK, AllWhole, Trusted
<1>2. ASSUME NEW w \in Workers,
             \/ \E d \in Docs, acl \in Acls : Ingest(w, d, acl)
             \/ \E d \in Docs : Delete(w, d)
             \/ TakeSnapshot(w) \/ \E file \in snapshots : Restore(w, file)
      PROVE  IndexInv'
  BY <1>2, BeginsInv
<1>3. ASSUME NEW w \in Workers,
             \/ Prepare(w) \/ Ensure(w) \/ Create(w) \/ Write(w) \/ Erase(w) \/ Scroll(w)
             \/ RestoreExists(w) \/ Drop(w) \/ Refill(w) \/ Fail(w) \/ WorkerDies(w)
      PROVE  IndexInv'
  BY <1>3, PrepareInv, EnsureInv, CreateInv, WriteInv, EraseInv, ScrollInv,
     RestoreExistsInv, DropInv, RefillInv, FailInv, WorkerDiesInv
<1>4. CASE IndexNext
  BY <1>2, <1>3, <1>4, Zenon DEF IndexNext
<1> QED BY <1>1, <1>4

THEOREM IndexInvariant == IndexSpec => []IndexInv
BY IndexInvStart, IndexInvStep, PTL DEF IndexSpec

\* A restore that has been alone finds the collection empty when it fills it.
LEMMA RefillExact ==
  ASSUME IndexInv, NEW w \in Workers, Doing(w, "restore", "write"), job[w].alone, Refill(w)
  PROVE  points' = job[w].about.holds
<1> DEFINE held == job[w].about.holds
<1>1. job[w] # NoJob /\ job[w].kind = "restore" /\ job[w].step = "write"
  BY DoingIsWork
<1>2. points = << >> /\ job[w].about \in snapshots
  BY <1>1, AtWork DEF JobOK, AloneKept, JobTyped
<1>3. held \in Contents
  BY <1>2 DEF IndexInv, FilesOK
<1>4. held = [i \in DOMAIN held |-> held[i]]
  BY <1>3, Content
<1>5. points' = Over(held, points)
  BY DEF Refill, Step
<1> HIDE DEF held
<1>6. Over(held, << >>) = [i \in DOMAIN held |-> held[i]]
  BY NothingHeld DEF Over
<1> QED BY <1>2, <1>4, <1>5, <1>6 DEF held

\* The index keeps its promises, whatever its workers do beside each other and
\* wherever they die: documents are whole, snapshots faithful, restores exact.
THEOREM IndexHolds == IndexSpec => IndexSound
<1>1. IndexInv => IndexTypeOK /\ SnapshotFaithful /\ WholeDocuments
  BY InvIsSound
<1>2. IndexInv /\ [IndexNext]_indexVars
        => [\A w \in Workers : Doing(w, "restore", "write") /\ job[w].alone /\ Refill(w)
              => points' = job[w].about.holds]_indexVars
  BY RefillExact
<1> QED BY <1>1, <1>2, IndexInvariant, PTL DEF IndexSpec, IndexSound, RestoreExact

-----------------------------------------------------------------------------
(***************************************************************************)
(* Near-duplicates.  A forest has no parent greater than its child, so     *)
(* that the way up ends, and linking two roots unites two trees and        *)
(* changes no other.  Documents in one tree are in the same sets that are  *)
(* closed under nearness, and near ones end up in one tree.                *)
(***************************************************************************)

Forest(K, f) == f \in [K -> K] /\ \A x \in K : f[x] <= x
Climbs(K, f, x, up) ==
  up \in [0 .. x -> K] /\ up[0] = x /\ \A n \in 1 .. x : up[n] = f[up[n - 1]]

\* What find() goes through.
LEMMA FindClimbs ==
  ASSUME NEW K \in SUBSET Nat, NEW f, Forest(K, f), NEW x \in K
  PROVE  \E up : Climbs(K, f, x, up) /\ Find(f, x) = up[x]
<1> DEFINE step == [n \in 1 .. x |-> f]
           Fun(g) == [n \in 0 .. x |-> IF n = 0 THEN x ELSE f[g[n - 1]]]
           chosen == CHOOSE g : g = Fun(g)
<1>1. x \in Nat /\ f \in [K -> K] /\ step \in [1 .. x -> [K -> K]]
  BY DEF Forest
<1>2. \E g : g = Fun(g)
  <2>1. PICK g : Iterated(g, x, K, x, step)
    BY <1>1, Iterates
  <2>2. g \in [0 .. x -> K] /\ g[0] = x /\ \A n \in 1 .. x : g[n] = f[g[n - 1]]
    BY <2>1 DEF Iterated
  <2>3. \A n \in 0 .. x : g[n] = IF n = 0 THEN x ELSE f[g[n - 1]]
    BY <1>1, <2>2
  <2>4. g = Fun(g)
    BY <2>2, <2>3
  <2> QED BY <2>4
<1>3. chosen = Fun(chosen)
  <2> HIDE DEF Fun
  <2> QED BY <1>2
<1>4. Find(f, x) = chosen[x]
  BY DEF Find
<1> HIDE DEF chosen
<1>5. \A n \in 0 .. x : chosen[n] = IF n = 0 THEN x ELSE f[chosen[n - 1]]
  BY <1>3
<1>6. chosen[0] = x /\ \A n \in 1 .. x : chosen[n] = f[chosen[n - 1]]
  BY <1>1, <1>5
<1>7. \A n \in 0 .. x : chosen[n] \in K
  <2> DEFINE S == {n \in 0 .. x : chosen[n] \in K}
  <2>1. 0 \in S
    BY <1>1, <1>6
  <2>2. \A n \in 0 .. x - 1 : n \in S => n + 1 \in S
    <3>1. ASSUME NEW n \in 0 .. x - 1, chosen[n] \in K PROVE n + 1 \in 0 .. x /\ chosen[n + 1] \in K
      <4>1. n + 1 \in 1 .. x /\ n + 1 \in 0 .. x /\ (n + 1) - 1 = n
        BY <1>1
      <4> QED BY <1>1, <1>6, <3>1, <4>1
    <3> QED BY <3>1
  <2> HIDE DEF S
  <2>3. 0 .. x \subseteq S
    BY <1>1, <2>1, <2>2, UpTo
  <2> QED BY <2>3 DEF S
<1>8. chosen \in [0 .. x -> K]
  <2>1. chosen = [n \in 0 .. x |-> chosen[n]]
    BY <1>3
  <2> QED BY <1>7, <2>1
<1>9. Climbs(K, f, x, chosen)
  BY <1>6, <1>8 DEF Climbs
<1> QED BY <1>4, <1>9

\* It gets lower with every step, or is at a root and stays there.
LEMMA ClimbFalls ==
  ASSUME NEW K \in SUBSET Nat, NEW f, Forest(K, f), NEW x \in K, NEW up, Climbs(K, f, x, up)
  PROVE  \A n \in 0 .. x : up[n] \in K /\ up[n] <= x /\ (f[up[n]] = up[n] \/ up[n] <= x - n)
<1> DEFINE Fine(n) == up[n] <= x /\ (f[up[n]] = up[n] \/ up[n] <= x - n)
           S == {n \in 0 .. x : Fine(n)}
<1>1. x \in Nat /\ up[0] = x /\ \A n \in 0 .. x : up[n] \in K /\ up[n] \in Nat
  BY DEF Climbs
<1>2. 0 \in S
  BY <1>1
<1>3. ASSUME NEW n \in 0 .. x - 1, Fine(n) PROVE Fine(n + 1)
  <2>1. n \in 0 .. x /\ n + 1 \in 1 .. x /\ n + 1 \in 0 .. x /\ (n + 1) - 1 = n
    BY <1>1
  <2>2. up[n + 1] = f[up[n]] /\ up[n] \in K /\ up[n] \in Nat /\ up[n + 1] \in Nat
    BY <1>1, <2>1 DEF Climbs
  <2>3. f[up[n]] <= up[n] /\ f[up[n]] \in Nat
    BY <2>2 DEF Forest
  <2>4. CASE f[up[n]] = up[n]
    <3>1. up[n + 1] = up[n]
      BY <2>2, <2>4
    <3> QED BY <1>3, <2>4, <3>1
  <2>5. CASE f[up[n]] # up[n]
    <3>1. up[n] <= x - n /\ up[n + 1] < up[n]
      BY <1>3, <2>2, <2>3, <2>5
    <3>2. up[n + 1] <= x - (n + 1) /\ up[n + 1] <= x
      BY <1>1, <2>1, <2>2, <3>1
    <3> QED BY <3>2
  <2> QED BY <2>4, <2>5
<1>4. \A n \in 0 .. x - 1 : n \in S => n + 1 \in S
  <2>1. \A n \in 0 .. x - 1 : n + 1 \in 0 .. x
    BY <1>1
  <2> HIDE DEF Fine
  <2> QED BY <1>3, <2>1
<1> HIDE DEF S
<1>5. 0 .. x \subseteq S
  BY <1>1, <1>2, <1>4, UpTo
<1> QED BY <1>1, <1>5 DEF S

\* What find() finds is a root, and not greater.
LEMMA FindIsRoot ==
  ASSUME NEW K \in SUBSET Nat, NEW f, Forest(K, f), NEW x \in K
  PROVE  Find(f, x) \in K /\ f[Find(f, x)] = Find(f, x) /\ Find(f, x) <= x
<1>1. PICK up : Climbs(K, f, x, up) /\ Find(f, x) = up[x]
  BY FindClimbs
<1>2. x \in Nat /\ x \in 0 .. x
  OBVIOUS
<1>3. up[x] \in K /\ up[x] <= x /\ (f[up[x]] = up[x] \/ up[x] <= x - x)
  BY <1>1, <1>2, ClimbFalls
<1>4. up[x] <= 0 => f[up[x]] = up[x]
  <2>1. f[up[x]] \in Nat /\ f[up[x]] <= up[x] /\ up[x] \in Nat
    BY <1>3 DEF Forest
  <2> QED BY <2>1
<1> QED BY <1>1, <1>2, <1>3, <1>4

\* At a root a way up stays.
LEMMA ClimbStays ==
  ASSUME NEW K \in SUBSET Nat, NEW f, Forest(K, f), NEW x \in K, NEW up, Climbs(K, f, x, up),
         NEW m \in 0 .. x, f[up[m]] = up[m]
  PROVE  up[x] = up[m]
<1> DEFINE S == {n \in 0 .. x - m : up[m + n] = up[m]}
<1>1. x \in Nat /\ m \in Nat /\ x - m \in Nat
  OBVIOUS
<1>2. 0 \in S
  BY <1>1
<1>3. ASSUME NEW n \in 0 .. (x - m) - 1, up[m + n] = up[m] PROVE n + 1 \in 0 .. x - m /\ up[m + (n + 1)] = up[m]
  <2>1. n + 1 \in 0 .. x - m /\ m + (n + 1) \in 1 .. x /\ (m + (n + 1)) - 1 = m + n
    BY <1>1
  <2>2. up[m + (n + 1)] = f[up[m + n]]
    BY <2>1 DEF Climbs
  <2> QED BY <1>3, <2>1, <2>2
<1>4. \A n \in 0 .. (x - m) - 1 : n \in S => n + 1 \in S
  BY <1>3
<1> HIDE DEF S
<1>5. 0 .. x - m \subseteq S
  BY <1>1, <1>2, <1>4, UpTo
<1>6. x - m \in 0 .. x - m /\ m + (x - m) = x
  BY <1>1
<1> QED BY <1>5, <1>6 DEF S

\* The root is that of the parent.
LEMMA FindUp ==
  ASSUME NEW K \in SUBSET Nat, NEW f, Forest(K, f), NEW x \in K
  PROVE  /\ f[x] = x => Find(f, x) = x
         /\ f[x] # x => f[x] \in K /\ f[x] < x /\ Find(f, x) = Find(f, f[x])
<1>1. PICK up : Climbs(K, f, x, up) /\ Find(f, x) = up[x]
  BY FindClimbs
<1>2. x \in Nat /\ 0 \in 0 .. x /\ up[0] = x
  BY <1>1 DEF Climbs
<1>3. f[x] = x => Find(f, x) = x
  BY <1>1, <1>2, ClimbStays
<1>4. ASSUME f[x] # x PROVE f[x] \in K /\ f[x] < x /\ Find(f, x) = Find(f, f[x])
  <2> DEFINE y == f[x]
  <2>1. y \in K /\ y \in Nat /\ y < x
    <3>1. f[x] \in K /\ f[x] <= x
      BY DEF Forest
    <3>2. \A z \in K : z \in Nat
      OBVIOUS
    <3>3. y \in Nat /\ x \in Nat /\ y # x /\ y <= x /\ y \in K
      BY <1>4, <3>1, <3>2
    <3> HIDE DEF y
    <3> QED BY <3>3
  <2> HIDE DEF y
  <2>2. PICK down : Climbs(K, f, y, down) /\ Find(f, y) = down[y]
    BY <2>1, FindClimbs
  <2> DEFINE S == {n \in 0 .. y : up[n + 1] = down[n]}
  <2>3. 0 \in S
    <3>1. 1 \in 1 .. x /\ up[1] = f[up[0]] /\ down[0] = y
      BY <1>1, <1>2, <2>1, <2>2 DEF Climbs
    <3> QED BY <1>2, <2>1, <3>1 DEF y
  <2>4. ASSUME NEW n \in 0 .. y - 1, up[n + 1] = down[n] PROVE n + 1 \in 0 .. y /\ up[(n + 1) + 1] = down[n + 1]
    <3>1. n + 1 \in 0 .. y /\ n + 1 \in 1 .. y /\ (n + 1) + 1 \in 1 .. x /\ (n + 1) - 1 = n /\ ((n + 1) + 1) - 1 = n + 1
      BY <1>2, <2>1
    <3>2. down[n + 1] = f[down[n]] /\ up[(n + 1) + 1] = f[up[n + 1]]
      BY <1>1, <2>2, <3>1 DEF Climbs
    <3> QED BY <2>4, <3>1, <3>2
  <2>5. \A n \in 0 .. y - 1 : n \in S => n + 1 \in S
    BY <2>4
  <2> HIDE DEF S
  <2>6. 0 .. y \subseteq S
    BY <2>1, <2>3, <2>5, UpTo
  <2>7. y \in 0 .. y /\ y + 1 \in 0 .. x
    BY <1>2, <2>1
  <2>8. up[y + 1] = down[y]
    BY <2>6, <2>7 DEF S
  <2>9. f[down[y]] = down[y]
    BY <2>1, <2>2, FindIsRoot
  <2>10. up[x] = up[y + 1]
    BY <1>1, <2>7, <2>8, <2>9, ClimbStays
  <2> QED BY <1>1, <2>1, <2>2, <2>8, <2>10 DEF y
<1> QED BY <1>3, <1>4

\* Linking two nodes makes one tree of theirs, under the lesser root.
LEMMA JoinUnites ==
  ASSUME NEW K \in SUBSET Nat, NEW f, Forest(K, f), NEW a \in K, NEW b \in K
  PROVE  LET ra == Find(f, a)
             rb == Find(f, b)
             low == IF ra <= rb THEN ra ELSE rb
         IN  /\ Forest(K, Join(f, a, b))
             /\ \A z \in K : Find(Join(f, a, b), z) = IF Find(f, z) \in {ra, rb} THEN low ELSE Find(f, z)
<1> DEFINE ra == Find(f, a)
           rb == Find(f, b)
           low == IF ra <= rb THEN ra ELSE rb
           high == IF ra <= rb THEN rb ELSE ra
           g == Join(f, a, b)
<1>1. ra \in K /\ rb \in K /\ f[ra] = ra /\ f[rb] = rb /\ ra \in Nat /\ rb \in Nat
  BY FindIsRoot
<1>2. g = IF ra = rb THEN f ELSE [f EXCEPT ![high] = low]
  <2>1. Max({ra, rb}) = high /\ Min({ra, rb}) = low
    BY <1>1, MaxOfTwo, MinOfTwo
  <2> HIDE DEF high, low
  <2> QED BY <2>1 DEF Join
<1>3. low \in K /\ high \in K /\ low <= high /\ f[low] = low /\ f[high] = high /\ {low, high} = {ra, rb}
  BY <1>1
<1> HIDE DEF ra, rb
<1>4. f \in [K -> K] /\ \A x \in K : f[x] <= x
  BY DEF Forest
<1>5. (ra = rb <=> low = high) /\ low \in Nat /\ high \in Nat
  BY <1>1, <1>3
<1> HIDE DEF low, high
<1>6. /\ g \in [K -> K]
      /\ \A x \in K : x # high => g[x] = f[x]
      /\ g[high] = low
  BY <1>2, <1>3, <1>4, <1>5
<1> HIDE DEF g
<1>7. Forest(K, g)
  BY <1>3, <1>4, <1>6 DEF Forest
<1> DEFINE Right(z) == Find(g, z) = IF Find(f, z) \in {ra, rb} THEN low ELSE Find(f, z)
<1>8. ASSUME NEW z \in K, \A y \in K : y < z => Right(y) PROVE Right(z)
  <2>1. CASE f[z] # z
    <3>1. f[z] \in K /\ f[z] < z /\ Find(f, z) = Find(f, f[z]) /\ z # high
      BY <1>3, <2>1, FindUp
    <3>2. g[z] = f[z]
      BY <1>6, <3>1
    <3>3. Find(g, z) = Find(g, f[z])
      BY <1>7, <2>1, <3>2, FindUp
    <3> QED BY <1>8, <3>1, <3>3
  <2>2. CASE f[z] = z /\ z # high
    <3>1. g[z] = z /\ Find(f, z) = z
      BY <1>6, <2>2, FindUp
    <3>2. Find(g, z) = z
      BY <1>7, <3>1, FindUp
    <3> QED BY <1>3, <2>2, <3>1, <3>2
  <2>3. CASE z = high
    <3>1. Find(f, z) = z
      BY <1>3, <2>3, FindUp
    <3>2. CASE low = high
      <4>1. g[z] = z
        BY <1>6, <2>3, <3>2
      <4>2. Find(g, z) = z
        BY <1>7, <4>1, FindUp
      <4> QED BY <1>3, <2>3, <3>1, <3>2, <4>2
    <3>3. CASE low # high
      <4>1. g[z] = low /\ g[z] # z /\ g[low] = low
        BY <1>3, <1>6, <2>3, <3>3
      <4>2. Find(g, z) = Find(g, low) /\ Find(g, low) = low
        BY <1>3, <1>7, <4>1, FindUp
      <4> QED BY <1>3, <2>3, <3>1, <4>2
    <3> QED BY <3>2, <3>3
  <2> QED BY <2>1, <2>2, <2>3
<1>9. ASSUME NEW z \in K PROVE Right(z)
  <2> DEFINE S == {n \in 0 .. z : \A y \in K : y <= n => Right(y)}
  <2> HIDE DEF Right
  <2>1. z \in Nat /\ \A y \in K : y \in Nat
    OBVIOUS
  <2>2. 0 \in S
    <3>1. \A y \in K : y <= 0 => (\A w \in K : ~(w < y))
      BY <2>1
    <3> QED BY <1>8, <2>1, <3>1
  <2>3. ASSUME NEW n \in 0 .. z - 1, n \in S PROVE n + 1 \in S
    <3>1. n + 1 \in 0 .. z
      BY <2>1
    <3>2. ASSUME NEW y \in K, y <= n + 1 PROVE Right(y)
      <4>1. \A w \in K : w < y => w <= n
        BY <2>1, <3>2
      <4> QED BY <1>8, <2>3, <4>1
    <3> QED BY <3>1, <3>2
  <2>4. z \in S
    <3> HIDE DEF S
    <3>1. 0 .. z \subseteq S
      BY <2>1, <2>2, <2>3, UpTo
    <3> QED BY <2>1, <3>1
  <2> QED BY <2>1, <2>4
<1> QED BY <1>7, <1>9 DEF g, low, ra, rb

-----------------------------------------------------------------------------
(***************************************************************************)
(* The banded index.  Every document has its latest signature in all its   *)
(* bands, and signatures that disagree in fewer places than there are      *)
(* bands agree in all of one.                                              *)
(***************************************************************************)

DedupInv ==
  /\ signatures \in Seq([doc : Papers, sig : Signatures])
  /\ \A i, j \in DOMAIN signatures : i # j => signatures[i].doc # signatures[j].doc
  /\ \A b \in buckets : b.doc \in Known
  /\ \A i \in DOMAIN signatures : \A band \in 1 .. Bands :
       [band |-> band, key |-> Band(signatures[i].sig, band), doc |-> signatures[i].doc] \in buckets

LEMMA SignaturesPlain ==
  ASSUME DedupInv
  PROVE  /\ DOMAIN signatures = 1 .. Len(signatures) /\ Len(signatures) \in Nat
         /\ \A i \in DOMAIN signatures :
              /\ signatures[i].doc \in Papers /\ signatures[i].sig \in Signatures
              /\ signatures[i].doc \in Known /\ SignatureOf(signatures[i].doc) = signatures[i].sig
         /\ \A d \in Known : \E i \in DOMAIN signatures : d = signatures[i].doc
         /\ Known \in SUBSET Nat /\ IsFiniteSet(Known)
         /\ \A d \in Known : SignatureOf(d) \in Signatures
<1>1. DOMAIN signatures = 1 .. Len(signatures) /\ Len(signatures) \in Nat
  BY DEF DedupInv
<1>2. \A i \in DOMAIN signatures : signatures[i].doc \in Papers /\ signatures[i].sig \in Signatures
  <2>1. signatures \in Seq([doc : Papers, sig : Signatures])
    BY DEF DedupInv
  <2>2. \A i \in DOMAIN signatures : signatures[i] \in [doc : Papers, sig : Signatures]
    BY <1>1, <2>1, ElementOfSeq
  <2> QED BY <2>2
<1>3. \A i \in DOMAIN signatures : signatures[i].doc \in Known
  BY DEF Known
<1>4. \A d \in Known : \E i \in DOMAIN signatures : d = signatures[i].doc
  BY DEF Known
<1>5. ASSUME NEW i \in DOMAIN signatures PROVE SignatureOf(signatures[i].doc) = signatures[i].sig
  <2> DEFINE d == signatures[i].doc
             j == CHOOSE k \in DOMAIN signatures : signatures[k].doc = d
  <2>1. j \in DOMAIN signatures /\ signatures[j].doc = d
    OBVIOUS
  <2>2. SignatureOf(d) = signatures[j].sig
    BY DEF SignatureOf
  <2> HIDE DEF j
  <2>3. j = i
    BY <2>1 DEF DedupInv
  <2> QED BY <2>2, <2>3
<1>6. Known \in SUBSET Nat
  BY <1>2, <1>4, DedupAssumption
<1>7. IsFiniteSet(Known)
  <2> DEFINE g == [i \in DOMAIN signatures |-> signatures[i].doc]
  <2>1. g \in Surjection(DOMAIN signatures, Known)
    BY <1>3, <1>4 DEF Surjection
  <2>2. IsFiniteSet(DOMAIN signatures)
    BY <1>1, FS_Interval
  <2> HIDE DEF g
  <2> QED BY <2>1, <2>2, FS_Surjection
<1>8. \A d \in Known : SignatureOf(d) \in Signatures
  BY <1>2, <1>4, <1>5
<1> QED BY <1>1, <1>2, <1>3, <1>4, <1>5, <1>6, <1>7, <1>8

LEMMA NearMutual ==
  ASSUME NEW a \in Signatures, NEW b \in Signatures
  PROVE  Near(a, b) => Near(b, a)
<1>1. {i \in DOMAIN a : a[i] = b[i]} = {i \in DOMAIN b : b[i] = a[i]}
  BY DEF Signatures
<1> QED BY <1>1 DEF Near

\* The places of two bands are apart.
LEMMA BandPlaces ==
  /\ \A b \in 1 .. Bands, r \in 1 .. Rows : (b - 1) * Rows + r \in 1 .. Bands * Rows
  /\ \A b, c \in 1 .. Bands, r, s \in 1 .. Rows : (b - 1) * Rows + r = (c - 1) * Rows + s => b = c
<1>1. Bands \in Nat /\ Rows \in Nat /\ Bands > 0 /\ Rows > 0
  BY DedupAssumption
<1>2. ASSUME NEW b \in 1 .. Bands, NEW r \in 1 .. Rows PROVE (b - 1) * Rows + r \in 1 .. Bands * Rows
  <2>1. b - 1 \in Nat /\ Bands - b \in Nat /\ b \in Nat /\ r \in Nat /\ r >= 1 /\ r <= Rows
    BY <1>1
  <2>2. (b - 1) * Rows \in Nat /\ (Bands - b) * Rows \in Nat
    BY <1>1, <2>1
  <2>3. (b - 1) * Rows + Rows + (Bands - b) * Rows = Bands * Rows
    BY <1>1, <2>1
  <2>4. Bands * Rows \in Nat
    BY <1>1
  <2> QED BY <1>1, <2>1, <2>2, <2>3, <2>4
<1>3. ASSUME NEW b \in 1 .. Bands, NEW c \in 1 .. Bands, NEW r \in 1 .. Rows, NEW s \in 1 .. Rows, b < c
      PROVE  (b - 1) * Rows + r < (c - 1) * Rows + s
  <2>1. c - b - 1 \in Nat /\ b \in Nat /\ c \in Nat /\ r \in Nat /\ s \in Nat /\ s >= 1 /\ r <= Rows
    BY <1>1, <1>3
  <2>2. (c - b - 1) * Rows \in Nat /\ (b - 1) * Rows \in Int /\ (c - 1) * Rows \in Int
    BY <1>1, <2>1
  <2>3. (c - 1) * Rows = (b - 1) * Rows + Rows + (c - b - 1) * Rows
    BY <1>1, <2>1
  <2> QED BY <1>1, <2>1, <2>2, <2>3
<1>4. ASSUME NEW b \in 1 .. Bands, NEW c \in 1 .. Bands, NEW r \in 1 .. Rows, NEW s \in 1 .. Rows,
             (b - 1) * Rows + r = (c - 1) * Rows + s
      PROVE  b = c
  <2>1. b \in Int /\ c \in Int /\ (b - 1) * Rows + r \in Int /\ (c - 1) * Rows + s \in Int
    BY <1>1
  <2>2. ~(b < c) /\ ~(c < b)
    BY <1>3, <1>4, <2>1
  <2> QED BY <2>1, <2>2
<1> QED BY <1>2, <1>4

\* Near signatures share a band: each band apart would be a place apart of its own.
LEMMA BandShared ==
  ASSUME NEW a \in Signatures, NEW b \in Signatures, Near(a, b)
  PROVE  \E band \in 1 .. Bands : Band(a, band) = Band(b, band)
<1> DEFINE all == 1 .. Bands * Rows
           same == {i \in all : a[i] = b[i]}
           apart == {i \in all : a[i] # b[i]}
<1>1. Bands \in Nat /\ Rows \in Nat /\ Agreeing \in Nat /\ Bands * Rows \in Nat /\ Bands * Rows < Agreeing + Bands
  BY DedupAssumption
<1>2. Cardinality(same) >= Agreeing
  BY DEF Near, Signatures
<1>3. IsFiniteSet(all) /\ Cardinality(all) = Bands * Rows
  <2> DEFINE N == Bands * Rows
  <2>1. N \in Nat /\ all = 1 .. N
    BY <1>1
  <2> HIDE DEF N, all
  <2>2. 1 \in Int /\ N \in Int /\ (1 > N => N = 0)
    BY <2>1
  <2>3. IsFiniteSet(1 .. N) /\ Cardinality(1 .. N) = N
    BY <2>1, <2>2, FS_Interval
  <2> QED BY <2>1, <2>3 DEF N
<1>4. IsFiniteSet(apart) /\ IsFiniteSet(same) /\ Cardinality(apart) \in Nat /\ Cardinality(same) \in Nat
  BY <1>3, FS_Subset, FS_CardinalityType
<1>5. Cardinality(same) + Cardinality(apart) = Bands * Rows
  <2>1. same \cup apart = all /\ same \cap apart = {}
    OBVIOUS
  <2> HIDE DEF same, apart, all
  <2>2. Cardinality(same \cup apart) = Cardinality(same) + Cardinality(apart) - Cardinality(same \cap apart)
    BY <1>4, FS_Union
  <2>3. Cardinality(same \cap apart) = 0
    BY <2>1, FS_EmptySet
  <2>4. Cardinality(same \cup apart) = Bands * Rows
    BY <1>3, <2>1
  <2> DEFINE N == Bands * Rows
             s == Cardinality(same)
             t == Cardinality(apart)
  <2>5. N = s + t - 0 /\ s \in Nat /\ t \in Nat
    BY <1>4, <2>2, <2>3, <2>4
  <2> HIDE DEF N, s, t
  <2>6. s + t = N
    BY <2>5
  <2> QED BY <2>6 DEF N, s, t
<1>6. Cardinality(apart) < Bands
  BY <1>1, <1>2, <1>4, <1>5
<1>7. ASSUME \A band \in 1 .. Bands : Band(a, band) # Band(b, band) PROVE FALSE
  <2>1. ASSUME NEW band \in 1 .. Bands
        PROVE  \E r \in 1 .. Rows : a[(band - 1) * Rows + r] # b[(band - 1) * Rows + r]
    BY <1>7 DEF Band
  <2> DEFINE row == [band \in 1 .. Bands |-> CHOOSE r \in 1 .. Rows : a[(band - 1) * Rows + r] # b[(band - 1) * Rows + r]]
             place == [band \in 1 .. Bands |-> (band - 1) * Rows + row[band]]
  <2>2. \A band \in 1 .. Bands : /\ row[band] \in 1 .. Rows
                                 /\ a[(band - 1) * Rows + row[band]] # b[(band - 1) * Rows + row[band]]
    BY <2>1
  <2> HIDE DEF row
  <2>3. \A band \in 1 .. Bands : place[band] \in apart
    BY <2>2, BandPlaces
  <2>4. \A c, d \in 1 .. Bands : place[c] = place[d] => c = d
    BY <2>2, BandPlaces
  <2>5. place \in Injection(1 .. Bands, apart)
    BY <2>3, <2>4 DEF Injection, IsInjective
  <2>6. IsFiniteSet(1 .. Bands) /\ Cardinality(1 .. Bands) = Bands
    BY <1>1, FS_Interval
  <2> HIDE DEF place, apart
  <2>7. Cardinality(1 .. Bands) <= Cardinality(apart)
    BY <1>4, <2>5, FS_Injection
  <2> QED BY <1>1, <1>4, <1>6, <2>6, <2>7
<1> QED BY <1>7

\* The index misses no near-duplicate, and offers nothing else once compared.
LEMMA NeighboursNear ==
  ASSUME DedupInv, NEW d \in Known
  PROVE  Neighbours(d) = {e \in Known \ {d} : Near(SignatureOf(d), SignatureOf(e))}
<1>1. SignatureOf(d) \in Signatures
  BY SignaturesPlain
<1>2. ASSUME NEW e \in Known, Near(SignatureOf(d), SignatureOf(e)) PROVE e \in Similar(SignatureOf(d))
  <2>1. PICK i \in DOMAIN signatures : e = signatures[i].doc
    BY SignaturesPlain
  <2>2. SignatureOf(e) = signatures[i].sig /\ SignatureOf(e) \in Signatures
    BY <2>1, SignaturesPlain
  <2>3. PICK band \in 1 .. Bands : Band(SignatureOf(d), band) = Band(SignatureOf(e), band)
    BY <1>1, <1>2, <2>2, BandShared
  <2> DEFINE b == [band |-> band, key |-> Band(SignatureOf(e), band), doc |-> e]
  <2>4. b \in buckets
    BY <2>1, <2>2 DEF DedupInv
  <2>5. b.key = Band(SignatureOf(d), b.band) /\ b.doc = e
    BY <2>3
  <2> HIDE DEF b
  <2> QED BY <2>4, <2>5 DEF Similar
<1>3. Similar(SignatureOf(d)) \subseteq Known
  BY DEF Similar, DedupInv
<1> QED BY <1>2, <1>3 DEF Neighbours

-----------------------------------------------------------------------------
\* The links are the pairs of near documents, all of them.
NearPair(d, e) == d # e /\ Near(SignatureOf(d), SignatureOf(e))

LEMMA LinksNear ==
  ASSUME DedupInv
  PROVE  /\ Len(Links) \in Nat /\ DOMAIN Links = 1 .. Len(Links)
         /\ \A n \in DOMAIN Links :
              /\ signatures[Links[n][1]].doc \in Known /\ Links[n][2] \in Known
              /\ NearPair(signatures[Links[n][1]].doc, Links[n][2])
         /\ \A d, e \in Known : NearPair(d, e) =>
              \E n \in DOMAIN Links : signatures[Links[n][1]].doc = d /\ Links[n][2] = e
<1> DEFINE all == (DOMAIN signatures) \X Known
           pairs == {l \in all : l[2] \in Neighbours(signatures[l[1]].doc)}
           R == {p \in pairs \X pairs : p[1][1] < p[2][1] \/ (p[1][1] = p[2][1] /\ p[1][2] < p[2][2])}
<1>1. Links = InOrder(pairs, R)
  BY DEF Links
<1>2. IsFiniteSet(pairs)
  <2>1. IsFiniteSet(DOMAIN signatures) /\ IsFiniteSet(Known)
    <3>1. DOMAIN signatures = 1 .. Len(signatures) /\ Len(signatures) \in Nat /\ IsFiniteSet(Known)
      BY SignaturesPlain
    <3> QED BY <3>1, FS_Interval
  <2>2. IsFiniteSet(all)
    BY <2>1, FS_Product
  <2> QED BY <2>2, FS_Subset
<1>3. \A l \in pairs : l = <<l[1], l[2]>> /\ l[1] \in DOMAIN signatures /\ l[2] \in Known /\ l[1] \in Nat /\ l[2] \in Nat
  BY SignaturesPlain
<1>4. \A l, m \in pairs : <<l, m>> \in R <=> (l[1] < m[1] \/ (l[1] = m[1] /\ l[2] < m[2]))
  OBVIOUS
<1>5. \A l \in pairs : NearPair(signatures[l[1]].doc, l[2]) /\ signatures[l[1]].doc \in Known
  <2>1. ASSUME NEW l \in pairs PROVE NearPair(signatures[l[1]].doc, l[2]) /\ signatures[l[1]].doc \in Known
    <3>1. signatures[l[1]].doc \in Known
      BY <1>3, SignaturesPlain
    <3>2. l[2] \in Neighbours(signatures[l[1]].doc)
      OBVIOUS
    <3> QED BY <3>1, <3>2, NeighboursNear DEF NearPair
  <2> HIDE DEF pairs
  <2> QED BY <2>1
<1>6. \A d, e \in Known : NearPair(d, e) => \E l \in pairs : signatures[l[1]].doc = d /\ l[2] = e
  <2>1. ASSUME NEW d \in Known, NEW e \in Known, NearPair(d, e)
        PROVE  \E l \in pairs : signatures[l[1]].doc = d /\ l[2] = e
    <3>1. PICK i \in DOMAIN signatures : d = signatures[i].doc
      BY SignaturesPlain
    <3>2. e \in Neighbours(d)
      BY <2>1, NeighboursNear DEF NearPair
    <3>3. <<i, e>> \in pairs
      BY <3>1, <3>2
    <3> HIDE DEF pairs
    <3> QED BY <3>1, <3>3
  <2> HIDE DEF pairs
  <2> QED BY <2>1
<1> HIDE DEF pairs, R, all
<1>7. StrictOrder(pairs, R)
  <2>1. \A l \in pairs : <<l, l>> \notin R
    BY <1>3, <1>4
  <2>2. \A k, l, m \in pairs : (<<k, l>> \in R /\ <<l, m>> \in R) => <<k, m>> \in R
    BY <1>3, <1>4
  <2>3. \A l, m \in pairs : l # m => (<<l, m>> \in R \/ <<m, l>> \in R)
    <3>1. ASSUME NEW l \in pairs, NEW m \in pairs, l # m PROVE <<l, m>> \in R \/ <<m, l>> \in R
      <4>1. l[1] # m[1] \/ l[2] # m[2]
        BY <1>3, <3>1
      <4> QED BY <1>3, <1>4, <4>1
    <3> QED BY <3>1
  <2> QED BY <2>1, <2>2, <2>3 DEF StrictOrder
<1>8. Enumerates(Links, pairs, R)
  BY <1>1, <1>2, <1>7, InOrderEnumerates
<1>9. /\ Links \in Seq(pairs) /\ \A l \in pairs : \E n \in DOMAIN Links : Links[n] = l
  BY <1>8 DEF Enumerates
<1>10. /\ Len(Links) \in Nat /\ DOMAIN Links = 1 .. Len(Links) /\ \A n \in DOMAIN Links : Links[n] \in pairs
  BY <1>9, ElementOfSeq, LenProperties
<1>11. \A n \in DOMAIN Links :
         /\ signatures[Links[n][1]].doc \in Known /\ Links[n][2] \in Known
         /\ NearPair(signatures[Links[n][1]].doc, Links[n][2])
  BY <1>3, <1>5, <1>10
<1>12. ASSUME NEW d \in Known, NEW e \in Known, NearPair(d, e)
       PROVE  \E n \in DOMAIN Links : signatures[Links[n][1]].doc = d /\ Links[n][2] = e
  <2>1. PICK l \in pairs : signatures[l[1]].doc = d /\ l[2] = e
    BY <1>6, <1>12
  <2>2. PICK n \in DOMAIN Links : Links[n] = l
    BY <1>9
  <2> QED BY <2>1, <2>2
<1> QED BY <1>10, <1>11, <1>12

\* In a forest made of links documents of one tree are in the same closed sets.
Together(f) ==
  /\ Forest(Known, f)
  /\ \A S \in SUBSET Known : Closed(S) => \A x \in Known : x \in S <=> Find(f, x) \in S

LEMMA JoinTogether ==
  ASSUME DedupInv, NEW f, Together(f), NEW a \in Known, NEW b \in Known, NearPair(a, b)
  PROVE  /\ Together(Join(f, a, b))
         /\ Find(Join(f, a, b), a) = Find(Join(f, a, b), b)
         /\ \A x, y \in Known : Find(f, x) = Find(f, y) => Find(Join(f, a, b), x) = Find(Join(f, a, b), y)
<1> DEFINE g == Join(f, a, b)
           ra == Find(f, a)
           rb == Find(f, b)
           low == IF ra <= rb THEN ra ELSE rb
<1>1. Known \in SUBSET Nat
  BY SignaturesPlain
<1>2. Forest(Known, g) /\ \A z \in Known : Find(g, z) = IF Find(f, z) \in {ra, rb} THEN low ELSE Find(f, z)
  BY <1>1, JoinUnites DEF Together
<1>3. low \in {ra, rb}
  OBVIOUS
<1> HIDE DEF g, low
<1>4. ASSUME NEW S \in SUBSET Known, Closed(S), NEW x \in Known PROVE x \in S <=> Find(g, x) \in S
  <2>1. a \in S <=> b \in S
    <3>1. Near(SignatureOf(a), SignatureOf(b)) /\ Near(SignatureOf(b), SignatureOf(a))
      BY SignaturesPlain, NearMutual DEF NearPair
    <3> QED BY <1>4, <3>1 DEF Closed
  <2>2. (a \in S <=> ra \in S) /\ (b \in S <=> rb \in S) /\ (x \in S <=> Find(f, x) \in S)
    BY <1>4 DEF Together
  <2> HIDE DEF ra, rb
  <2> QED BY <1>2, <1>3, <2>1, <2>2
<1>5. Together(g)
  BY <1>2, <1>4 DEF Together
<1>6. Find(g, a) = Find(g, b)
  BY <1>2
<1>7. \A x, y \in Known : Find(f, x) = Find(f, y) => Find(g, x) = Find(g, y)
  BY <1>2
<1> QED BY <1>5, <1>6, <1>7 DEF g

\* What clusters() ends with.
LEMMA ParentsRight ==
  ASSUME DedupInv
  PROVE  /\ Together(Parents)
         /\ \A d, e \in Known : Near(SignatureOf(d), SignatureOf(e)) => Find(Parents, d) = Find(Parents, e)
<1> DEFINE links == Links
           L == Len(links)
           A(n) == signatures[links[n][1]].doc
           B(n) == links[n][2]
           own == [d \in Known |-> d]
           Fun(g) == [n \in 0 .. L |-> IF n = 0 THEN own ELSE Join(g[n - 1], A(n), B(n))]
           joined == CHOOSE g : g = Fun(g)
           X == {f \in [Known -> Known] : Forest(Known, f)}
           step == [n \in 1 .. L |-> [f \in X |-> Join(f, A(n), B(n))]]
<1>1. Parents = joined[L]
  BY DEF Parents
<1>2. L \in Nat /\ \A n \in 1 .. L : A(n) \in Known /\ B(n) \in Known /\ NearPair(A(n), B(n))
  BY LinksNear
<1>3. \A d, e \in Known : NearPair(d, e) => \E n \in 1 .. L : A(n) = d /\ B(n) = e
  BY LinksNear
<1>4. Known \in SUBSET Nat
  BY SignaturesPlain
<1> HIDE DEF A, B, L, links
<1>5. own \in X /\ Forest(Known, own) /\ \A x \in Known : own[x] = x
  <2>1. own \in [Known -> Known] /\ \A x \in Known : own[x] = x /\ x \in Nat
    BY <1>4
  <2> HIDE DEF own
  <2>2. Forest(Known, own)
    BY <2>1 DEF Forest
  <2> QED BY <2>1, <2>2
<1> HIDE DEF own
<1>6. \A n \in 1 .. L : \A f \in X : Join(f, A(n), B(n)) \in X
  <2>1. ASSUME NEW n \in 1 .. L, NEW f \in X PROVE Join(f, A(n), B(n)) \in X
    <3>1. Forest(Known, Join(f, A(n), B(n)))
      BY <1>2, <1>4, JoinUnites
    <3> QED BY <3>1 DEF Forest
  <2> HIDE DEF X
  <2> QED BY <2>1
<1> HIDE DEF X
<1>7. step \in [1 .. L -> [X -> X]] /\ \A n \in 1 .. L, f \in X : step[n][f] = Join(f, A(n), B(n))
  BY <1>6
<1> HIDE DEF step
<1>8. \E g : g = Fun(g)
  <2>1. PICK g : Iterated(g, L, X, own, step)
    BY <1>2, <1>5, <1>7, Iterates
  <2>2. g \in [0 .. L -> X] /\ g[0] = own /\ \A n \in 1 .. L : g[n] = step[n][g[n - 1]]
    BY <2>1 DEF Iterated
  <2>3. ASSUME NEW n \in 0 .. L PROVE g[n] = IF n = 0 THEN own ELSE Join(g[n - 1], A(n), B(n))
    <3>1. CASE n = 0
      BY <2>2, <3>1
    <3>2. CASE n # 0
      <4>1. n \in 1 .. L /\ n - 1 \in 0 .. L
        BY <1>2, <3>2
      <4>2. g[n - 1] \in X
        BY <2>2, <4>1
      <4> QED BY <1>7, <2>2, <3>2, <4>1, <4>2
    <3> QED BY <3>1, <3>2
  <2>4. g = Fun(g)
    BY <2>2, <2>3
  <2> QED BY <2>4
<1>9. joined = Fun(joined)
  <2> HIDE DEF Fun
  <2> QED BY <1>8
<1> HIDE DEF joined
<1>10. joined[0] = own /\ \A n \in 1 .. L : joined[n] = Join(joined[n - 1], A(n), B(n))
  <2>1. \A n \in 0 .. L : joined[n] = IF n = 0 THEN own ELSE Join(joined[n - 1], A(n), B(n))
    BY <1>9
  <2> QED BY <1>2, <2>1
<1> HIDE DEF Fun
<1> DEFINE Done(n) == /\ Together(joined[n])
                      /\ \A m \in 1 .. n : Find(joined[n], A(m)) = Find(joined[n], B(m))
           S == {n \in 0 .. L : Done(n)}
<1>11. Done(0)
  <2>1. \A x \in Known : Find(own, x) = x
    BY <1>4, <1>5, FindUp
  <2>2. Together(own)
    BY <1>5, <2>1 DEF Together
  <2> QED BY <1>10, <2>2
<1>12. ASSUME NEW n \in 0 .. L - 1, Done(n) PROVE Done(n + 1)
  <2>1. n + 1 \in 1 .. L /\ (n + 1) - 1 = n /\ n \in Nat
    BY <1>2
  <2> DEFINE g == Join(joined[n], A(n + 1), B(n + 1))
  <2>2. joined[n + 1] = g
    BY <1>10, <2>1
  <2>3. A(n + 1) \in Known /\ B(n + 1) \in Known /\ NearPair(A(n + 1), B(n + 1))
    BY <1>2, <2>1
  <2>4. /\ Together(g) /\ Find(g, A(n + 1)) = Find(g, B(n + 1))
        /\ \A x, y \in Known : Find(joined[n], x) = Find(joined[n], y) => Find(g, x) = Find(g, y)
    BY <1>12, <2>3, JoinTogether
  <2> HIDE DEF g
  <2>5. ASSUME NEW m \in 1 .. n + 1 PROVE Find(g, A(m)) = Find(g, B(m))
    <3>1. CASE m = n + 1
      BY <2>4, <3>1
    <3>2. CASE m # n + 1
      <4>1. m \in 1 .. n /\ m \in 1 .. L
        BY <1>2, <2>1, <3>2
      <4> QED BY <1>2, <1>12, <2>4, <4>1
    <3> QED BY <3>1, <3>2
  <2> QED BY <2>2, <2>4, <2>5
<1> HIDE DEF Done
<1>13. \A n \in 0 .. L - 1 : n \in S => n + 1 \in S
  <2>1. \A n \in 0 .. L - 1 : n + 1 \in 0 .. L
    BY <1>2
  <2> QED BY <1>12, <2>1
<1>14. 0 \in S
  BY <1>2, <1>11
<1>15. Done(L)
  <2> HIDE DEF S
  <2>1. 0 .. L \subseteq S
    BY <1>2, <1>13, <1>14, UpTo
  <2>2. L \in S
    BY <1>2, <2>1
  <2> QED BY <2>2 DEF S
<1>16. Together(Parents) /\ \A m \in 1 .. L : Find(Parents, A(m)) = Find(Parents, B(m))
  BY <1>1, <1>15 DEF Done
<1>17. ASSUME NEW d \in Known, NEW e \in Known, Near(SignatureOf(d), SignatureOf(e))
       PROVE  Find(Parents, d) = Find(Parents, e)
  <2>1. CASE d = e
    BY <2>1
  <2>2. CASE d # e
    <3>1. PICK n \in 1 .. L : A(n) = d /\ B(n) = e
      BY <1>3, <1>17, <2>2 DEF NearPair
    <3> QED BY <1>16, <3>1
  <2> QED BY <2>1, <2>2
<1> QED BY <1>16, <1>17

-----------------------------------------------------------------------------
\* A component is a tree of the forest.
Tree(d) == {e \in Known : Find(Parents, e) = Find(Parents, d)}

LEMMA ComponentsAreTrees ==
  ASSUME DedupInv, NEW d \in Known
  PROVE  Component(d) = Tree(d)
<1>1. Together(Parents) /\ \A x, y \in Known : Near(SignatureOf(x), SignatureOf(y)) => Find(Parents, x) = Find(Parents, y)
  BY ParentsRight
<1>2. Closed(Tree(d)) /\ d \in Tree(d) /\ Tree(d) \in SUBSET Known
  BY <1>1 DEF Closed, Tree
<1>3. Component(d) \subseteq Tree(d)
  BY <1>2 DEF Component
<1>4. ASSUME NEW e \in Tree(d) PROVE e \in Component(d)
  <2>1. e \in Known /\ Find(Parents, e) = Find(Parents, d)
    BY DEF Tree
  <2>2. \A S \in SUBSET Known : d \in S /\ Closed(S) => e \in S
    BY <1>1, <2>1 DEF Together
  <2> QED BY <2>1, <2>2 DEF Component
<1> QED BY <1>3, <1>4

\* A tree has its root, which is the least in it; what else has it in its tree, is of it.
LEMMA TreeRooted ==
  ASSUME DedupInv, NEW d \in Known
  PROVE  LET r == Find(Parents, d) IN
         /\ r \in Tree(d) /\ r \in Known /\ Find(Parents, r) = r
         /\ \A e \in Tree(d) : r <= e
         /\ IsFiniteSet(Tree(d)) /\ Tree(d) \in SUBSET Int /\ d \in Tree(d)
<1> DEFINE r == Find(Parents, d)
<1>1. Known \in SUBSET Nat /\ IsFiniteSet(Known) /\ Forest(Known, Parents)
  BY SignaturesPlain, ParentsRight DEF Together
<1>2. r \in Known /\ Parents[r] = r
  BY <1>1, FindIsRoot
<1>3. Find(Parents, r) = r
  BY <1>1, <1>2, FindUp
<1>4. \A e \in Tree(d) : r <= e
  BY <1>1, FindIsRoot DEF Tree
<1>5. IsFiniteSet(Tree(d))
  BY <1>1, FS_Subset DEF Tree
<1>6. Tree(d) \in SUBSET Int /\ d \in Tree(d)
  <2>1. Tree(d) \subseteq Known /\ d \in Tree(d)
    BY DEF Tree
  <2>2. \A x \in Known : x \in Int
    BY <1>1
  <2>3. \A x \in Tree(d) : x \in Int
    BY <2>1, <2>2
  <2> QED BY <2>1, <2>3
<1> QED BY <1>2, <1>3, <1>4, <1>5, <1>6 DEF Tree

LEMMA MoreThanOne ==
  ASSUME NEW S, IsFiniteSet(S)
  PROVE  Cardinality(S) > 1 <=> \E x, y \in S : x # y
<1>1. ASSUME NEW x \in S, NEW y \in S, x # y PROVE Cardinality(S) > 1
  <2>1. Cardinality({x}) = 1 /\ IsFiniteSet({x}) /\ Cardinality(S) \in Nat
    BY FS_Singleton, FS_CardinalityType
  <2>2. {x} \in SUBSET S /\ {x} # S
    BY <1>1
  <2>3. Cardinality({x}) <= Cardinality(S) /\ Cardinality({x}) # Cardinality(S)
    BY <2>2, FS_Subset
  <2> QED BY <2>1, <2>3
<1>2. ASSUME \A x, y \in S : x = y PROVE ~(Cardinality(S) > 1)
  <2>1. CASE S = {}
    BY <2>1, FS_EmptySet
  <2>2. CASE S # {}
    <3>1. PICK x \in S : S = {x}
      BY <1>2, <2>2
    <3>2. Cardinality({x}) = 1
      BY FS_Singleton
    <3> QED BY <3>1, <3>2
  <2> QED BY <2>1, <2>2
<1> QED BY <1>1, <1>2

\* The clusters are the trees of more than one, each under its least.
LEMMA ClustersAreTrees ==
  ASSUME DedupInv
  PROVE  /\ DOMAIN Clusters = {r \in Known : Find(Parents, r) = r /\ Tree(r) # {r}}
         /\ \A r \in DOMAIN Clusters : Clusters[r] = Tree(r)
         /\ Clusters = [r \in DOMAIN Clusters |-> Clusters[r]]
<1> DEFINE Members(root) == {d \in Known : Find(Parents, d) = root}
           roots == {r \in Known : Cardinality(Members(r)) > 1}
           own == {r \in Known : Find(Parents, r) = r /\ Tree(r) # {r}}
<1>1. Clusters = [r \in roots |-> Members(r)]
  BY DEF Clusters
<1>2. ASSUME NEW r \in roots PROVE r \in own /\ Members(r) = Tree(r)
  <2>1. r \in Known /\ IsFiniteSet(Members(r)) /\ Cardinality(Members(r)) > 1
    BY SignaturesPlain, FS_Subset
  <2>2. PICK x, y \in Members(r) : x # y
    BY <2>1, MoreThanOne
  <2>3. x \in Known /\ Find(Parents, x) = r
    BY <2>2
  <2>4. Find(Parents, r) = r
    BY <2>3, TreeRooted
  <2>5. Members(r) = Tree(r)
    BY <2>4 DEF Tree
  <2> QED BY <2>1, <2>2, <2>4, <2>5
<1>3. ASSUME NEW r \in own PROVE r \in roots
  <2>1. Members(r) = Tree(r)
    BY DEF Tree
  <2>2. r \in Tree(r) /\ IsFiniteSet(Tree(r))
    BY TreeRooted
  <2>3. \E x, y \in Tree(r) : x # y
    BY <2>2
  <2>4. Cardinality(Tree(r)) > 1
    BY <2>2, <2>3, MoreThanOne
  <2> QED BY <2>1, <2>4
<1>4. roots = own
  <2> HIDE DEF roots, own
  <2>1. \A r \in roots : r \in own
    BY <1>2
  <2>2. \A r \in own : r \in roots
    BY <1>3
  <2> QED BY <2>1, <2>2
<1>5. DOMAIN Clusters = roots /\ \A r \in roots : Clusters[r] = Members(r)
  BY <1>1
<1> HIDE DEF roots, Members
<1> QED BY <1>1, <1>2, <1>4, <1>5

LEMMA ClustersRight == DedupInv => ClustersAreComponents
<1> SUFFICES ASSUME DedupInv PROVE ClustersAreComponents
  OBVIOUS
<1> DEFINE component == [d \in Known |-> Component(d)]
           shared == {d \in Known : component[d] # {d} /\ \A e \in component[d] : d <= e}
<1>1. \A d \in Known : component[d] = Tree(d)
  BY ComponentsAreTrees
<1> HIDE DEF component
<1>2. ASSUME NEW d \in Known PROVE d \in shared <=> Find(Parents, d) = d /\ Tree(d) # {d}
  <2>1. /\ Find(Parents, d) \in Tree(d) /\ \A e \in Tree(d) : Find(Parents, d) <= e
        /\ Tree(d) \in SUBSET Int /\ d \in Tree(d)
    BY TreeRooted
  <2>2. ASSUME \A e \in Tree(d) : d <= e PROVE Find(Parents, d) = d
    <3>1. d <= Find(Parents, d) /\ Find(Parents, d) <= d /\ d \in Int /\ Find(Parents, d) \in Int
      BY <2>1, <2>2
    <3> QED BY <3>1
  <2> QED BY <1>1, <2>1, <2>2
<1>3. shared = DOMAIN Clusters
  <2>1. DOMAIN Clusters = {r \in Known : Find(Parents, r) = r /\ Tree(r) # {r}}
    BY ClustersAreTrees
  <2> QED BY <1>2, <2>1
<1>4. shared \subseteq Known
  OBVIOUS
<1> HIDE DEF shared
<1>5. \A r \in shared : Clusters[r] = component[r]
  BY <1>1, <1>3, <1>4, ClustersAreTrees
<1>6. Clusters = [r \in DOMAIN Clusters |-> Clusters[r]]
  BY ClustersAreTrees
<1>7. Clusters = [r \in shared |-> component[r]]
  BY <1>3, <1>5, <1>6
<1> QED BY <1>7 DEF ClustersAreComponents, shared, component

\* The least of a tree is kept, the rest of it is not.
LEMMA KeptRight == DedupInv => OneKeptOfEach
<1> SUFFICES ASSUME DedupInv, NEW d \in Known
             PROVE  Cardinality({i \in DOMAIN Kept : Kept[i].doc \in Component(d)}) = 1
  BY DEF OneKeptOfEach
<1> DEFINE kept == {i \in DOMAIN signatures : \A r \in DOMAIN Clusters :
                      signatures[i].doc \in Clusters[r] => signatures[i].doc = Min(Clusters[r])}
           R == {p \in kept \X kept : p[1] < p[2]}
           places == InOrder(kept, R)
           m == Find(Parents, d)
<1>1. Kept = [n \in DOMAIN places |-> signatures[places[n]]]
  BY DEF Kept
<1>2. kept \in SUBSET Int /\ IsFiniteSet(kept)
  <2>1. DOMAIN signatures = 1 .. Len(signatures) /\ Len(signatures) \in Nat
    BY SignaturesPlain
  <2>2. IsFiniteSet(DOMAIN signatures)
    BY <2>1, FS_Interval
  <2> QED BY <2>1, <2>2, FS_Subset
<1>3. ASSUME NEW r \in DOMAIN Clusters PROVE Min(Clusters[r]) = r /\ r \in Known /\ Clusters[r] = Tree(r)
  <2>1. Clusters[r] = Tree(r) /\ r \in Known /\ Find(Parents, r) = r
    BY ClustersAreTrees
  <2>2. r \in Tree(r) /\ Tree(r) \in SUBSET Int /\ \A e \in Tree(r) : r <= e
    BY <2>1, TreeRooted
  <2>3. Min(Tree(r)) = r
    BY <2>2, IsMin
  <2> QED BY <2>1, <2>3
<1>4. m \in Tree(d) /\ m \in Known /\ Find(Parents, m) = m
  BY TreeRooted
<1> HIDE DEF m
<1>5. ASSUME NEW i \in kept, signatures[i].doc \in Tree(d) PROVE signatures[i].doc = m
  <2> DEFINE x == signatures[i].doc
  <2>1. ASSUME x # m PROVE FALSE
    <3>1. x \in Tree(m) /\ m \in Tree(m)
      BY <1>4, <1>5 DEF Tree, m
    <3>2. Tree(m) # {m}
      BY <2>1, <3>1
    <3>3. m \in DOMAIN Clusters
      BY <1>4, <3>2, ClustersAreTrees
    <3>4. x \in Clusters[m] /\ Min(Clusters[m]) = m
      BY <1>3, <3>1, <3>3
    <3> QED BY <2>1, <3>3, <3>4
  <2> QED BY <2>1
<1>6. PICK p \in DOMAIN signatures : m = signatures[p].doc
  BY <1>4, SignaturesPlain
<1>7. p \in kept
  <2>1. ASSUME NEW r \in DOMAIN Clusters, m \in Clusters[r] PROVE m = Min(Clusters[r])
    <3>1. m \in Tree(r) /\ r \in Known /\ Min(Clusters[r]) = r /\ Find(Parents, r) = r
      BY <1>3, <2>1, ClustersAreTrees
    <3> QED BY <1>4, <3>1 DEF Tree
  <2> QED BY <1>6, <2>1
<1>8. Enumerates(places, kept, R)
  BY <1>2, NumbersInOrder
<1> HIDE DEF kept, places, R
<1>9. /\ \A n \in DOMAIN places : places[n] \in kept
      /\ \A k, n \in DOMAIN places : k # n => places[k] # places[n]
      /\ \A i \in kept : \E n \in DOMAIN places : places[n] = i
  <2>1. places \in Seq(kept)
    BY <1>8 DEF Enumerates
  <2> QED BY <1>8, <2>1, ElementOfSeq DEF Enumerates
<1>10. PICK n \in DOMAIN places : places[n] = p
  BY <1>7, <1>9
<1>11. DOMAIN Kept = DOMAIN places /\ \A k \in DOMAIN places : Kept[k] = signatures[places[k]]
  BY <1>1
<1>12. ASSUME NEW k \in DOMAIN places, Kept[k].doc \in Tree(d) PROVE k = n
  <2>1. places[k] \in kept /\ signatures[places[k]].doc = m
    BY <1>5, <1>9, <1>11, <1>12
  <2>2. places[k] \in DOMAIN signatures
    BY <2>1 DEF kept
  <2>3. places[k] = p
    BY <1>6, <2>1, <2>2 DEF DedupInv
  <2> QED BY <1>9, <1>10, <2>3
<1>13. Kept[n].doc \in Tree(d)
  BY <1>4, <1>6, <1>10, <1>11
<1>14. {i \in DOMAIN Kept : Kept[i].doc \in Component(d)} = {n}
  <2>1. Component(d) = Tree(d)
    BY ComponentsAreTrees
  <2> QED BY <1>11, <1>12, <1>13, <2>1
<1> QED BY <1>14, FS_Singleton

LEMMA DedupStart == DedupInit => DedupInv
<1> SUFFICES ASSUME DedupInit PROVE DedupInv
  OBVIOUS
<1>1. signatures = << >> /\ buckets = {}
  BY DEF DedupInit
<1>2. DOMAIN signatures = {}
  BY <1>1
<1>3. signatures \in Seq([doc : Papers, sig : Signatures])
  BY <1>1, EmptySeq
<1> QED BY <1>1, <1>2, <1>3 DEF DedupInv

LEMMA DedupStep == DedupInv /\ [DedupNext]_dedupVars => DedupInv'
<1> SUFFICES ASSUME DedupInv, [DedupNext]_dedupVars PROVE DedupInv'
  OBVIOUS
<1>1. CASE UNCHANGED dedupVars
  BY <1>1 DEF dedupVars, DedupInv, Known
<1>2. ASSUME NEW doc \in Papers, NEW sig \in Signatures, AddDocument(doc, sig) PROVE DedupInv'
  <2> DEFINE entry == [doc |-> doc, sig |-> sig]
             T == [doc : Papers, sig : Signatures]
             new == {[band |-> b, key |-> Band(sig, b), doc |-> doc] : b \in 1 .. Bands}
  <2>1. /\ DOMAIN signatures = 1 .. Len(signatures) /\ Len(signatures) \in Nat
        /\ \A d \in Known : \E i \in DOMAIN signatures : d = signatures[i].doc
    BY SignaturesPlain
  <2>2. signatures \in Seq(T) /\ entry \in T /\ entry.doc = doc /\ entry.sig = sig
    BY DEF DedupInv
  <2>3. buckets' = buckets \cup new
    BY <1>2 DEF AddDocument
  <2>4. /\ signatures' \in Seq(T)
        /\ DOMAIN signatures \subseteq DOMAIN signatures'
        /\ \A i \in DOMAIN signatures' :
             \/ signatures'[i] = entry
             \/ i \in DOMAIN signatures /\ signatures'[i] = signatures[i] /\ signatures[i].doc # doc
        /\ \A i, j \in DOMAIN signatures' : signatures'[i] = entry /\ signatures'[j] = entry => i = j
        /\ \A i \in DOMAIN signatures : signatures'[i].doc = signatures[i].doc
        /\ \E i \in DOMAIN signatures' : signatures'[i] = entry
    <3>1. CASE doc \in Known
      <4>1. signatures' = [i \in DOMAIN signatures |-> IF signatures[i].doc = doc THEN entry ELSE signatures[i]]
        BY <1>2, <3>1 DEF AddDocument
      <4> HIDE DEF entry, T
      <4>2. DOMAIN signatures' = DOMAIN signatures /\ \A i \in DOMAIN signatures :
              signatures'[i] = IF signatures[i].doc = doc THEN entry ELSE signatures[i]
        BY <4>1
      <4>3. \A i \in DOMAIN signatures : signatures[i] \in T
        BY <2>2, ElementOfSeq, <2>1
      <4>4. signatures' \in [1 .. Len(signatures) -> T]
        BY <2>1, <2>2, <4>1, <4>3
      <4>5. signatures' \in Seq(T)
        BY <2>1, <4>4, SeqDef
      <4>6. \A i, j \in DOMAIN signatures' : signatures'[i] = entry /\ signatures'[j] = entry => i = j
        BY <2>2, <4>2 DEF DedupInv
      <4>7. PICK i \in DOMAIN signatures : doc = signatures[i].doc
        BY <2>1, <3>1
      <4>8. signatures'[i] = entry
        BY <4>2, <4>7
      <4> QED BY <2>2, <4>2, <4>5, <4>6, <4>8
    <3>2. CASE doc \notin Known
      <4>1. signatures' = Append(signatures, entry)
        BY <1>2, <3>2 DEF AddDocument
      <4>2. \A i \in DOMAIN signatures : signatures[i].doc # doc
        BY <3>2 DEF Known
      <4> HIDE DEF entry, T
      <4>3. /\ signatures' \in Seq(T) /\ DOMAIN signatures' = 1 .. Len(signatures) + 1
            /\ \A i \in 1 .. Len(signatures) : signatures'[i] = signatures[i]
            /\ signatures'[Len(signatures) + 1] = entry
        BY <2>1, <2>2, <4>1, AppendProperties
      <4>4. ASSUME NEW i \in DOMAIN signatures'
            PROVE  \/ i = Len(signatures) + 1
                   \/ i \in DOMAIN signatures /\ signatures'[i] = signatures[i] /\ signatures[i].doc # doc
        BY <2>1, <4>2, <4>3
      <4>5. ASSUME NEW i \in DOMAIN signatures', signatures'[i] = entry PROVE i = Len(signatures) + 1
        BY <2>2, <4>4, <4>5
      <4>6. Len(signatures) + 1 \in DOMAIN signatures' /\ DOMAIN signatures \subseteq DOMAIN signatures'
        BY <2>1, <4>3
      <4>7. \A i \in DOMAIN signatures' :
             \/ signatures'[i] = entry
             \/ i \in DOMAIN signatures /\ signatures'[i] = signatures[i] /\ signatures[i].doc # doc
        BY <4>3, <4>4
      <4> QED BY <2>1, <4>3, <4>5, <4>6, <4>7
    <3> QED BY <3>1, <3>2
  <2> HIDE DEF T
  <2>5. Known' = {signatures'[i].doc : i \in DOMAIN signatures'}
    BY DEF Known
  <2>6. Known \subseteq Known' /\ doc \in Known'
    BY <2>1, <2>2, <2>4, <2>5
  <2> HIDE DEF entry
  <2>7. \A i, j \in DOMAIN signatures' : i # j => signatures'[i].doc # signatures'[j].doc
    BY <2>2, <2>4 DEF DedupInv
  <2>8. \A b \in buckets' : b.doc \in Known'
    <3>1. \A b \in new : b.doc = doc
      OBVIOUS
    <3> HIDE DEF new
    <3> QED BY <2>3, <2>6, <3>1 DEF DedupInv
  <2>9. ASSUME NEW i \in DOMAIN signatures', NEW b \in 1 .. Bands
        PROVE  [band |-> b, key |-> Band(signatures'[i].sig, b), doc |-> signatures'[i].doc] \in buckets'
    <3>1. CASE signatures'[i] = entry
      <4>1. [band |-> b, key |-> Band(sig, b), doc |-> doc] \in new
        OBVIOUS
      <4> HIDE DEF new
      <4> QED BY <2>2, <2>3, <3>1, <4>1
    <3>2. CASE i \in DOMAIN signatures /\ signatures'[i] = signatures[i]
      <4> HIDE DEF new
      <4> QED BY <2>3, <3>2 DEF DedupInv
    <3> QED BY <2>4, <3>1, <3>2
  <2> HIDE DEF new
  <2>10. signatures' \in Seq([doc : Papers, sig : Signatures])
    BY <2>4 DEF T
  <2>11. Signatures' = Signatures /\ \A a, b : Band(a, b)' = Band(a, b)
    BY DEF Signatures, Band
  <2> QED BY <2>7, <2>8, <2>9, <2>10, <2>11 DEF DedupInv
<1> QED BY <1>1, <1>2 DEF DedupNext

\* For any documents, however often added and with whatever text, any number of
\* bands that leaves one whole of near signatures, and in whatever order documents
\* come: clusters are what the pairs connect, and of each one document stays.
THEOREM DedupHolds == DedupSpec => []DedupSound
<1>1. DedupInit => DedupInv
  BY DedupStart
<1>2. DedupInv /\ [DedupNext]_dedupVars => DedupInv'
  BY DedupStep
<1>3. DedupInv => DedupSound
  BY ClustersRight, KeptRight DEF DedupSound
<1> QED BY <1>1, <1>2, <1>3, PTL DEF DedupSpec

-----------------------------------------------------------------------------
(***************************************************************************)
(* Chunks.  Between the place the search for a piece begins at and the     *)
(* piece's own first letter there are blanks only, so that no copy of the  *)
(* piece can be found before the piece.                                    *)
(***************************************************************************)

\* A run of a text, letter by letter.
LEMMA RunOf ==
  ASSUME NEW T, NEW s \in Seq(T), NEW a \in Nat \ {0}, NEW b \in 0 .. Len(s), a <= b + 1
  PROVE  LET r == SubSeq(s, a, b) IN
         /\ r \in Seq(T) /\ Len(r) = b + 1 - a /\ DOMAIN r = 1 .. b + 1 - a
         /\ \A i \in 1 .. b + 1 - a : r[i] = s[a + i - 1]
<1>1. Len(s) \in Nat /\ a \in Int /\ b \in Int
  OBVIOUS
<1>2. \A i \in a .. b : s[i] \in T
  BY <1>1, ElementOfSeq
<1> DEFINE r == SubSeq(s, a, b)
<1>3. /\ r \in Seq(T) /\ Len(r) = IF a <= b THEN b - a + 1 ELSE 0
      /\ \A i \in 1 .. b - a + 1 : r[i] = s[a + i - 1]
  BY <1>1, <1>2, SubSeqProperties
<1> HIDE DEF r
<1>4. Len(r) = b + 1 - a /\ b - a + 1 = b + 1 - a
  BY <1>1, <1>3
<1>5. DOMAIN r = 1 .. Len(r)
  BY <1>3
<1> QED BY <1>3, <1>4, <1>5 DEF r

Solid(s) == {i \in DOMAIN s : s[i] # Blank}

\* What is left of a text that is not blank, from its first letter to its last.
LEMMA StripRight ==
  ASSUME NEW T, NEW s \in Seq(T)
  PROVE  /\ Solid(s) = {} => Strip(s) = << >>
         /\ Solid(s) # {} =>
              \E f, l \in 1 .. Len(s) :
                /\ f <= l /\ f = Min(Solid(s)) /\ s[f] # Blank
                /\ \A i \in 1 .. Len(s) : i < f \/ i > l => s[i] = Blank
                /\ Strip(s) = SubSeq(s, f, l)
<1> DEFINE S == Solid(s)
<1>1. Len(s) \in Nat /\ DOMAIN s = 1 .. Len(s)
  OBVIOUS
<1>2. S \in SUBSET (1 .. Len(s)) /\ \A i \in 1 .. Len(s) : i \in S <=> s[i] # Blank
  BY <1>1 DEF Solid
<1>3. Strip(s) = IF S = {} THEN << >> ELSE SubSeq(s, Min(S), Max(S))
  BY DEF Strip, Solid
<1>4. IsFiniteSet(S) /\ S \in SUBSET Int
  <2>1. 1 \in Int /\ Len(s) \in Int
    BY <1>1
  <2>2. IsFiniteSet(1 .. Len(s))
    BY <2>1, FS_Interval
  <2> HIDE DEF S
  <2>3. IsFiniteSet(S)
    BY <1>2, <2>2, FS_Subset
  <2> QED BY <1>2, <2>3
<1> HIDE DEF S
<1>5. ASSUME S # {}
      PROVE  \E f, l \in 1 .. Len(s) :
                /\ f <= l /\ f = Min(S) /\ s[f] # Blank
                /\ \A i \in 1 .. Len(s) : i < f \/ i > l => s[i] = Blank
                /\ Strip(s) = SubSeq(s, f, l)
  <2>1. Min(S) \in S /\ \A x \in S : Min(S) <= x
    BY <1>4, <1>5, FiniteMin
  <2>2. Max(S) \in S /\ \A x \in S : x <= Max(S)
    BY <1>4, <1>5, FiniteMax
  <2> DEFINE f == Min(S)
             l == Max(S)
  <2>3. f \in 1 .. Len(s) /\ l \in 1 .. Len(s) /\ f \in S /\ f <= l
    BY <1>2, <2>1, <2>2
  <2>4. \A x \in S : f <= x /\ x <= l
    BY <2>1, <2>2
  <2>5. Strip(s) = SubSeq(s, f, l) /\ f = Min(S)
    BY <1>3, <1>5
  <2> HIDE DEF f, l
  <2>6. ASSUME NEW i \in 1 .. Len(s), i < f \/ i > l PROVE s[i] = Blank
    <3>1. i \notin S
      BY <1>1, <2>3, <2>4, <2>6
    <3> QED BY <1>2, <3>1
  <2>7. s[f] # Blank
    BY <1>2, <2>3
  <2> QED BY <2>3, <2>5, <2>6, <2>7
<1> QED BY <1>3, <1>5 DEF S

\* A text is found at the first place it has, or nowhere.
LEMMA FindNat ==
  ASSUME NEW T, NEW s \in Seq(T), NEW piece \in Seq(T), NEW from \in Nat
  PROVE  FindIn(s, piece, from) \in Nat
<1> DEFINE at == {i \in from .. Len(s) + 1 - Len(piece) : SubSeq(s, i, i + Len(piece) - 1) = piece}
<1>1. Len(s) \in Nat /\ Len(piece) \in Nat
  OBVIOUS
<1>2. at \in SUBSET (from .. Len(s) + 1 - Len(piece)) /\ at \in SUBSET Nat
  BY <1>1
<1>3. FindIn(s, piece, from) = IF at = {} THEN 0 ELSE Min(at)
  BY DEF FindIn
<1> HIDE DEF at
<1>4. IsFiniteSet(at)
  <2>1. from \in Int /\ Len(s) + 1 - Len(piece) \in Int
    BY <1>1
  <2>2. IsFiniteSet(from .. Len(s) + 1 - Len(piece))
    BY <2>1, FS_Interval
  <2> QED BY <1>2, <2>2, FS_Subset
<1>5. CASE at = {}
  BY <1>3, <1>5
<1>6. CASE at # {}
  <2>1. at \in SUBSET Int
    BY <1>2
  <2>2. Min(at) \in at
    BY <1>4, <1>6, <2>1, FiniteMin
  <2> QED BY <1>2, <1>3, <1>6, <2>2
<1> QED BY <1>5, <1>6

\* With blanks before it, a piece that begins with a letter is found where it is.
LEMMA FindsOwn ==
  ASSUME NEW T, NEW s \in Seq(T), NEW f \in 1 .. Len(s), NEW l \in f .. Len(s), s[f] # Blank,
         NEW from \in 1 .. f, \A i \in from .. f - 1 : s[i] = Blank
  PROVE  FindIn(s, SubSeq(s, f, l), from) = f
<1> DEFINE piece == SubSeq(s, f, l)
           at == {i \in from .. Len(s) + 1 - Len(piece) : SubSeq(s, i, i + Len(piece) - 1) = piece}
<1>1. Len(s) \in Nat /\ f \in Nat \ {0} /\ l \in 0 .. Len(s) /\ f <= l /\ f <= l + 1 /\ from \in Nat \ {0} /\ from <= f
  OBVIOUS
<1>2. piece \in Seq(T) /\ Len(piece) = l + 1 - f /\ piece[1] = s[f]
  <2>1. /\ piece \in Seq(T) /\ Len(piece) = l + 1 - f
        /\ \A i \in 1 .. l + 1 - f : piece[i] = s[f + i - 1]
    BY <1>1, RunOf
  <2>2. 1 \in 1 .. l + 1 - f /\ f + 1 - 1 = f
    BY <1>1
  <2> HIDE DEF piece
  <2>3. piece[1] = s[f + 1 - 1]
    BY <2>1, <2>2
  <2> QED BY <2>1, <2>2, <2>3
<1>3. f \in at
  <2>1. f \in from .. Len(s) + 1 - (l + 1 - f) /\ f + (l + 1 - f) - 1 = l
    BY <1>1
  <2>2. SubSeq(s, f, f + Len(piece) - 1) = piece
    <3> HIDE DEF piece
    <3>1. f + Len(piece) - 1 = l
      BY <1>2, <2>1
    <3> QED BY <3>1 DEF piece
  <2> HIDE DEF piece
  <2> QED BY <1>2, <2>1, <2>2
<1>4. ASSUME NEW i \in at PROVE f <= i
  <2>1. i \in from .. Len(s) + 1 - Len(piece) /\ SubSeq(s, i, i + Len(piece) - 1) = piece
    OBVIOUS
  <2>2. i \in Nat \ {0} /\ i + Len(piece) - 1 \in 0 .. Len(s) /\ i <= (i + Len(piece) - 1) + 1
    <3> HIDE DEF piece
    <3> QED BY <1>1, <1>2, <2>1
  <2> DEFINE r == SubSeq(s, i, i + Len(piece) - 1)
  <2>3. \A j \in 1 .. (i + Len(piece) - 1) + 1 - i : r[j] = s[i + j - 1]
    <3> HIDE DEF piece
    <3> QED BY <2>2, RunOf
  <2>4. r = piece
    BY <2>1
  <2> HIDE DEF r, piece
  <2>5. 1 \in 1 .. (i + Len(piece) - 1) + 1 - i /\ i + 1 - 1 = i
    BY <1>1, <1>2, <2>2
  <2>6. r[1] = s[i]
    BY <2>3, <2>5
  <2>7. s[i] # Blank
    BY <1>2, <2>4, <2>6
  <2>8. ~(i \in from .. f - 1)
    BY <2>7
  <2> QED BY <1>1, <2>1, <2>2, <2>8
<1>5. at \in SUBSET Int
  BY <1>1, <1>2
<1>6. FindIn(s, piece, from) = IF at = {} THEN 0 ELSE Min(at)
  BY DEF FindIn
<1> HIDE DEF at, piece
<1>7. Min(at) = f
  BY <1>3, <1>4, <1>5, IsMin
<1> QED BY <1>3, <1>6, <1>7 DEF piece

\* What is found stands where it was found, from where the search began.
LEMMA FindsTrue ==
  ASSUME NEW T, NEW s \in Seq(T), NEW piece \in Seq(T), NEW from \in Nat, FindIn(s, piece, from) # 0
  PROVE  /\ FindIn(s, piece, from) >= from
         /\ SubSeq(s, FindIn(s, piece, from), FindIn(s, piece, from) + Len(piece) - 1) = piece
<1> DEFINE at == {i \in from .. Len(s) + 1 - Len(piece) : SubSeq(s, i, i + Len(piece) - 1) = piece}
           found == FindIn(s, piece, from)
<1>1. Len(s) \in Nat /\ Len(piece) \in Nat
  OBVIOUS
<1>2. /\ at \in SUBSET (from .. Len(s) + 1 - Len(piece)) /\ at \in SUBSET Int
      /\ \A i \in at : SubSeq(s, i, i + Len(piece) - 1) = piece
  BY <1>1
<1>3. found = IF at = {} THEN 0 ELSE Min(at)
  BY DEF FindIn
<1>4. found # 0
  OBVIOUS
<1> HIDE DEF at, found
<1>5. IsFiniteSet(at)
  <2>1. from \in Int /\ Len(s) + 1 - Len(piece) \in Int
    BY <1>1
  <2>2. IsFiniteSet(from .. Len(s) + 1 - Len(piece))
    BY <2>1, FS_Interval
  <2> QED BY <1>2, <2>2, FS_Subset
<1>6. at # {} /\ found = Min(at)
  BY <1>3, <1>4
<1>7. found \in at
  BY <1>2, <1>5, <1>6, FiniteMin
<1>8. found \in from .. Len(s) + 1 - Len(piece)
  BY <1>2, <1>7
<1>9. found >= from
  BY <1>1, <1>8
<1>10. SubSeq(s, found, found + Len(piece) - 1) = piece
  BY <1>2, <1>7
<1> QED BY <1>9, <1>10 DEF found

-----------------------------------------------------------------------------
\* A document as a splitter has cut it
CutRight(c) ==
  \E n \in 0 .. MaxText : \E k \in 0 .. n :
    /\ c \in [text : [1 .. n -> Letters], begin : Rising(k, n), end : Rising(k, n)]
    /\ Covers(c)

\* How far the first n pieces reach.
Reach(c, n) == IF n = 0 THEN 0 ELSE c.end[n]

\* Every piece reaches further than the one before, and begins where that one has
\* ended or before.
LEMMA PiecesLie ==
  ASSUME ChunkingAssumption, NEW c, CutRight(c)
  PROVE  /\ c.text \in Seq(Letters) /\ Len(c.text) \in Nat
         /\ Len(c.begin) \in Nat /\ DOMAIN c.begin = 1 .. Len(c.begin)
         /\ \A n \in 0 .. Len(c.begin) : Reach(c, n) \in 0 .. Len(c.text)
         /\ \A n \in 1 .. Len(c.begin) :
              /\ c.begin[n] \in 1 .. Len(c.text) /\ c.end[n] \in 1 .. Len(c.text)
              /\ c.begin[n] <= c.end[n] /\ c.begin[n] <= Reach(c, n - 1) + 1
              /\ Reach(c, n) = c.end[n] /\ Reach(c, n - 1) <= c.end[n]
<1>0. PICK m \in 0 .. MaxText : \E k \in 0 .. m :
        /\ c \in [text : [1 .. m -> Letters], begin : Rising(k, m), end : Rising(k, m)]
        /\ Covers(c)
  BY DEF CutRight
<1>1. PICK k \in 0 .. m :
        /\ c \in [text : [1 .. m -> Letters], begin : Rising(k, m), end : Rising(k, m)]
        /\ Covers(c)
  BY <1>0
<1>2. MaxText \in Nat /\ m \in Nat /\ k \in Nat
  BY <1>1 DEF ChunkingAssumption
<1>3. /\ c.text \in [1 .. m -> Letters]
      /\ c.begin \in [1 .. k -> 1 .. m] /\ c.end \in [1 .. k -> 1 .. m]
      /\ \A i \in 1 .. k : i > 1 => c.end[i - 1] < c.end[i]
  BY <1>1 DEF Rising
<1>4. c.text \in Seq(Letters) /\ Len(c.text) = m
  <2> DEFINE t == c.text
  <2>1. t \in [1 .. m -> Letters]
    BY <1>3
  <2> HIDE DEF t
  <2>2. t \in Seq(Letters)
    BY <1>2, <2>1
  <2>3. DOMAIN t = 1 .. m /\ DOMAIN t = 1 .. Len(t) /\ Len(t) \in Nat
    BY <2>1, <2>2
  <2>4. Len(t) = m
    BY <1>2, <2>3
  <2> QED BY <2>2, <2>4 DEF t
<1>5. c.begin \in Seq(1 .. m) /\ Len(c.begin) = k /\ DOMAIN c.begin = 1 .. k
  BY <1>2, <1>3
<1>6. \A i \in 1 .. k :
        /\ c.begin[i] <= c.end[i]
        /\ IF i = 1 THEN c.begin[i] = 1 ELSE c.begin[i] <= c.end[i - 1] + 1
  BY <1>1, <1>5 DEF Covers
<1>7. ASSUME NEW n \in 1 .. k
      PROVE  /\ c.begin[n] \in 1 .. m /\ c.end[n] \in 1 .. m
             /\ c.begin[n] <= c.end[n] /\ c.begin[n] <= Reach(c, n - 1) + 1
             /\ Reach(c, n) = c.end[n] /\ Reach(c, n - 1) <= c.end[n]
  <2>1. c.begin[n] \in 1 .. m /\ c.end[n] \in 1 .. m /\ c.begin[n] <= c.end[n] /\ Reach(c, n) = c.end[n]
    BY <1>2, <1>3, <1>6 DEF Reach
  <2>2. CASE n = 1
    BY <1>2, <1>6, <2>1, <2>2 DEF Reach
  <2>3. CASE n # 1
    <3>1. n - 1 \in 1 .. k /\ n - 1 # 0 /\ n > 1
      BY <1>2, <2>3
    <3>2. c.end[n - 1] < c.end[n] /\ c.begin[n] <= c.end[n - 1] + 1 /\ c.end[n - 1] \in 1 .. m
      BY <1>3, <1>6, <2>3, <3>1
    <3>3. Reach(c, n - 1) = c.end[n - 1]
      BY <3>1 DEF Reach
    <3> QED BY <1>2, <2>1, <3>2, <3>3
  <2> QED BY <2>2, <2>3
<1>8. \A n \in 0 .. k : Reach(c, n) \in 0 .. m
  BY <1>2, <1>7 DEF Reach
<1> QED BY <1>2, <1>4, <1>5, <1>7, <1>8

\* A piece, letter by letter.
LEMMA PieceIs ==
  ASSUME ChunkingAssumption, NEW c, CutRight(c), NEW n \in 1 .. Len(c.begin)
  PROVE  /\ Piece(c, n) \in Seq(Letters) /\ Len(Piece(c, n)) = c.end[n] + 1 - c.begin[n]
         /\ DOMAIN Piece(c, n) = 1 .. c.end[n] + 1 - c.begin[n]
         /\ \A i \in 1 .. c.end[n] + 1 - c.begin[n] : Piece(c, n)[i] = c.text[c.begin[n] + i - 1]
<1> DEFINE a == c.begin[n]
           z == c.end[n]
           text == c.text
<1>1. /\ text \in Seq(Letters) /\ a \in Nat \ {0} /\ z \in 0 .. Len(text) /\ a <= z + 1
  BY PiecesLie
<1>2. Piece(c, n) = SubSeq(text, a, z)
  BY DEF Piece
<1> HIDE DEF a, z, text
<1>3. /\ Piece(c, n) \in Seq(Letters) /\ Len(Piece(c, n)) = z + 1 - a
      /\ DOMAIN Piece(c, n) = 1 .. z + 1 - a
      /\ \A i \in 1 .. z + 1 - a : Piece(c, n)[i] = text[a + i - 1]
  BY <1>1, <1>2, RunOf
<1> QED BY <1>3 DEF a, z, text

-----------------------------------------------------------------------------
ChunkSet == [text : Seq(Letters), meta : Seq(Letters), index : Nat, start : Nat]
AssemblySet == [chunks : Seq(ChunkSet), cursor : Nat]

\* What one piece adds is chunks again.
LEMMA AddPieceTyped ==
  ASSUME NEW b \in AssemblySet, NEW text \in Seq(Letters), NEW piece \in Seq(Letters), NEW i \in Nat
  PROVE  AddPiece(b, text, piece, piece, i) \in AssemblySet
<1> DEFINE stripped == Strip(piece)
           start == FindIn(text, stripped, b.cursor)
           chunk == [text |-> stripped, meta |-> piece, index |-> i, start |-> start]
<1>1. b.chunks \in Seq(ChunkSet) /\ b.cursor \in Nat
  BY DEF AssemblySet
<1>2. stripped \in Seq(Letters)
  <2>1. CASE Solid(piece) = {}
    BY <2>1, StripRight, EmptySeq
  <2>2. CASE Solid(piece) # {}
    <3>1. PICK f, l \in 1 .. Len(piece) : f <= l /\ stripped = SubSeq(piece, f, l)
      BY <2>2, StripRight
    <3>2. Len(piece) \in Nat /\ f \in Nat \ {0} /\ l \in 0 .. Len(piece) /\ f <= l + 1
      BY <3>1
    <3>3. SubSeq(piece, f, l) \in Seq(Letters)
      BY <3>2, RunOf
    <3> QED BY <3>1, <3>3
  <2> QED BY <2>1, <2>2
<1>3. AddPiece(b, text, piece, piece, i) =
        IF stripped = << >> THEN b
        ELSE [chunks |-> Append(b.chunks, chunk), cursor |-> IF start = 0 THEN b.cursor ELSE start + Len(stripped)]
  BY DEF AddPiece
<1> HIDE DEF stripped
<1>4. start \in Nat /\ Len(stripped) \in Nat
  <2>1. start \in Nat
    <3> HIDE DEF chunk
    <3> QED BY <1>1, <1>2, FindNat
  <2> QED BY <1>2, <2>1
<1> HIDE DEF start
<1>5. chunk \in ChunkSet
  BY <1>2, <1>4 DEF ChunkSet
<1> HIDE DEF chunk
<1>6. Append(b.chunks, chunk) \in Seq(ChunkSet)
  BY <1>1, <1>5, AppendProperties
<1> QED BY <1>1, <1>3, <1>4, <1>6 DEF AssemblySet

\* Where the last chunk would end at its own place.
LastEnd(b, c) ==
  IF b.chunks = << >> THEN 1
  ELSE OwnPlace(c, b.chunks[Len(b.chunks)]) + Len(b.chunks[Len(b.chunks)].text)

\* What is known of a chunk, of two of them, and of one and its predecessor.
ChunkTrue(x, b, n, c) ==
  /\ x.index \in 1 .. n /\ x.meta = Piece(c, x.index) /\ x.text = Strip(x.meta)
  /\ x.start # 0 => SubSeq(c.text, x.start, EndOf(x) - 1) = x.text /\ EndOf(x) <= b.cursor
Apart2(x, y) == x.start # 0 /\ y.start # 0 => EndOf(x) <= y.start
AtOwn(x, c) == x.start = OwnPlace(c, x)
Follows(x, y, c) == AtOwn(x, c) => (AtOwn(y, c) <=> EndOf(x) <= OwnPlace(c, y))

\* What is known after n pieces.
Assembled(b, n, c) ==
  /\ b.cursor # 0
  /\ \A k \in DOMAIN b.chunks : ChunkTrue(b.chunks[k], b, n, c)
  /\ \A j, k \in DOMAIN b.chunks : j < k => Apart2(b.chunks[j], b.chunks[k])
  /\ \A k \in DOMAIN b.chunks :
       IF k = 1 THEN AtOwn(b.chunks[k], c) ELSE Follows(b.chunks[k - 1], b.chunks[k], c)
  /\ LastEnd(b, c) \in Nat \ {0}
  /\ \A i \in LastEnd(b, c) .. Reach(c, n) : c.text[i] = Blank
  /\ b.chunks = << >> => b.cursor = 1
  /\ b.chunks # << >> /\ AtOwn(b.chunks[Len(b.chunks)], c) => b.cursor = LastEnd(b, c)

LEMMA AssembledNext ==
  ASSUME ChunkingAssumption, NEW c, CutRight(c), NEW n \in 0 .. Len(c.begin) - 1,
         NEW b \in AssemblySet, Assembled(b, n, c)
  PROVE  Assembled(AddPiece(b, c.text, Piece(c, n + 1), Piece(c, n + 1), n + 1), n + 1, c)
<1> DEFINE text == c.text
           piece == Piece(c, n + 1)
           a == c.begin[n + 1]
           z == c.end[n + 1]
           reach == Reach(c, n)
           new == AddPiece(b, text, piece, piece, n + 1)
           stripped == Strip(piece)
           start == FindIn(text, stripped, b.cursor)
           chunk == [text |-> stripped, meta |-> piece, index |-> n + 1, start |-> start]
           K == Len(b.chunks)
<1>1. /\ text \in Seq(Letters) /\ Len(text) \in Nat /\ Len(c.begin) \in Nat
      /\ n \in Nat /\ n + 1 \in 1 .. Len(c.begin) /\ (n + 1) - 1 = n /\ n \in 0 .. Len(c.begin)
  BY PiecesLie
<1>2. /\ a \in 1 .. Len(text) /\ z \in 1 .. Len(text) /\ a <= z
      /\ reach \in 0 .. Len(text) /\ a <= reach + 1 /\ reach <= z /\ Reach(c, n + 1) = z
  BY <1>1, PiecesLie
<1>3. b.chunks \in Seq(ChunkSet) /\ b.cursor \in Nat \ {0} /\ K \in Nat /\ DOMAIN b.chunks = 1 .. K
  BY DEF AssemblySet, Assembled
<1>4. new = IF stripped = << >> THEN b
            ELSE [chunks |-> Append(b.chunks, chunk), cursor |-> IF start = 0 THEN b.cursor ELSE start + Len(stripped)]
  BY DEF AddPiece
<1>5. /\ piece \in Seq(Letters) /\ Len(piece) = z + 1 - a /\ DOMAIN piece = 1 .. z + 1 - a
      /\ \A i \in 1 .. z + 1 - a : piece[i] = text[a + i - 1]
  BY <1>1, PieceIs
<1>6. /\ LastEnd(b, c) \in Nat \ {0}
      /\ \A i \in LastEnd(b, c) .. reach : text[i] = Blank
  BY DEF Assembled
<1> HIDE DEF text, piece, a, z, reach, new
<1>7. \A k \in DOMAIN b.chunks : ChunkTrue(b.chunks[k], b, n + 1, c)
  <2>1. 1 .. n \subseteq 1 .. n + 1
    BY <1>1
  <2> QED BY <2>1 DEF Assembled, ChunkTrue
<1>8. CASE Solid(piece) = {}
  <2>1. new = b
    BY <1>4, <1>5, <1>8, StripRight
  <2>2. \A i \in 1 .. z + 1 - a : piece[i] = Blank
    BY <1>5, <1>8 DEF Solid
  <2>3. ASSUME NEW i \in LastEnd(b, c) .. z PROVE text[i] = Blank
    <3>1. CASE i <= reach
      <4>1. i \in LastEnd(b, c) .. reach
        BY <1>2, <1>6, <3>1
      <4> QED BY <1>6, <4>1
    <3>2. CASE ~(i <= reach)
      <4>1. i + 1 - a \in 1 .. z + 1 - a /\ a + (i + 1 - a) - 1 = i
        BY <1>1, <1>2, <1>6, <3>2
      <4> QED BY <1>5, <2>2, <4>1
    <3> QED BY <3>1, <3>2
  <2>4. Assembled(b, n + 1, c)
    BY <1>2, <1>7, <2>3 DEF Assembled, text
  <2> QED BY <2>1, <2>4 DEF new, text, piece
<1>9. CASE Solid(piece) # {}
  <2>1. PICK f, l \in 1 .. Len(piece) :
          /\ f <= l /\ f = Min(Solid(piece)) /\ piece[f] # Blank
          /\ \A i \in 1 .. Len(piece) : i < f \/ i > l => piece[i] = Blank
          /\ stripped = SubSeq(piece, f, l)
    BY <1>5, <1>9, StripRight
  <2>2. /\ a \in Nat /\ z \in Nat /\ f \in Nat /\ l \in Nat /\ Len(text) \in Nat
        /\ 1 <= a /\ 1 <= f /\ f <= l /\ l <= z + 1 - a /\ z <= Len(text)
    BY <1>1, <1>2, <1>5, <2>1
  <2> DEFINE first == a + (f - 1)
             last == a + (l - 1)
  <2>3. /\ first \in Nat \ {0} /\ first \in 1 .. Len(text) /\ last \in first .. Len(text)
        /\ last \in 0 .. Len(text) /\ first <= last + 1 /\ last + 1 - first = l + 1 - f
        /\ a <= first /\ last <= z /\ last \in Nat
        /\ f \in 1 .. z + 1 - a /\ l \in 1 .. z + 1 - a /\ f \in Nat \ {0}
        /\ l \in 0 .. z + 1 - a /\ f <= l + 1
    BY <2>2
  <2>4. \A i \in 1 .. l + 1 - f : f + i - 1 \in 1 .. z + 1 - a /\ a + (f + i - 1) - 1 = first + i - 1
    BY <2>2
  <2>5. \A i \in a .. z : /\ i + 1 - a \in 1 .. z + 1 - a /\ a + (i + 1 - a) - 1 = i
                          /\ (i < first => i + 1 - a < f) /\ (i > last => i + 1 - a > l)
    BY <2>2
  <2>6. text[first] # Blank
    <3>1. a + f - 1 = first
      BY <2>2
    <3> QED BY <1>5, <2>1, <2>3, <3>1
  <2> HIDE DEF first, last, stripped, start, chunk
  <2>7. stripped = SubSeq(text, first, last) /\ Len(stripped) = l + 1 - f /\ stripped # << >>
        /\ stripped \in Seq(Letters)
    <3> DEFINE r == SubSeq(text, first, last)
               q == SubSeq(piece, f, l)
    <3>1. /\ q \in Seq(Letters) /\ Len(q) = l + 1 - f
          /\ \A i \in 1 .. l + 1 - f : q[i] = piece[f + i - 1]
      <4>1. piece \in Seq(Letters) /\ f \in Nat \ {0} /\ l \in 0 .. Len(piece) /\ f <= l + 1
        BY <1>5, <2>3
      <4> HIDE DEF r
      <4> QED BY <4>1, RunOf
    <3>2. /\ r \in Seq(Letters) /\ Len(r) = last + 1 - first
          /\ \A i \in 1 .. last + 1 - first : r[i] = text[first + i - 1]
      <4> HIDE DEF q
      <4> QED BY <1>1, <2>3, RunOf
    <3> HIDE DEF r, q
    <3>3. ASSUME NEW i \in 1 .. l + 1 - f PROVE q[i] = r[i]
      BY <1>5, <2>3, <2>4, <3>1, <3>2
    <3>4. q = r
      BY <2>3, <3>1, <3>2, <3>3, SeqEqual
    <3>5. l + 1 - f # 0
      BY <2>2
    <3>6. q # << >>
      BY <3>1, <3>5, EmptySeq
    <3> QED BY <2>1, <3>1, <3>4, <3>6 DEF q, r
  <2> DEFINE long == Len(stripped)
  <2>8. long = l + 1 - f /\ long \in Nat \ {0} /\ first + long = last + 1
    BY <2>2, <2>3, <2>7
  <2> HIDE DEF long
  <2>9. /\ start \in Nat
        /\ start # 0 => start >= b.cursor /\ SubSeq(text, start, start + long - 1) = stripped
    <3>1. b.cursor \in Nat
      BY <1>3
    <3> DEFINE from == b.cursor
    <3> HIDE DEF from
    <3>2. FindIn(text, stripped, from) \in Nat
      BY <1>1, <2>7, <3>1, FindNat DEF from
    <3>3. ASSUME FindIn(text, stripped, from) # 0
          PROVE  /\ FindIn(text, stripped, from) >= from
                 /\ SubSeq(text, FindIn(text, stripped, from), FindIn(text, stripped, from) + Len(stripped) - 1) = stripped
      <4>1. from \in Nat /\ text \in Seq(Letters) /\ stripped \in Seq(Letters)
        BY <1>1, <2>7, <3>1 DEF from
      <4> QED BY <3>3, <4>1, FindsTrue
    <3> QED BY <3>2, <3>3 DEF start, long, from
  <2>10. /\ chunk.index = n + 1 /\ chunk.meta = piece /\ chunk.text = stripped /\ chunk.start = start
         /\ OwnPlace(c, chunk) = first /\ EndOf(chunk) = start + long
         /\ stripped = Strip(piece) /\ chunk \in ChunkSet
    <3>1. chunk.index = n + 1 /\ chunk.meta = piece /\ chunk.text = stripped /\ chunk.start = start
      BY DEF chunk
    <3>2. Lead(piece) = f - 1
      BY <2>1 DEF Lead, Solid
    <3>3. OwnPlace(c, chunk) = first
      BY <3>1, <3>2 DEF OwnPlace, first, a, piece
    <3>4. EndOf(chunk) = start + long
      BY <3>1 DEF EndOf, long
    <3>5. chunk \in ChunkSet
      BY <1>1, <1>5, <2>7, <2>9 DEF chunk, ChunkSet
    <3> QED BY <3>1, <3>3, <3>4, <3>5 DEF stripped
  <2>11. /\ new.chunks = Append(b.chunks, chunk)
         /\ new.cursor = IF start = 0 THEN b.cursor ELSE start + long
         /\ new.cursor \in Nat \ {0} /\ b.cursor <= new.cursor
    <3>1. /\ new.chunks = Append(b.chunks, chunk)
          /\ new.cursor = IF start = 0 THEN b.cursor ELSE start + long
      BY <1>4, <2>7 DEF long
    <3>2. new.cursor \in Nat \ {0} /\ b.cursor <= new.cursor
      <4>1. CASE start = 0
        BY <1>3, <3>1, <4>1
      <4>2. CASE start # 0
        <5> DEFINE from == b.cursor
        <5>1. from \in Nat \ {0} /\ start >= from /\ start \in Nat /\ new.cursor = start + long
          BY <1>3, <2>9, <3>1, <4>2
        <5> HIDE DEF from
        <5>2. start + long \in Nat \ {0} /\ from <= start + long
          BY <2>8, <5>1
        <5> QED BY <5>1, <5>2 DEF from
      <4> QED BY <4>1, <4>2
    <3> QED BY <3>1, <3>2
  <2>12. /\ DOMAIN new.chunks = 1 .. K + 1 /\ Len(new.chunks) = K + 1 /\ new.chunks # << >>
         /\ \A j \in 1 .. K : new.chunks[j] = b.chunks[j]
         /\ new.chunks[K + 1] = chunk
    <3>1. new.chunks = Append(b.chunks, chunk) /\ chunk \in ChunkSet
      BY <2>10, <2>11
    <3> HIDE DEF K
    <3>2. new.chunks \in Seq(ChunkSet) /\ Len(new.chunks) = K + 1
      BY <1>3, <3>1, AppendProperties DEF K
    <3>3. (\A j \in 1 .. K : new.chunks[j] = b.chunks[j]) /\ new.chunks[K + 1] = chunk
      BY <1>3, <3>1, AppendProperties DEF K
    <3>4. DOMAIN new.chunks = 1 .. K + 1 /\ new.chunks # << >>
      BY <1>3, <3>2, EmptySeq
    <3> QED BY <3>2, <3>3, <3>4
  <2> HIDE DEF K
  \* From where the last chunk's own place ends there are blanks up to this one's.
  <2>13. ASSUME NEW i \in LastEnd(b, c) .. first - 1 PROVE text[i] = Blank
    <3>1. CASE i <= reach
      <4>1. i \in LastEnd(b, c) .. reach
        BY <1>2, <1>6, <3>1
      <4> QED BY <1>6, <4>1
    <3>2. CASE ~(i <= reach)
      <4>1. i \in a .. z /\ i < first
        BY <1>2, <1>6, <2>2, <2>3, <3>2
      <4>2. i + 1 - a \in 1 .. Len(piece) /\ i + 1 - a < f
        BY <1>5, <2>5, <4>1
      <4>3. piece[i + 1 - a] = Blank
        BY <2>1, <4>2
      <4> QED BY <1>5, <2>5, <4>1, <4>3
    <3> QED BY <3>1, <3>2
  <2>14. ASSUME b.cursor = LastEnd(b, c), b.cursor <= first PROVE start = first
    <3>1. b.cursor \in 1 .. first /\ \A i \in b.cursor .. first - 1 : text[i] = Blank
      BY <1>3, <2>3, <2>13, <2>14
    <3>2. FindIn(text, SubSeq(text, first, last), b.cursor) = first
      BY <1>1, <2>3, <2>6, <3>1, FindsOwn
    <3> QED BY <2>7, <3>2 DEF start
  <2>15. AtOwn(chunk, c) <=> start = first
    BY <2>10 DEF AtOwn
  <2>16. LastEnd(new, c) = last + 1
    BY <2>8, <2>10, <2>12 DEF LastEnd, long
  <2>17. /\ LastEnd(new, c) \in Nat \ {0} /\ \A i \in LastEnd(new, c) .. z : text[i] = Blank
    <3>1. ASSUME NEW i \in last + 1 .. z PROVE text[i] = Blank
      <4>1. i \in a .. z /\ i > last
        BY <2>2, <2>3
      <4>2. i + 1 - a \in 1 .. Len(piece) /\ i + 1 - a > l
        BY <1>5, <2>5, <4>1
      <4>3. piece[i + 1 - a] = Blank
        BY <2>1, <4>2
      <4> QED BY <1>5, <2>5, <4>1, <4>3
    <3>2. last + 1 \in Nat \ {0}
      BY <2>3
    <3> QED BY <2>16, <3>1, <3>2
  <2>18. AtOwn(chunk, c) => new.cursor = LastEnd(new, c)
    BY <2>3, <2>8, <2>11, <2>15, <2>16
  <2>19. ASSUME NEW k \in 1 .. K + 1 PROVE ChunkTrue(new.chunks[k], new, n + 1, c)
    <3>1. CASE k \in 1 .. K
      <4>1. new.chunks[k] = b.chunks[k] /\ ChunkTrue(b.chunks[k], b, n + 1, c) /\ b.chunks[k] \in ChunkSet
        BY <1>3, <1>7, <2>12, <3>1, ElementOfSeq DEF K
      <4> DEFINE x == b.chunks[k]
      <4>2. x.start # 0 => EndOf(x) <= b.cursor
        BY <4>1 DEF ChunkTrue
      <4>3. EndOf(x) \in Nat
        <5>1. x.start \in Nat /\ x.text \in Seq(Letters)
          BY <4>1 DEF ChunkSet
        <5>2. Len(x.text) \in Nat
          BY <5>1
        <5> HIDE DEF x
        <5> QED BY <5>1, <5>2 DEF EndOf
      <4> HIDE DEF x
      <4>4. x.start # 0 => EndOf(x) <= new.cursor
        BY <1>3, <2>11, <4>2, <4>3
      <4> QED BY <4>1, <4>4 DEF ChunkTrue, x
    <3>2. CASE k = K + 1
      <4>1. new.chunks[k] = chunk /\ n + 1 \in 1 .. n + 1
        BY <1>1, <2>12, <3>2
      <4>2. start # 0 => SubSeq(text, start, EndOf(chunk) - 1) = stripped /\ EndOf(chunk) <= new.cursor
        BY <2>8, <2>9, <2>10, <2>11
      <4> QED BY <2>10, <4>1, <4>2 DEF ChunkTrue, text, piece
    <3> QED BY <1>3, <3>1, <3>2
  <2>20. ASSUME NEW j \in 1 .. K + 1, NEW k \in 1 .. K + 1, j < k
         PROVE  Apart2(new.chunks[j], new.chunks[k])
    <3>1. j \in 1 .. K /\ new.chunks[j] = b.chunks[j] /\ b.chunks[j] \in ChunkSet
      <4>1. j \in 1 .. K
        BY <1>3, <2>20
      <4> QED BY <1>3, <2>12, <4>1, ElementOfSeq DEF K
    <3>2. CASE k \in 1 .. K
      BY <1>3, <2>12, <2>20, <3>1, <3>2 DEF Assembled
    <3>3. CASE k = K + 1
      <4> DEFINE x == b.chunks[j]
      <4>1. x.start # 0 => EndOf(x) <= b.cursor
        BY <1>3, <1>7, <3>1 DEF ChunkTrue
      <4>2. EndOf(x) \in Nat
        <5>1. x.start \in Nat /\ x.text \in Seq(Letters)
          BY <3>1 DEF ChunkSet
        <5>2. Len(x.text) \in Nat
          BY <5>1
        <5> HIDE DEF x
        <5> QED BY <5>1, <5>2 DEF EndOf
      <4> HIDE DEF x
      <4>3. x.start # 0 /\ start # 0 => EndOf(x) <= start
        BY <1>3, <2>9, <4>1, <4>2
      <4> QED BY <2>10, <2>12, <3>1, <3>3, <4>3 DEF Apart2, x
    <3> QED BY <1>3, <3>2, <3>3
  <2>21. ASSUME NEW k \in 1 .. K + 1
         PROVE  IF k = 1 THEN AtOwn(new.chunks[k], c) ELSE Follows(new.chunks[k - 1], new.chunks[k], c)
    <3>1. CASE k \in 1 .. K
      <4>1. k # 1 => k - 1 \in 1 .. K
        BY <1>3, <3>1
      <4> QED BY <1>3, <2>12, <3>1, <4>1 DEF Assembled
    <3>2. CASE k = K + 1 /\ K = 0
      <4>1. b.chunks = << >>
        BY <1>3, <3>2 DEF K
      <4>2. b.cursor = 1 /\ LastEnd(b, c) = 1
        BY <4>1 DEF Assembled, LastEnd
      <4>3. start = first
        BY <2>3, <2>14, <4>2
      <4> QED BY <2>12, <2>15, <3>2, <4>3
    <3>3. CASE k = K + 1 /\ K # 0
      <4> DEFINE x == b.chunks[K]
      <4>1. K \in 1 .. K /\ k - 1 = K /\ k # 1
        BY <1>3, <3>3
      <4>2. new.chunks[k - 1] = x /\ new.chunks[k] = chunk /\ x \in ChunkSet
        BY <1>3, <2>12, <3>3, <4>1, ElementOfSeq DEF K
      <4>3. b.chunks # << >>
        BY <1>3, <3>3, EmptySeq DEF K
      <4>4. LastEnd(b, c) = OwnPlace(c, x) + Len(x.text)
        BY <4>3 DEF LastEnd, K
      <4>5. ASSUME AtOwn(x, c) PROVE AtOwn(chunk, c) <=> EndOf(x) <= OwnPlace(c, chunk)
        <5>1. b.cursor = LastEnd(b, c)
          BY <4>3, <4>5 DEF Assembled, K
        <5>2. EndOf(x) = b.cursor
          BY <4>4, <4>5, <5>1 DEF EndOf, AtOwn
        <5>3. CASE b.cursor <= first
          BY <2>10, <2>14, <2>15, <5>1, <5>2, <5>3
        <5>4. CASE ~(b.cursor <= first)
          <6>1. start # first
            BY <1>3, <2>3, <2>9, <5>4
          <6> QED BY <2>10, <2>15, <5>2, <5>4, <6>1
        <5> QED BY <5>3, <5>4
      <4> HIDE DEF x
      <4>6. Follows(x, chunk, c)
        BY <4>5 DEF Follows
      <4> QED BY <4>1, <4>2, <4>6
    <3> QED BY <1>3, <3>1, <3>2, <3>3
  <2>22. /\ \A k \in DOMAIN new.chunks : ChunkTrue(new.chunks[k], new, n + 1, c)
         /\ \A j, k \in DOMAIN new.chunks : j < k => Apart2(new.chunks[j], new.chunks[k])
         /\ \A k \in DOMAIN new.chunks :
              IF k = 1 THEN AtOwn(new.chunks[k], c) ELSE Follows(new.chunks[k - 1], new.chunks[k], c)
    BY <2>12, <2>19, <2>20, <2>21
  <2>23. /\ new.cursor # 0 /\ new.chunks # << >>
         /\ AtOwn(new.chunks[Len(new.chunks)], c) => new.cursor = LastEnd(new, c)
    BY <2>11, <2>12, <2>18
  <2>24. Assembled(new, n + 1, c)
    BY <1>2, <2>17, <2>22, <2>23 DEF Assembled, text
  <2> QED BY <2>24 DEF new, text, piece
<1> QED BY <1>8, <1>9

\* The chunks of a text are what is known after the last piece.
LEMMA ChunksBuilt ==
  ASSUME ChunkingAssumption, NEW c, CutRight(c)
  PROVE  \E b \in AssemblySet :
           /\ BuildChunks(c.text, Pieces(c), Pieces(c)) = b.chunks
           /\ Assembled(b, Len(c.begin), c)
<1> DEFINE L == Len(c.begin)
           pieces == Pieces(c)
           text == c.text
           none == [chunks |-> << >>, cursor |-> 1]
           Turn(b, n) == AddPiece(b, text, pieces[n], pieces[n], n)
           Fun(g) == [n \in 0 .. L |-> IF n = 0 THEN none ELSE Turn(g[n - 1], n)]
           built == CHOOSE g : g = Fun(g)
           step == [n \in 1 .. L |-> [b \in AssemblySet |-> Turn(b, n)]]
<1>1. /\ text \in Seq(Letters) /\ Len(text) \in Nat /\ L \in Nat /\ DOMAIN c.begin = 1 .. L
  BY PiecesLie
<1>2. /\ pieces = [i \in 1 .. L |-> Piece(c, i)] /\ Len(pieces) = L
      /\ \A n \in 1 .. L : pieces[n] = Piece(c, n)
  BY <1>1 DEF Pieces
<1>3. \A n \in 1 .. L : Piece(c, n) \in Seq(Letters)
  BY PieceIs
<1>4. BuildChunks(text, pieces, pieces) = built[L].chunks
  <2> HIDE DEF pieces, text, L
  <2> QED BY <1>2 DEF BuildChunks
<1> HIDE DEF L, pieces, text
<1>5. none \in AssemblySet
  BY EmptySeq DEF AssemblySet
<1>6. \A n \in 1 .. L : \A b \in AssemblySet : Turn(b, n) \in AssemblySet
  <2>1. ASSUME NEW n \in 1 .. L, NEW b \in AssemblySet PROVE Turn(b, n) \in AssemblySet
    <3>1. n \in Nat /\ pieces[n] \in Seq(Letters)
      BY <1>1, <1>2, <1>3
    <3> QED BY <1>1, <3>1, AddPieceTyped
  <2> HIDE DEF Turn
  <2> QED BY <2>1
<1> HIDE DEF none, Turn
<1>7. step \in [1 .. L -> [AssemblySet -> AssemblySet]] /\ \A n \in 1 .. L, b \in AssemblySet : step[n][b] = Turn(b, n)
  BY <1>6
<1> HIDE DEF step
<1>8. \E g : g = Fun(g)
  <2>1. PICK g : Iterated(g, L, AssemblySet, none, step)
    BY <1>1, <1>5, <1>7, Iterates
  <2>2. g \in [0 .. L -> AssemblySet] /\ g[0] = none /\ \A n \in 1 .. L : g[n] = step[n][g[n - 1]]
    BY <2>1 DEF Iterated
  <2>3. ASSUME NEW n \in 0 .. L PROVE g[n] = IF n = 0 THEN none ELSE Turn(g[n - 1], n)
    <3>1. CASE n = 0
      BY <2>2, <3>1
    <3>2. CASE n # 0
      <4>1. n \in 1 .. L /\ n - 1 \in 0 .. L
        BY <1>1, <3>2
      <4>2. g[n - 1] \in AssemblySet
        BY <2>2, <4>1
      <4> QED BY <1>7, <2>2, <3>2, <4>1, <4>2
    <3> QED BY <3>1, <3>2
  <2>4. g = Fun(g)
    BY <2>2, <2>3
  <2> QED BY <2>4
<1>9. built = Fun(built)
  <2> HIDE DEF Fun
  <2> QED BY <1>8
<1> HIDE DEF built
<1>10. built[0] = none /\ \A n \in 1 .. L : built[n] = Turn(built[n - 1], n)
  <2>1. \A n \in 0 .. L : built[n] = IF n = 0 THEN none ELSE Turn(built[n - 1], n)
    BY <1>9
  <2>2. 0 \in 0 .. L /\ \A n \in 1 .. L : n \in 0 .. L /\ n # 0
    BY <1>1
  <2> HIDE DEF Fun
  <2> QED BY <2>1, <2>2
<1> HIDE DEF Fun
<1> DEFINE Done(n) == built[n] \in AssemblySet /\ Assembled(built[n], n, c)
           S == {n \in 0 .. L : Done(n)}
<1>11. Done(0)
  <2>1. Reach(c, 0) = 0
    BY DEF Reach
  <2>2. none.cursor = 1 /\ none.chunks = << >> /\ DOMAIN << >> = {} /\ 1 .. 0 = {}
    BY DEF none
  <2>3. LastEnd(none, c) = 1
    BY <2>2 DEF LastEnd
  <2>4. Assembled(none, 0, c)
    BY <2>1, <2>2, <2>3 DEF Assembled
  <2> QED BY <1>5, <1>10, <2>4
<1>12. ASSUME NEW n \in 0 .. L - 1, Done(n) PROVE Done(n + 1)
  <2>1. n + 1 \in 1 .. L /\ (n + 1) - 1 = n /\ n \in 0 .. Len(c.begin) - 1
    BY <1>1 DEF L
  <2>2. built[n + 1] = Turn(built[n], n + 1)
    BY <1>10, <2>1
  <2>3. built[n + 1] \in AssemblySet
    BY <1>6, <1>12, <2>1, <2>2
  <2>4. built[n + 1] = AddPiece(built[n], c.text, Piece(c, n + 1), Piece(c, n + 1), n + 1)
    BY <1>2, <2>1, <2>2 DEF Turn, text
  <2> QED BY <1>12, <2>1, <2>3, <2>4, AssembledNext
<1> HIDE DEF Done
<1>13. 0 \in S /\ \A n \in 0 .. L - 1 : n \in S => n + 1 \in S
  <2>1. 0 \in 0 .. L /\ \A n \in 0 .. L - 1 : n + 1 \in 0 .. L
    BY <1>1
  <2> QED BY <1>11, <1>12, <2>1
<1>14. Done(L)
  <2> HIDE DEF S
  <2>1. 0 .. L \subseteq S
    BY <1>1, <1>13, UpTo
  <2>2. L \in S
    BY <1>1, <2>1
  <2> QED BY <2>2 DEF S
<1> QED BY <1>4, <1>14 DEF Done, L, pieces, text

\* Spans are true, one after the other, and their own as far as overlaps allow.
LEMMA SpansFound ==
  ASSUME ChunkingAssumption, CutRight(cut)
  PROVE  SpansTrue /\ SpansOwn
<1> DEFINE chunks == Chunks(cut)
<1>1. PICK b \in AssemblySet : chunks = b.chunks /\ Assembled(b, Len(cut.begin), cut)
  BY ChunksBuilt DEF Chunks
<1> HIDE DEF chunks
<1>2. /\ \A k \in DOMAIN chunks : ChunkTrue(chunks[k], b, Len(cut.begin), cut)
      /\ \A j, k \in DOMAIN chunks : j < k => Apart2(chunks[j], chunks[k])
      /\ \A k \in DOMAIN chunks :
           IF k = 1 THEN AtOwn(chunks[k], cut) ELSE Follows(chunks[k - 1], chunks[k], cut)
  BY <1>1 DEF Assembled
<1>3. SpansTrue
  BY <1>2 DEF SpansTrue, ChunkTrue, Apart2, chunks
<1>4. SpansOwn
  BY <1>2 DEF SpansOwn, AtOwn, Follows, chunks
<1> QED BY <1>3, <1>4

-----------------------------------------------------------------------------
LEMMA DivRight ==
  ASSUME NEW a \in Nat, NEW b \in Nat \ {0}
  PROVE  a \div b \in Nat /\ a % b \in 0 .. b - 1 /\ a = b * (a \div b) + (a % b)
OBVIOUS

\* Groups lie side by side.
GroupsSide(s, size) ==
  LET groups == Groups(s, size)
      Place(g, k) == (g - 1) * size + k
  IN  /\ \A g \in DOMAIN groups : Len(groups[g]) <= size /\ \A k \in DOMAIN groups[g] :
           Place(g, k) \in DOMAIN s /\ groups[g][k] = s[Place(g, k)]
      /\ \A i \in DOMAIN s : \E g \in DOMAIN groups : \E k \in DOMAIN groups[g] : Place(g, k) = i

LEMMA GroupsRight ==
  ASSUME NEW T, NEW s \in Seq(T), NEW size \in Nat \ {0}
  PROVE  GroupsSide(s, size)
<1> DEFINE N == Len(s)
           many == (N + size - 1) \div size
           groups == Groups(s, size)
           Last_(g) == IF g * size <= N THEN g * size ELSE N
<1>1. N \in Nat /\ DOMAIN s = 1 .. N
  OBVIOUS
<1> HIDE DEF N
<1>2. /\ many \in Nat /\ (N + size - 1) % size \in 0 .. size - 1
      /\ N + size - 1 = size * many + ((N + size - 1) % size)
  <2>1. N + size - 1 \in Nat
    BY <1>1
  <2> QED BY <2>1, DivRight
<1> HIDE DEF many
<1>3. size * many >= N /\ size * many < N + size
  BY <1>1, <1>2
<1>4. \A g \in 1 .. many : /\ (g - 1) * size \in Nat /\ g * size = (g - 1) * size + size
                           /\ (g - 1) * size + size <= size * many
  <2>1. ASSUME NEW g \in 1 .. many
        PROVE  /\ (g - 1) * size \in Nat /\ g * size = (g - 1) * size + size
               /\ (g - 1) * size + size <= size * many
    <3>1. PICK d \in Nat : many = g + d
      <4>1. many - g \in Nat /\ many = g + (many - g)
        BY <1>2
      <4> QED BY <4>1
    <3>2. PICK h \in Nat : g = h + 1
      <4>1. g - 1 \in Nat /\ g = (g - 1) + 1
        OBVIOUS
      <4> QED BY <4>1
    <3>3. h * size \in Nat /\ d * size \in Nat /\ (h + 1) * size = h * size + size
          /\ size * (h + 1 + d) = h * size + size + d * size /\ (h + 1) - 1 = h
      BY <3>1, <3>2
    <3> QED BY <3>1, <3>2, <3>3
  <2> QED BY <2>1
<1>5. ASSUME NEW g \in 1 .. many PROVE (g - 1) * size < N
  <2> DEFINE base == (g - 1) * size
             whole == size * many
  <2>1. whole \in Int /\ whole < N + size
    BY <1>2, <1>3
  <2>2. base \in Int /\ base + size <= whole
    BY <1>4
  <2> HIDE DEF base, whole
  <2>3. base < N
    BY <1>1, <2>1, <2>2
  <2> QED BY <2>3 DEF base
<1>6. groups = [g \in 1 .. many |-> SubSeq(s, (g - 1) * size + 1, Min({g * size, N}))]
  BY DEF Groups, many, N
<1>7. ASSUME NEW g \in 1 .. many
      PROVE  /\ Last_(g) \in 0 .. N /\ (g - 1) * size + 1 \in Nat \ {0} /\ (g - 1) * size + 1 <= Last_(g) + 1
             /\ groups[g] \in Seq(T) /\ Len(groups[g]) = Last_(g) - (g - 1) * size
             /\ DOMAIN groups[g] = 1 .. Last_(g) - (g - 1) * size
             /\ \A k \in 1 .. Last_(g) - (g - 1) * size : groups[g][k] = s[(g - 1) * size + k]
  <2> DEFINE base == (g - 1) * size
             last == Last_(g)
  <2>1. base \in Nat /\ g * size = base + size /\ base < N
    BY <1>4, <1>5
  <2> HIDE DEF base
  <2>2. last \in 0 .. N /\ base + 1 \in Nat \ {0} /\ base + 1 <= last + 1 /\ last + 1 - (base + 1) = last - base
    BY <1>1, <2>1
  <2>3. Min({g * size, N}) = last
    <3>1. g * size \in Int /\ N \in Int
      BY <1>1, <2>1
    <3> QED BY <3>1, MinOfTwo
  <2>4. groups[g] = SubSeq(s, base + 1, last)
    BY <1>6, <2>3 DEF base
  <2> HIDE DEF last, groups
  <2>5. /\ groups[g] \in Seq(T) /\ Len(groups[g]) = last + 1 - (base + 1) /\ DOMAIN groups[g] = 1 .. last + 1 - (base + 1)
        /\ \A k \in 1 .. last + 1 - (base + 1) : groups[g][k] = s[(base + 1) + k - 1]
    BY <2>2, <2>4, RunOf DEF N
  <2>6. \A k \in Nat : (base + 1) + k - 1 = base + k
    BY <2>1
  <2>7. last - base \in Nat /\ 1 .. last - base \subseteq Nat
    BY <2>1, <2>2
  <2>8. /\ groups[g] \in Seq(T) /\ Len(groups[g]) = last - base /\ DOMAIN groups[g] = 1 .. last - base
        /\ \A k \in 1 .. last - base : groups[g][k] = s[base + k]
    BY <2>2, <2>5, <2>6, <2>7
  <2> QED BY <2>2, <2>8 DEF base, last
<1> HIDE DEF groups
<1>8. DOMAIN groups = 1 .. many
  BY <1>6
<1>9. ASSUME NEW g \in DOMAIN groups
      PROVE  Len(groups[g]) <= size /\ \A k \in DOMAIN groups[g] :
               (g - 1) * size + k \in DOMAIN s /\ groups[g][k] = s[(g - 1) * size + k]
  <2> DEFINE base == (g - 1) * size
  <2>1. g \in 1 .. many
    BY <1>8
  <2>2. base \in Nat /\ g * size = base + size /\ base < N
    BY <1>4, <1>5, <2>1
  <2>3. /\ Last_(g) \in 0 .. N /\ Len(groups[g]) = Last_(g) - base
        /\ DOMAIN groups[g] = 1 .. Last_(g) - base
        /\ \A k \in 1 .. Last_(g) - base : groups[g][k] = s[base + k]
    BY <1>7, <2>1
  <2> HIDE DEF base
  <2>4. Last_(g) <= base + size
    BY <1>1, <2>2
  <2> HIDE DEF Last_
  <2>5. Len(groups[g]) <= size
    BY <1>1, <2>2, <2>3, <2>4
  <2>6. \A k \in 1 .. Last_(g) - base : base + k \in 1 .. N
    BY <1>1, <2>2, <2>3
  <2> QED BY <1>1, <2>3, <2>5, <2>6 DEF base
<1>10. ASSUME NEW i \in DOMAIN s
       PROVE  \E g \in DOMAIN groups : \E k \in DOMAIN groups[g] : (g - 1) * size + k = i
  <2> DEFINE q == (i - 1) \div size
             r == (i - 1) % size
             g == q + 1
             k == r + 1
  <2>1. i \in 1 .. N /\ i - 1 \in Nat
    BY <1>1
  <2>2. q \in Nat /\ r \in 0 .. size - 1 /\ i - 1 = size * q + r
    BY <2>1, DivRight
  <2> HIDE DEF q, r
  <2>3. g \in 1 .. many
    <3>1. CASE many <= q
      <4>1. PICK d \in Nat : q = many + d
        <5>1. q - many \in Nat /\ q = many + (q - many)
          BY <1>2, <2>2, <3>1
        <5> QED BY <5>1
      <4>2. size * (many + d) = size * many + size * d /\ size * d \in Nat /\ size * many \in Nat
        BY <1>2
      <4> QED BY <1>1, <1>3, <2>1, <2>2, <4>1, <4>2
    <3>2. CASE ~(many <= q)
      BY <1>2, <2>2, <3>2
    <3> QED BY <3>1, <3>2
  <2>4. (g - 1) * size + k = i /\ g * size = size * q + size
    <3>1. g - 1 = q /\ q * size = size * q /\ (q + 1) * size = size * q + size /\ size * q \in Nat
      BY <2>2
    <3> QED BY <2>1, <2>2, <3>1
  <2>5. k \in DOMAIN groups[g]
    <3>1. DOMAIN groups[g] = 1 .. Last_(g) - (g - 1) * size
      BY <1>7, <2>3
    <3>2. g - 1 = q /\ (g - 1) * size = size * q /\ size * q \in Nat
      BY <2>2
    <3>3. k \in 1 .. size /\ size * q + k <= N
      BY <1>1, <2>1, <2>2
    <3>4. k \in 1 .. Last_(g) - size * q
      BY <1>1, <2>4, <3>2, <3>3
    <3> QED BY <3>1, <3>2, <3>4
  <2> QED BY <1>8, <2>3, <2>4, <2>5
<1> QED BY <1>9, <1>10 DEF GroupsSide, groups

\* A window has its sentence in the place its width says, and nothing but neighbours.
WindowRight(s, n, i) ==
  LET w == Windows(s, n)[i] at == Min({i, n + 1}) IN
  /\ w[at] = s[i]
  /\ Len(w) = Cardinality({j \in DOMAIN s : j + n >= i /\ j <= i + n})

LEMMA WindowsRight ==
  ASSUME NEW T, NEW s \in Seq(T), NEW n \in Nat, NEW i \in DOMAIN s
  PROVE  WindowRight(s, n, i)
<1> DEFINE N == Len(s)
           lo == IF 1 <= i - n THEN i - n ELSE 1
           hi == IF N <= i + n THEN N ELSE i + n
           w == Windows(s, n)[i]
           at == IF i <= n + 1 THEN i ELSE n + 1
           near == {j \in DOMAIN s : j + n >= i /\ j <= i + n}
<1>1. N \in Nat /\ DOMAIN s = 1 .. N
  OBVIOUS
<1> HIDE DEF N
<1>2. i \in 1 .. N
  BY <1>1
<1>3. lo \in 1 .. N /\ hi \in lo .. N /\ hi \in 0 .. N /\ lo \in Nat \ {0} /\ lo <= hi + 1
  BY <1>1, <1>2
<1>4. at \in 1 .. hi + 1 - lo /\ lo + at - 1 = i
  BY <1>1, <1>2
<1>5. w = SubSeq(s, lo, hi)
  <2>1. 1 \in Int /\ i - n \in Int /\ N \in Int /\ i + n \in Int
    BY <1>1, <1>2
  <2>2. Max({1, i - n}) = lo /\ Min({N, i + n}) = hi
    BY <2>1, MaxOfTwo, MinOfTwo
  <2> HIDE DEF lo, hi
  <2> QED BY <2>2 DEF Windows, N
<1>6. Min({i, n + 1}) = at
  <2>1. i \in Int /\ n + 1 \in Int
    BY <1>2
  <2> QED BY <2>1, MinOfTwo
<1>7. near = lo .. hi
  <2>1. ASSUME NEW j \in near PROVE j \in lo .. hi
    BY <1>1, <1>2
  <2>2. ASSUME NEW j \in lo .. hi PROVE j \in near
    BY <1>1, <1>2
  <2> HIDE DEF near, lo, hi
  <2> QED BY <2>1, <2>2
<1> HIDE DEF lo, hi, w, at, near
<1>8. /\ Len(w) = hi + 1 - lo /\ \A m \in 1 .. hi + 1 - lo : w[m] = s[lo + m - 1]
  BY <1>3, <1>5, RunOf DEF N
<1>9. Cardinality(lo .. hi) = hi + 1 - lo
  <2>1. lo \in Int /\ hi \in Int /\ ~(lo > hi) /\ hi - lo + 1 = hi + 1 - lo
    BY <1>1, <1>3
  <2>2. Cardinality(lo .. hi) = IF lo > hi THEN 0 ELSE hi - lo + 1
    BY <2>1, FS_Interval
  <2> QED BY <2>1, <2>2
<1>10. w[at] = s[i]
  BY <1>4, <1>8
<1> QED BY <1>6, <1>7, <1>8, <1>9, <1>10 DEF WindowRight, w, near

LEMMA WindowsGood ==
  ASSUME ChunkingAssumption, CutRight(cut)
  PROVE  WindowsComplete
<1>1. cut.text \in Seq(Letters)
  BY PiecesLie
<1>2. \A n \in 0 .. MaxWindow : n \in Nat /\ n + 1 \in Nat \ {0}
  BY DEF ChunkingAssumption
<1>3. ASSUME NEW n \in 0 .. MaxWindow, NEW i \in DOMAIN cut.text PROVE WindowRight(cut.text, n, i)
  BY <1>1, <1>2, WindowsRight
<1>4. ASSUME NEW n \in 0 .. MaxWindow PROVE GroupsSide(cut.text, n + 1)
  <2>1. n + 1 \in Nat \ {0}
    BY <1>2
  <2> QED BY <1>1, <2>1, GroupsRight
<1> QED BY <1>3, <1>4 DEF WindowsComplete, WindowRight, GroupsSide

\* ChunkingSpec => []ChunksSound: however a text of any length is cut, with overlaps
\* or without, spans are true and in order, every chunk cites the place it was cut
\* from exactly as long as nothing overlaps, and windows and groups of any size leave
\* no sentence out.
THEOREM ChunksHold == ChunkingSpec => []ChunksSound
<1>1. CutRight(cut) => ChunksSound
  BY ChunkingAssumption, SpansFound, WindowsGood DEF ChunksSound
<1>2. CutRight(cut) /\ [UNCHANGED cut]_cut => CutRight(cut)'
  BY DEF CutRight, Covers
<1>3. ChunkingInit => CutRight(cut)
  BY DEF ChunkingInit, CutRight
<1> QED BY <1>1, <1>2, <1>3, PTL DEF ChunkingSpec

-----------------------------------------------------------------------------
(***************************************************************************)
(* The corpus.  A text is its chunks, and between two of them there is a   *)
(* line break or none: a line never reaches from one into the next, and    *)
(* no line begins between them.                                            *)
(***************************************************************************)

Characters == {Newline} \cup (UNION {Range(t) : t \in ChunkTexts})
Parts == PaperIds \cup (UNION {Range(p) : p \in Places})
ChunkSpan == [text : Seq(Characters), start : Nat, end : Nat]
DocSet == [id : PaperIds, path : Seq(Parts), text : Seq(Characters), acl : SUBSET Readers,
           chunks : Seq(ChunkSpan)]

\* A chunk stands where its offsets say, on a line of its own, and no line goes on after it.
Standing(d, c) ==
  /\ c.start < c.end /\ c.end <= Len(d.text) /\ c.end = c.start + Len(c.text)
  /\ \A i \in 1 .. Len(c.text) : d.text[c.start + i] = c.text[i]
  /\ c.start = 0 \/ d.text[c.start] = Newline
  /\ c.end = Len(d.text) \/ d.text[c.end] = Newline \/ d.text[c.end + 1] = Newline

\* What no chunk covers is not where a line begins.
Settled(d) ==
  /\ \A k \in DOMAIN d.chunks : Standing(d, d.chunks[k])
  /\ \A k \in DOMAIN d.chunks : k > 1 => d.chunks[k - 1].end <= d.chunks[k].start
  /\ \A o \in 0 .. Len(d.text) - 1 :
       \/ \E k \in DOMAIN d.chunks : d.chunks[k].start <= o /\ o < d.chunks[k].end
       \/ o > 0 /\ d.text[o] # Newline

\* Two texts, one after the other, and three.
LEMMA TwoTexts ==
  ASSUME NEW T, NEW a \in Seq(T), NEW b \in Seq(T)
  PROVE  /\ a \o b \in Seq(T) /\ Len(a \o b) = Len(a) + Len(b)
         /\ \A i \in 1 .. Len(a) : (a \o b)[i] = a[i]
         /\ \A i \in 1 .. Len(b) : (a \o b)[Len(a) + i] = b[i]
<1>1. Len(a) \in Nat /\ Len(b) \in Nat
  OBVIOUS
<1> QED BY <1>1, ConcatProperties

LEMMA ThreeTexts ==
  ASSUME NEW T, NEW a \in Seq(T), NEW b \in Seq(T), NEW c \in Seq(T)
  PROVE  /\ a \o b \o c \in Seq(T) /\ Len(a \o b \o c) = Len(a) + Len(b) + Len(c)
         /\ \A i \in 1 .. Len(a) : (a \o b \o c)[i] = a[i]
         /\ \A i \in 1 .. Len(b) : (a \o b \o c)[Len(a) + i] = b[i]
         /\ \A i \in 1 .. Len(c) : (a \o b \o c)[Len(a) + Len(b) + i] = c[i]
<1>1. Len(a) \in Nat /\ Len(b) \in Nat /\ Len(c) \in Nat
  OBVIOUS
<1>2. PICK ab \in Seq(T) :
        /\ ab = a \o b /\ Len(ab) = Len(a) + Len(b)
        /\ \A i \in 1 .. Len(a) : ab[i] = a[i]
        /\ \A i \in 1 .. Len(b) : ab[Len(a) + i] = b[i]
  <2>1. /\ a \o b \in Seq(T) /\ Len(a \o b) = Len(a) + Len(b)
        /\ \A i \in 1 .. Len(a) : (a \o b)[i] = a[i]
        /\ \A i \in 1 .. Len(b) : (a \o b)[Len(a) + i] = b[i]
    BY TwoTexts
  <2> WITNESS a \o b \in Seq(T)
  <2> QED BY <2>1
<1>3. PICK abc \in Seq(T) :
        /\ abc = ab \o c /\ Len(abc) = Len(ab) + Len(c)
        /\ \A i \in 1 .. Len(ab) : abc[i] = ab[i]
        /\ \A i \in 1 .. Len(c) : abc[Len(ab) + i] = c[i]
  <2>1. /\ ab \o c \in Seq(T) /\ Len(ab \o c) = Len(ab) + Len(c)
        /\ \A i \in 1 .. Len(ab) : (ab \o c)[i] = ab[i]
        /\ \A i \in 1 .. Len(c) : (ab \o c)[Len(ab) + i] = c[i]
    BY TwoTexts
  <2> WITNESS ab \o c \in Seq(T)
  <2> QED BY <2>1
<1>4. /\ \A i \in 1 .. Len(a) : i \in 1 .. Len(ab)
      /\ \A i \in 1 .. Len(b) : Len(a) + i \in 1 .. Len(ab)
  BY <1>1, <1>2
<1>5. /\ abc \in Seq(T) /\ Len(abc) = Len(a) + Len(b) + Len(c)
      /\ \A i \in 1 .. Len(a) : abc[i] = a[i]
      /\ \A i \in 1 .. Len(b) : abc[Len(a) + i] = b[i]
      /\ \A i \in 1 .. Len(c) : abc[Len(a) + Len(b) + i] = c[i]
  BY <1>2, <1>3, <1>4
<1>6. abc = a \o b \o c
  BY <1>2, <1>3
<1> QED BY <1>5, <1>6

\* A further chunk leaves a settled document settled.
LEMMA AppendNext ==
  ASSUME CorpusAssumption, NEW d \in DocSet, Settled(d), NEW text \in ChunkTexts, NEW acl \in SUBSET Readers
  PROVE  LET new == AppendChunk(d, text, acl) IN
         /\ new \in DocSet /\ Settled(new) /\ new.id = d.id /\ new.chunks # << >>
<1> DEFINE gap == IF d.text # << >> /\ Last(d.text) # Newline THEN <<Newline>> ELSE << >>
           whole == d.text \o gap \o text
           start == Len(d.text \o gap)
           added == [text |-> text, start |-> start, end |-> start + Len(text)]
           new == AppendChunk(d, text, acl)
           N == Len(d.text)
           M == Len(text)
           G == Len(gap)
<1>1. /\ d.id \in PaperIds /\ d.path \in Seq(Parts) /\ d.text \in Seq(Characters) /\ d.acl \in SUBSET Readers
      /\ d.chunks \in Seq(ChunkSpan)
  BY DEF DocSet
<1>2. text \in Seq(Characters) /\ M \in Nat \ {0}
  <2>1. text \in Seq(Range(text)) /\ text # << >>
    BY DEF CorpusAssumption
  <2>2. \A i \in 1 .. Len(text) : text[i] \in Range(text)
    BY <2>1 DEF Range
  <2>3. Range(text) \subseteq Characters
    BY DEF Characters
  <2> QED BY <2>1, <2>2, <2>3
<1>3. /\ gap \in Seq(Characters) /\ G \in {0, 1} /\ N \in Nat
      /\ G = 1 => gap[1] = Newline /\ N > 0 /\ d.text[N] # Newline
      /\ G = 0 => N = 0 \/ d.text[N] = Newline
  <2>1. N \in Nat /\ (d.text # << >> <=> N > 0) /\ Last(d.text) = d.text[N]
    BY <1>1 DEF Last
  <2>2. Newline \in Characters
    BY DEF Characters
  <2>3. CASE d.text # << >> /\ Last(d.text) # Newline
    <3>1. gap = <<Newline>>
      BY <2>3
    <3> HIDE DEF gap
    <3>2. gap \in Seq(Characters) /\ G = 1 /\ gap[1] = Newline
      BY <2>2, <3>1
    <3> QED BY <2>1, <2>3, <3>2
  <2>4. CASE ~(d.text # << >> /\ Last(d.text) # Newline)
    <3>1. gap = << >>
      BY <2>4
    <3> HIDE DEF gap
    <3>2. gap \in Seq(Characters) /\ G = 0
      BY <3>1
    <3> QED BY <2>1, <2>4, <3>2
  <2> QED BY <2>3, <2>4
<1>4. new = [d EXCEPT !.text = whole, !.acl = d.acl \cup acl, !.chunks = Append(d.chunks, added)]
  BY DEF AppendChunk
<1>5. start = N + G
  BY <1>1, <1>3, ConcatProperties
<1> HIDE DEF gap, new
<1>6. /\ whole \in Seq(Characters) /\ Len(whole) = N + G + M
      /\ \A i \in 1 .. N : whole[i] = d.text[i]
      /\ \A i \in 1 .. G : whole[N + i] = gap[i]
      /\ \A i \in 1 .. M : whole[N + G + i] = text[i]
  <2>1. PICK s \in Seq(Characters) : s = d.text
    BY <1>1
  <2>2. PICK g \in Seq(Characters) : g = gap
    BY <1>3
  <2>3. PICK x \in Seq(Characters) : x = text
    BY <1>2
  <2>4. /\ s \o g \o x \in Seq(Characters) /\ Len(s \o g \o x) = Len(s) + Len(g) + Len(x)
        /\ \A i \in 1 .. Len(s) : (s \o g \o x)[i] = s[i]
        /\ \A i \in 1 .. Len(g) : (s \o g \o x)[Len(s) + i] = g[i]
        /\ \A i \in 1 .. Len(x) : (s \o g \o x)[Len(s) + Len(g) + i] = x[i]
    BY ThreeTexts
  <2> QED BY <2>1, <2>2, <2>3, <2>4
<1> HIDE DEF whole, start
<1>7. added \in ChunkSpan /\ added.text = text /\ added.start = N + G /\ added.end = N + G + M
  BY <1>2, <1>3, <1>5 DEF ChunkSpan
<1> HIDE DEF added
<1>8. /\ Append(d.chunks, added) \in Seq(ChunkSpan) /\ Len(Append(d.chunks, added)) = Len(d.chunks) + 1
      /\ DOMAIN Append(d.chunks, added) = 1 .. Len(d.chunks) + 1
      /\ \A k \in 1 .. Len(d.chunks) : Append(d.chunks, added)[k] = d.chunks[k]
      /\ Append(d.chunks, added)[Len(d.chunks) + 1] = added
      /\ Append(d.chunks, added) # << >>
  <2>1. d.chunks \in Seq(ChunkSpan) /\ added \in ChunkSpan /\ Len(d.chunks) \in Nat
    BY <1>1, <1>7
  <2> DEFINE list == Append(d.chunks, added)
  <2>2. /\ list \in Seq(ChunkSpan) /\ Len(list) = Len(d.chunks) + 1
        /\ \A k \in 1 .. Len(d.chunks) : list[k] = d.chunks[k]
        /\ list[Len(d.chunks) + 1] = added
    BY <2>1, AppendProperties
  <2> HIDE DEF list
  <2>3. DOMAIN list = 1 .. Len(d.chunks) + 1 /\ list # << >>
    BY <2>1, <2>2
  <2> QED BY <2>2, <2>3 DEF list
<1>9. Len(d.chunks) \in Nat /\ DOMAIN d.chunks = 1 .. Len(d.chunks) /\ \A k \in DOMAIN d.chunks : d.chunks[k] \in ChunkSpan
  BY <1>1, ElementOfSeq
<1> DEFINE K == Len(d.chunks)
<1>10. new \in DocSet /\ new.id = d.id /\ new.text = whole /\ new.chunks = Append(d.chunks, added)
  BY <1>1, <1>4, <1>6, <1>8 DEF DocSet
<1> DEFINE list == Append(d.chunks, added)
<1> HIDE DEF list, K, N, M, G
<1>11. /\ K \in Nat /\ DOMAIN d.chunks = 1 .. K /\ \A k \in 1 .. K : d.chunks[k] \in ChunkSpan
       /\ DOMAIN list = 1 .. K + 1 /\ \A k \in 1 .. K : list[k] = d.chunks[k]
       /\ list[K + 1] = added
  BY <1>8, <1>9 DEF list, K
<1>12. ASSUME NEW k \in 1 .. K PROVE Standing(new, d.chunks[k]) /\ d.chunks[k].end <= N /\ N > 0
  <2> DEFINE c == d.chunks[k]
  <2>1. c \in ChunkSpan /\ Standing(d, c)
    BY <1>11 DEF Settled
  <2>2. c.start \in Nat /\ c.end \in Nat /\ c.text \in Seq(Characters) /\ Len(c.text) \in Nat
    BY <2>1 DEF ChunkSpan
  <2> HIDE DEF c
  <2>3. /\ c.start < c.end /\ c.end <= N /\ c.end = c.start + Len(c.text)
        /\ \A i \in 1 .. Len(c.text) : d.text[c.start + i] = c.text[i]
        /\ c.start = 0 \/ d.text[c.start] = Newline
        /\ c.end = N \/ d.text[c.end] = Newline \/ d.text[c.end + 1] = Newline
    BY <2>1 DEF Standing, N
  <2>4. \A i \in 1 .. Len(c.text) : whole[c.start + i] = c.text[i]
    <3>1. \A i \in 1 .. Len(c.text) : c.start + i \in 1 .. N
      BY <1>3, <2>2, <2>3
    <3> QED BY <1>6, <2>3, <3>1
  <2>5. c.start = 0 \/ whole[c.start] = Newline
    <3>1. c.start # 0 => c.start \in 1 .. N
      BY <1>3, <2>2, <2>3
    <3> QED BY <1>6, <2>3, <3>1
  <2>6. whole[c.end] = Newline \/ whole[c.end + 1] = Newline
    <3>1. c.end \in 1 .. N
      BY <1>3, <2>2, <2>3
    <3>2. CASE c.end = N
      <4>1. CASE G = 0
        <5>1. d.text[N] = Newline
          BY <1>3, <3>1, <4>1
        <5> QED BY <1>6, <3>1, <3>2, <5>1
      <4>2. CASE G = 1
        <5>1. 1 \in 1 .. G
          BY <4>2
        <5> QED BY <1>3, <1>6, <3>2, <4>2, <5>1
      <4> QED BY <1>3, <4>1, <4>2
    <3>3. CASE c.end # N
      <4>1. c.end + 1 \in 1 .. N
        BY <1>3, <3>1, <3>3
      <4> QED BY <1>6, <2>3, <3>1, <3>3, <4>1
    <3> QED BY <3>2, <3>3
  <2>7. c.end <= Len(whole)
    BY <1>2, <1>3, <1>6, <2>2, <2>3
  <2>8. Standing(new, c)
    BY <1>10, <2>3, <2>4, <2>5, <2>6, <2>7 DEF Standing
  <2> QED BY <1>3, <2>2, <2>3, <2>8 DEF c
<1>13. Standing(new, added)
  <2>1. added.start < added.end /\ added.end <= Len(whole) /\ added.end = added.start + Len(added.text) /\ added.end = Len(whole)
    BY <1>2, <1>3, <1>6, <1>7 DEF M
  <2>2. \A i \in 1 .. Len(added.text) : whole[added.start + i] = added.text[i]
    BY <1>6, <1>7 DEF M
  <2>3. added.start = 0 \/ whole[added.start] = Newline
    <3>1. CASE G = 0
      <4>1. N = 0 \/ (N \in 1 .. N /\ d.text[N] = Newline)
        BY <1>3, <3>1
      <4>2. added.start = N
        BY <1>3, <1>7, <3>1
      <4> QED BY <1>6, <4>1, <4>2
    <3>2. CASE G = 1
      <4>1. 1 \in 1 .. G /\ added.start = N + 1
        BY <1>7, <3>2
      <4> QED BY <1>3, <1>6, <3>2, <4>1
    <3> QED BY <1>3, <3>1, <3>2
  <2> QED BY <1>10, <2>1, <2>2, <2>3 DEF Standing
<1>14. \A k \in DOMAIN list : Standing(new, list[k])
  <2>1. \A k \in 1 .. K + 1 : k \in 1 .. K \/ k = K + 1
    BY <1>11
  <2> QED BY <1>11, <1>12, <1>13, <2>1
<1>15. ASSUME NEW k \in DOMAIN list, k > 1 PROVE list[k - 1].end <= list[k].start
  <2>1. k \in 1 .. K + 1 /\ k - 1 \in 1 .. K
    BY <1>11, <1>15
  <2>2. CASE k = K + 1
    <3>1. list[k - 1] = d.chunks[k - 1] /\ d.chunks[k - 1].end <= N /\ d.chunks[k - 1] \in ChunkSpan
      BY <1>11, <1>12, <2>1
    <3>2. list[k].start = N + G
      BY <1>7, <1>11, <2>2
    <3>3. d.chunks[k - 1].end \in Nat
      BY <3>1 DEF ChunkSpan
    <3> QED BY <1>3, <3>1, <3>2, <3>3
  <2>3. CASE k \in 1 .. K
    <3>1. list[k - 1] = d.chunks[k - 1] /\ list[k] = d.chunks[k] /\ k \in DOMAIN d.chunks
      BY <1>11, <2>1, <2>3
    <3> QED BY <1>15, <3>1 DEF Settled
  <2> QED BY <1>11, <2>1, <2>2, <2>3
<1>16. ASSUME NEW o \in 0 .. Len(whole) - 1
       PROVE  \/ \E k \in DOMAIN list : list[k].start <= o /\ o < list[k].end
              \/ o > 0 /\ whole[o] # Newline
  <2>1. o \in Nat /\ o < N + G + M
    BY <1>2, <1>3, <1>6
  <2>2. CASE o < N
    <3>1. o \in 0 .. N - 1
      BY <1>3, <2>1, <2>2
    <3>2. \/ \E k \in DOMAIN d.chunks : d.chunks[k].start <= o /\ o < d.chunks[k].end
          \/ o > 0 /\ d.text[o] # Newline
      BY <3>1 DEF Settled, N
    <3>3. CASE \E k \in DOMAIN d.chunks : d.chunks[k].start <= o /\ o < d.chunks[k].end
      <4>1. PICK k \in 1 .. K : d.chunks[k].start <= o /\ o < d.chunks[k].end
        BY <1>11, <3>3
      <4>2. k \in DOMAIN list /\ list[k] = d.chunks[k]
        BY <1>11
      <4> QED BY <4>1, <4>2
    <3>4. CASE o > 0 /\ d.text[o] # Newline
      <4>1. o \in 1 .. N
        BY <3>1, <3>4, <1>3
      <4> QED BY <1>6, <3>4, <4>1
    <3> QED BY <3>2, <3>3, <3>4
  <2>3. CASE o = N /\ G = 1
    <3>1. N \in 1 .. N /\ o > 0 /\ d.text[N] # Newline
      BY <1>3, <2>3
    <3> QED BY <1>6, <2>3, <3>1
  <2>4. CASE o >= N + G
    <3>1. K + 1 \in DOMAIN list /\ list[K + 1].start <= o /\ o < list[K + 1].end
      BY <1>7, <1>11, <2>1, <2>4
    <3> QED BY <3>1
  <2> QED BY <1>3, <2>1, <2>2, <2>3, <2>4
<1>17. Settled(new)
  <2>1. new.chunks = list
    BY <1>10 DEF list
  <2> QED BY <1>10, <1>14, <1>15, <1>16, <2>1 DEF Settled
<1> QED BY <1>8, <1>10, <1>17 DEF new

-----------------------------------------------------------------------------
\* So does a batch of them, one after the other.
LEMMA JoinedRight ==
  ASSUME CorpusAssumption, NEW old \in DocSet, Settled(old), NEW acl \in SUBSET Readers,
         NEW texts \in Seq(ChunkTexts)
  PROVE  LET joined[n \in 0 .. Len(texts)] == IF n = 0 THEN old ELSE AppendChunk(joined[n - 1], texts[n], acl)
             doc == joined[Len(texts)]
         IN  doc \in DocSet /\ Settled(doc) /\ doc.id = old.id /\ (texts # << >> => doc.chunks # << >>)
<1> DEFINE L == Len(texts)
           Docs_ == {d \in DocSet : Settled(d) /\ d.id = old.id}
           Turn(d, n) == AppendChunk(d, texts[n], acl)
           Fun(g) == [n \in 0 .. L |-> IF n = 0 THEN old ELSE Turn(g[n - 1], n)]
           joined == CHOOSE g : g = Fun(g)
           step == [n \in 1 .. L |-> [d \in Docs_ |-> Turn(d, n)]]
<1>1. L \in Nat /\ \A n \in 1 .. L : texts[n] \in ChunkTexts
  BY ElementOfSeq
<1>2. old \in Docs_
  OBVIOUS
<1>3. ASSUME NEW n \in 1 .. L, NEW d \in Docs_ PROVE Turn(d, n) \in Docs_ /\ Turn(d, n).chunks # << >>
  <2>1. d \in DocSet /\ Settled(d) /\ d.id = old.id /\ texts[n] \in ChunkTexts
    BY <1>1
  <2> QED BY <2>1, AppendNext
<1> HIDE DEF L, Turn, Docs_
<1>4. step \in [1 .. L -> [Docs_ -> Docs_]] /\ \A n \in 1 .. L, d \in Docs_ : step[n][d] = Turn(d, n)
  BY <1>3
<1> HIDE DEF step
<1>5. \E g : g = Fun(g)
  <2>1. PICK g : Iterated(g, L, Docs_, old, step)
    BY <1>1, <1>2, <1>4, Iterates
  <2>2. g \in [0 .. L -> Docs_] /\ g[0] = old /\ \A n \in 1 .. L : g[n] = step[n][g[n - 1]]
    BY <2>1 DEF Iterated
  <2>3. ASSUME NEW n \in 0 .. L PROVE g[n] = IF n = 0 THEN old ELSE Turn(g[n - 1], n)
    <3>1. CASE n = 0
      BY <2>2, <3>1
    <3>2. CASE n # 0
      <4>1. n \in 1 .. L /\ n - 1 \in 0 .. L
        BY <1>1, <3>2
      <4>2. g[n - 1] \in Docs_
        BY <2>2, <4>1
      <4> QED BY <1>4, <2>2, <3>2, <4>1, <4>2
    <3> QED BY <3>1, <3>2
  <2>4. g = Fun(g)
    BY <2>2, <2>3
  <2> QED BY <2>4
<1>6. joined = Fun(joined)
  <2> HIDE DEF Fun
  <2> QED BY <1>5
<1> HIDE DEF joined
<1>7. joined[0] = old /\ \A n \in 1 .. L : joined[n] = Turn(joined[n - 1], n)
  <2>1. \A n \in 0 .. L : joined[n] = IF n = 0 THEN old ELSE Turn(joined[n - 1], n)
    BY <1>6
  <2>2. 0 \in 0 .. L /\ \A n \in 1 .. L : n \in 0 .. L /\ n # 0
    BY <1>1
  <2> HIDE DEF Fun
  <2> QED BY <2>1, <2>2
<1> HIDE DEF Fun
<1> DEFINE S == {n \in 0 .. L : joined[n] \in Docs_}
<1>8. 0 \in S /\ \A n \in 0 .. L - 1 : n \in S => n + 1 \in S
  <2>1. 0 \in 0 .. L /\ \A n \in 0 .. L - 1 : n + 1 \in 1 .. L /\ n + 1 \in 0 .. L /\ (n + 1) - 1 = n
    BY <1>1
  <2>2. ASSUME NEW n \in 0 .. L - 1, n \in S PROVE n + 1 \in S
    <3>1. joined[n] \in Docs_ /\ joined[n + 1] = Turn(joined[n], n + 1)
      BY <1>7, <2>1, <2>2
    <3>2. joined[n + 1] \in Docs_
      BY <1>3, <2>1, <3>1
    <3> QED BY <2>1, <3>2
  <2> QED BY <1>2, <1>7, <2>1, <2>2
<1>9. \A n \in 0 .. L : joined[n] \in Docs_
  <2> HIDE DEF S
  <2>1. 0 .. L \subseteq S
    BY <1>1, <1>8, UpTo
  <2> QED BY <2>1 DEF S
<1>10. joined[L] \in Docs_
  BY <1>1, <1>9
<1>11. texts # << >> => joined[L].chunks # << >>
  <2>1. ASSUME texts # << >> PROVE joined[L].chunks # << >>
    <3>1. L \in 1 .. L /\ L - 1 \in 0 .. L
      BY <2>1 DEF L
    <3>2. joined[L] = Turn(joined[L - 1], L) /\ joined[L - 1] \in Docs_
      BY <1>7, <1>9, <3>1
    <3> QED BY <1>3, <3>1, <3>2
  <2> QED BY <2>1
<1>12. joined[L] \in DocSet /\ Settled(joined[L]) /\ joined[L].id = old.id /\ (texts # << >> => joined[L].chunks # << >>)
  BY <1>10, <1>11 DEF Docs_
<1> QED BY <1>12 DEF joined, Fun, Turn, L

-----------------------------------------------------------------------------
Placed(d) == \E p \in Places : p \in Seq(Range(p)) /\ d.path = Append(p, d.id)

CorpusInv ==
  /\ corpus \in Seq(DocSet)
  /\ \A i \in DOMAIN corpus : Settled(corpus[i]) /\ corpus[i].chunks # << >> /\ Placed(corpus[i])
  /\ \A i, j \in DOMAIN corpus : corpus[i].id = corpus[j].id => i = j

LEMMA DocAt ==
  ASSUME CorpusInv, NEW i \in DOMAIN corpus
  PROVE  /\ corpus[i] \in DocSet /\ DocOf(corpus[i].id) = corpus[i] /\ corpus[i].id \in Ids
         /\ Len(corpus) \in Nat /\ DOMAIN corpus = 1 .. Len(corpus)
<1>1. corpus \in Seq(DocSet)
  BY DEF CorpusInv
<1>2. Len(corpus) \in Nat /\ DOMAIN corpus = 1 .. Len(corpus) /\ corpus[i] \in DocSet
  BY <1>1, ElementOfSeq
<1>3. \A j \in DOMAIN corpus : corpus[j].id = corpus[i].id => j = i
  BY DEF CorpusInv
<1>4. (CHOOSE j \in DOMAIN corpus : corpus[j].id = corpus[i].id) = i
  BY <1>3
<1> QED BY <1>2, <1>4 DEF DocOf, Ids

LEMMA CorpusAdds ==
  ASSUME CorpusAssumption, CorpusInv, NEW id \in PaperIds, NEW place \in Places, NEW acl \in SUBSET Readers,
         NEW texts \in SeqOf(ChunkTexts, MaxChunks), texts # << >>, AddChunks(id, place, acl, texts)
  PROVE  CorpusInv'
<1> DEFINE old == IF id \in Ids THEN DocOf(id)
                  ELSE [id |-> id, path |-> << >>, text |-> << >>, acl |-> {}, chunks |-> << >>]
           joined == CHOOSE g : g = [n \in 0 .. Len(texts) |-> IF n = 0 THEN old ELSE AppendChunk(g[n - 1], texts[n], acl)]
           doc == joined[Len(texts)]
           new == [doc EXCEPT !.path = Append(place, id)]
<1>1. texts \in Seq(ChunkTexts)
  <2>1. PICK m \in 0 .. MaxChunks : texts \in [1 .. m -> ChunkTexts]
    BY DEF SeqOf
  <2>2. m \in Nat
    BY DEF CorpusAssumption
  <2> QED BY <2>1, <2>2
<1>2. corpus \in Seq(DocSet) /\ Len(corpus) \in Nat /\ DOMAIN corpus = 1 .. Len(corpus)
  BY DEF CorpusInv
<1>3. id \in Ids => \E i \in DOMAIN corpus : corpus[i].id = id /\ DocOf(id) = corpus[i] /\ corpus[i] \in DocSet /\ Settled(corpus[i])
  <2>1. ASSUME id \in Ids
        PROVE  \E i \in DOMAIN corpus : corpus[i].id = id /\ DocOf(id) = corpus[i] /\ corpus[i] \in DocSet /\ Settled(corpus[i])
    <3>1. PICK i \in DOMAIN corpus : corpus[i].id = id
      BY <2>1 DEF Ids
    <3>2. DocOf(corpus[i].id) = corpus[i] /\ corpus[i] \in DocSet
      BY DocAt
    <3> QED BY <3>1, <3>2 DEF CorpusInv
  <2> QED BY <2>1
<1>4. old \in DocSet /\ Settled(old) /\ old.id = id
  <2>1. CASE id \in Ids
    BY <1>3, <2>1
  <2>2. CASE id \notin Ids
    <3>1. old = [id |-> id, path |-> << >>, text |-> << >>, acl |-> {}, chunks |-> << >>]
      BY <2>2
    <3> HIDE DEF old
    <3>2. /\ << >> \in Seq(Parts) /\ << >> \in Seq(Characters) /\ << >> \in Seq(ChunkSpan)
          /\ Len(<< >>) = 0 /\ DOMAIN << >> = {} /\ 0 .. 0 - 1 = {}
      BY EmptySeq
    <3>3. old \in DocSet /\ old.id = id
      BY <3>1, <3>2 DEF DocSet
    <3>4. Settled(old)
      BY <3>1, <3>2 DEF Settled
    <3> QED BY <3>3, <3>4
  <2> QED BY <2>1, <2>2
<1>5. corpus' = IF id \in Ids THEN [i \in DOMAIN corpus |-> IF corpus[i].id = id THEN new ELSE corpus[i]]
                ELSE Append(corpus, new)
  BY DEF AddChunks
<1> HIDE DEF old
<1>6. doc \in DocSet /\ Settled(doc) /\ doc.id = id /\ doc.chunks # << >>
  BY <1>1, <1>4, JoinedRight
<1> HIDE DEF joined, doc
<1>7. place \in Seq(Range(place)) /\ place \in Seq(Parts)
  <2>1. place \in Seq(Range(place))
    BY DEF CorpusAssumption
  <2>2. \A i \in 1 .. Len(place) : place[i] \in Range(place)
    BY <2>1, ElementOfSeq
  <2>3. Range(place) \subseteq Parts
    BY DEF Parts
  <2> QED BY <2>1, <2>2, <2>3
<1>8. Append(place, id) \in Seq(Parts)
  BY <1>7, AppendProperties DEF Parts
<1>9. /\ new \in DocSet /\ new.id = id /\ new.text = doc.text /\ new.chunks = doc.chunks
      /\ new.path = Append(place, id)
  BY <1>6, <1>8 DEF DocSet
<1> HIDE DEF new
<1>10. Settled(new)
  BY <1>6, <1>9 DEF Settled, Standing
<1>11. new \in DocSet /\ new.id = id /\ Settled(new) /\ new.chunks # << >> /\ Placed(new)
  BY <1>6, <1>7, <1>9, <1>10 DEF Placed
<1>12. CASE id \in Ids
  <2>1. corpus' = [i \in 1 .. Len(corpus) |-> IF corpus[i].id = id THEN new ELSE corpus[i]]
    BY <1>2, <1>5, <1>12
  <2>2. \A i \in 1 .. Len(corpus) : corpus[i] \in DocSet
    BY <1>2, ElementOfSeq
  <2>3. corpus' \in [1 .. Len(corpus) -> DocSet]
    BY <1>11, <2>1, <2>2
  <2>4. corpus' \in Seq(DocSet) /\ DOMAIN corpus' = 1 .. Len(corpus)
    BY <1>2, <2>3
  <2>5. \A i \in 1 .. Len(corpus) : corpus'[i] = (IF corpus[i].id = id THEN new ELSE corpus[i]) /\ corpus'[i].id = corpus[i].id
    BY <1>11, <2>1
  <2>6. \A i \in DOMAIN corpus' : Settled(corpus'[i]) /\ corpus'[i].chunks # << >> /\ Placed(corpus'[i])
    BY <1>2, <1>11, <2>4, <2>5 DEF CorpusInv
  <2>7. \A i, j \in DOMAIN corpus' : corpus'[i].id = corpus'[j].id => i = j
    BY <1>2, <2>4, <2>5 DEF CorpusInv
  <2> QED BY <2>4, <2>6, <2>7 DEF CorpusInv, Settled, Standing, Placed
<1>13. CASE id \notin Ids
  <2>1. corpus' = Append(corpus, new)
    BY <1>5, <1>13
  <2>2. /\ corpus' \in Seq(DocSet) /\ Len(corpus') = Len(corpus) + 1
        /\ \A i \in 1 .. Len(corpus) : corpus'[i] = corpus[i]
        /\ corpus'[Len(corpus) + 1] = new
    BY <1>2, <1>11, <2>1, AppendProperties
  <2>3. DOMAIN corpus' = 1 .. Len(corpus) + 1
    BY <2>2
  <2>4. \A i \in 1 .. Len(corpus) + 1 : i \in 1 .. Len(corpus) \/ i = Len(corpus) + 1
    BY <1>2
  <2>5. \A i \in 1 .. Len(corpus) : corpus[i].id # id
    BY <1>2, <1>13 DEF Ids
  <2>6. \A i \in DOMAIN corpus' : Settled(corpus'[i]) /\ corpus'[i].chunks # << >> /\ Placed(corpus'[i])
    BY <1>2, <1>11, <2>2, <2>3, <2>4 DEF CorpusInv
  <2>7. \A i, j \in DOMAIN corpus' : corpus'[i].id = corpus'[j].id => i = j
    BY <1>2, <1>11, <2>2, <2>3, <2>4, <2>5 DEF CorpusInv
  <2> QED BY <2>2, <2>6, <2>7 DEF CorpusInv, Settled, Standing, Placed
<1> QED BY <1>12, <1>13

LEMMA CorpusInductive == CorpusAssumption /\ CorpusSpec => []CorpusInv
<1>1. CorpusInit => CorpusInv
  BY EmptySeq DEF CorpusInit, CorpusInv
<1>2. ASSUME CorpusAssumption, CorpusInv, [CorpusNext]_corpus PROVE CorpusInv'
  <2>1. CASE CorpusNext
    BY <1>2, <2>1, CorpusAdds DEF CorpusNext
  <2>2. CASE UNCHANGED corpus
    BY <1>2, <2>2 DEF CorpusInv, Settled, Standing, Placed
  <2> QED BY <1>2, <2>1, <2>2
<1> QED BY <1>1, <1>2, CorpusAssumption, PTL DEF CorpusSpec

-----------------------------------------------------------------------------
\* A slice has the letters between its offsets.
LEMMA SliceRight ==
  ASSUME NEW T, NEW s \in Seq(T), NEW a \in 0 .. Len(s), NEW b \in 0 .. Len(s)
  PROVE  /\ Slice(s, a, b) = SubSeq(s, a + 1, b) /\ Slice(s, a, b) \in Seq(T)
         /\ Len(Slice(s, a, b)) = IF a <= b THEN b - a ELSE 0
         /\ a >= b => Slice(s, a, b) = << >>
         /\ \A i \in 1 .. b - a : Slice(s, a, b)[i] = s[a + i]
<1>1. Len(s) \in Nat /\ a \in Nat /\ b \in Nat /\ b <= Len(s)
  OBVIOUS
<1>2. Min({b, Len(s)}) = b
  BY <1>1, MinOfTwo
<1>3. Slice(s, a, b) = SubSeq(s, a + 1, b)
  BY <1>2 DEF Slice
<1> DEFINE r == SubSeq(s, a + 1, b)
<1>4. CASE a <= b
  <2>1. /\ r \in Seq(T) /\ Len(r) = b + 1 - (a + 1)
        /\ \A i \in 1 .. b + 1 - (a + 1) : r[i] = s[(a + 1) + i - 1]
    <3>1. a + 1 \in Nat \ {0} /\ a + 1 <= b + 1
      BY <1>1, <1>4
    <3> QED BY <3>1, RunOf
  <2> HIDE DEF r
  <2>2. b + 1 - (a + 1) = b - a /\ \A i \in Nat : (a + 1) + i - 1 = a + i
    BY <1>1
  <2>3. \A i \in 1 .. b - a : i \in Nat
    BY <1>1
  <2>4. r \in Seq(T) /\ Len(r) = b - a /\ \A i \in 1 .. b - a : r[i] = s[a + i]
    BY <2>1, <2>2, <2>3
  <2>5. a >= b => r = << >>
    BY <1>1, <1>4, <2>4
  <2> QED BY <1>3, <1>4, <2>4, <2>5 DEF r
<1>5. CASE ~(a <= b)
  <2>1. b < a + 1 /\ 1 .. b - a = {} /\ a + 1 \in Int
    BY <1>1, <1>5
  <2>2. r = << >>
    BY <1>1, <2>1, SubSeqEmpty
  <2> HIDE DEF r
  <2>3. r \in Seq(T) /\ Len(r) = 0
    BY <2>2, EmptySeq
  <2> QED BY <1>3, <1>5, <2>1, <2>2, <2>3 DEF r
<1> QED BY <1>4, <1>5

\* What a text is cut into at one place makes it up again.
LEMMA SlicesJoin ==
  ASSUME NEW T, NEW s \in Seq(T), NEW a \in 0 .. Len(s)
  PROVE  Slice(s, 0, a) \o Slice(s, a, Len(s)) = s
<1>1. Len(s) \in Nat /\ a \in Nat /\ 0 \in 0 .. Len(s) /\ Len(s) \in 0 .. Len(s) /\ a <= Len(s) /\ a - 0 = a
  OBVIOUS
<1>2. PICK x \in Seq(T) : x = Slice(s, 0, a) /\ Len(x) = a /\ \A i \in 1 .. a : x[i] = s[i]
  <2>1. /\ Slice(s, 0, a) \in Seq(T) /\ Len(Slice(s, 0, a)) = a
        /\ \A i \in 1 .. a : Slice(s, 0, a)[i] = s[0 + i]
    BY <1>1, SliceRight
  <2>2. \A i \in 1 .. a : 0 + i = i
    OBVIOUS
  <2> QED BY <2>1, <2>2
<1>3. PICK y \in Seq(T) : y = Slice(s, a, Len(s)) /\ Len(y) = Len(s) - a /\ \A i \in 1 .. Len(s) - a : y[i] = s[a + i]
  <2>1. /\ Slice(s, a, Len(s)) \in Seq(T) /\ Len(Slice(s, a, Len(s))) = IF a <= Len(s) THEN Len(s) - a ELSE 0
        /\ \A i \in 1 .. Len(s) - a : Slice(s, a, Len(s))[i] = s[a + i]
    BY <1>1, SliceRight
  <2>2. Len(Slice(s, a, Len(s))) = Len(s) - a
    BY <1>1, <2>1
  <2> QED BY <2>1, <2>2
<1>4. PICK z \in Seq(T) : /\ z = x \o y /\ Len(z) = Len(x) + Len(y)
                          /\ \A i \in 1 .. Len(x) : z[i] = x[i]
                          /\ \A i \in 1 .. Len(y) : z[Len(x) + i] = y[i]
  <2>1. /\ x \o y \in Seq(T) /\ Len(x \o y) = Len(x) + Len(y)
        /\ \A i \in 1 .. Len(x) : (x \o y)[i] = x[i]
        /\ \A i \in 1 .. Len(y) : (x \o y)[Len(x) + i] = y[i]
    BY TwoTexts
  <2> WITNESS x \o y \in Seq(T)
  <2> QED BY <2>1
<1>5. Len(z) = Len(s)
  <2>1. Len(x) = a /\ Len(y) = Len(s) - a /\ Len(z) = Len(x) + Len(y)
    BY <1>2, <1>3, <1>4
  <2> QED BY <1>1, <2>1
<1>6. ASSUME NEW i \in 1 .. Len(s) PROVE z[i] = s[i]
  <2>1. CASE i <= a
    <3>1. i \in 1 .. a
      BY <1>1, <2>1
    <3> QED BY <1>2, <1>4, <3>1
  <2>2. CASE ~(i <= a)
    <3>1. i - a \in 1 .. Len(s) - a /\ a + (i - a) = i
      BY <1>1, <2>2
    <3>2. z[a + (i - a)] = y[i - a] /\ y[i - a] = s[a + (i - a)]
      BY <1>2, <1>3, <1>4, <3>1
    <3> QED BY <3>1, <3>2
  <2> QED BY <2>1, <2>2
<1>7. z = s
  BY <1>5, <1>6, SeqEqual
<1> QED BY <1>2, <1>3, <1>4, <1>7

\* The types and the places of the chunks follow from the invariant.
LEMMA CorpusTyped ==
  ASSUME CorpusAssumption, CorpusInv
  PROVE  CorpusTypeOK
<1> SUFFICES ASSUME NEW i \in DOMAIN corpus
             PROVE  LET d == corpus[i] IN
                    /\ d.id \in PaperIds /\ d.acl \subseteq Readers /\ Front(d.path) \in Places
                    /\ \A k \in DOMAIN d.chunks :
                         /\ Slice(d.text, d.chunks[k].start, d.chunks[k].end) = d.chunks[k].text
                         /\ d.chunks[k].start = 0 \/ d.text[d.chunks[k].start] = Newline
                         /\ k > 1 => d.chunks[k - 1].end <= d.chunks[k].start
  BY DEF CorpusTypeOK
<1> DEFINE d == corpus[i]
<1>1. d \in DocSet /\ Settled(d) /\ Placed(d)
  BY DocAt DEF CorpusInv
<1> HIDE DEF d
<1>2. d.id \in PaperIds /\ d.acl \subseteq Readers /\ d.text \in Seq(Characters) /\ d.chunks \in Seq(ChunkSpan)
  BY <1>1 DEF DocSet
<1>3. Front(d.path) \in Places
  <2>1. PICK p \in Places : p \in Seq(Range(p)) /\ d.path = Append(p, d.id)
    BY <1>1 DEF Placed
  <2> DEFINE T == Range(p) \cup {d.id}
             q == Append(p, d.id)
  <2>2. p \in Seq(T) /\ d.id \in T /\ Len(p) \in Nat
    <3>1. \A j \in 1 .. Len(p) : p[j] \in T
      BY <2>1, ElementOfSeq
    <3> QED BY <2>1, <3>1
  <2> HIDE DEF T
  <2>3. q \in Seq(T) /\ Len(q) = Len(p) + 1 /\ \A j \in 1 .. Len(p) : q[j] = p[j]
    BY <2>2, AppendProperties
  <2> HIDE DEF q
  <2>4. Len(p) \in 0 .. Len(q) /\ Len(q) - 1 = Len(p) /\ 1 \in Nat \ {0} /\ 1 <= Len(p) + 1
        /\ Len(p) + 1 - 1 = Len(p) /\ \A j \in 1 .. Len(p) : 1 + j - 1 = j
    BY <2>2, <2>3
  <2> DEFINE r == SubSeq(q, 1, Len(p))
  <2>5. r \in Seq(T) /\ Len(r) = Len(p) + 1 - 1 /\ \A j \in 1 .. Len(p) + 1 - 1 : r[j] = q[1 + j - 1]
    BY <2>3, <2>4, RunOf
  <2> HIDE DEF r
  <2>6. r = p
    <3>1. Len(r) = Len(p) /\ \A j \in 1 .. Len(r) : r[j] = p[j]
      BY <2>3, <2>4, <2>5
    <3> QED BY <2>2, <2>5, <3>1, SeqEqual
  <2>7. Front(q) = r
    BY <2>4 DEF Front, r
  <2> QED BY <2>1, <2>6, <2>7 DEF q
<1>4. ASSUME NEW k \in DOMAIN d.chunks
      PROVE  /\ Slice(d.text, d.chunks[k].start, d.chunks[k].end) = d.chunks[k].text
             /\ d.chunks[k].start = 0 \/ d.text[d.chunks[k].start] = Newline
             /\ k > 1 => d.chunks[k - 1].end <= d.chunks[k].start
  <2> DEFINE c == d.chunks[k]
  <2>1. c \in ChunkSpan
    BY <1>2, ElementOfSeq
  <2>2. Standing(d, c) /\ (k > 1 => d.chunks[k - 1].end <= d.chunks[k].start)
    BY <1>1 DEF Settled
  <2> HIDE DEF c
  <2>3. c.start \in Nat /\ c.end \in Nat /\ c.text \in Seq(Characters) /\ Len(c.text) \in Nat /\ Len(d.text) \in Nat
    <3>1. c.start \in Nat /\ c.end \in Nat /\ c.text \in Seq(Characters)
      BY <2>1 DEF ChunkSpan
    <3>2. Len(c.text) \in Nat
      BY <3>1
    <3>3. Len(d.text) \in Nat
      BY <1>2
    <3> QED BY <3>1, <3>2, <3>3
  <2>4. /\ c.start < c.end /\ c.end <= Len(d.text) /\ c.end = c.start + Len(c.text)
        /\ \A j \in 1 .. Len(c.text) : d.text[c.start + j] = c.text[j]
        /\ c.start = 0 \/ d.text[c.start] = Newline
    BY <2>2 DEF Standing
  <2>5. c.start \in 0 .. Len(d.text) /\ c.end \in 0 .. Len(d.text) /\ c.start <= c.end /\ c.end - c.start = Len(c.text)
    BY <2>3, <2>4
  <2> DEFINE r == Slice(d.text, c.start, c.end)
  <2>6. r \in Seq(Characters) /\ Len(r) = c.end - c.start /\ \A j \in 1 .. c.end - c.start : r[j] = d.text[c.start + j]
    <3>1. PICK s \in Seq(Characters) : s = d.text
      BY <1>2
    <3>2. PICK a \in 0 .. Len(s) : a = c.start
      BY <2>5, <3>1
    <3>3. PICK b \in 0 .. Len(s) : b = c.end
      BY <2>5, <3>1
    <3>4. /\ Slice(s, a, b) \in Seq(Characters) /\ Len(Slice(s, a, b)) = IF a <= b THEN b - a ELSE 0
          /\ \A j \in 1 .. b - a : Slice(s, a, b)[j] = s[a + j]
      BY SliceRight
    <3> QED BY <2>5, <3>1, <3>2, <3>3, <3>4
  <2> HIDE DEF r
  <2>7. r = c.text
    <3>1. Len(r) = Len(c.text) /\ \A j \in 1 .. Len(r) : r[j] = c.text[j]
      BY <2>4, <2>5, <2>6
    <3> QED BY <2>3, <2>6, <3>1, SeqEqual
  <2> QED BY <2>2, <2>4, <2>7 DEF c, r
<1> QED BY <1>2, <1>3, <1>4 DEF d

-----------------------------------------------------------------------------
\* The chunk looked up for the place where a line begins covers it.
LEMMA ChunkCovers ==
  ASSUME NEW d \in DocSet, Settled(d), NEW o \in 0 .. Len(d.text) - 1, o = 0 \/ d.text[o] = Newline
  PROVE  LET c == ChunkForOffset(d, o) IN
         c \in ChunkSpan /\ c.start <= o /\ o < c.end /\ Standing(d, c)
<1> DEFINE at == {i \in DOMAIN d.chunks : d.chunks[i].start <= o /\ o < d.chunks[i].end}
<1>1. d.chunks \in Seq(ChunkSpan) /\ Len(d.text) \in Nat /\ Len(d.chunks) \in Nat /\ DOMAIN d.chunks = 1 .. Len(d.chunks)
  BY DEF DocSet
<1>2. o \in Nat /\ (o > 0 => d.text[o] = Newline)
  BY <1>1
<1>3. at # {}
  BY <1>2 DEF Settled
<1>4. at \in SUBSET Int /\ IsFiniteSet(at)
  <2>1. 1 \in Int /\ Len(d.chunks) \in Int
    BY <1>1
  <2>2. IsFiniteSet(1 .. Len(d.chunks))
    BY <2>1, FS_Interval
  <2>3. at \subseteq 1 .. Len(d.chunks)
    BY <1>1
  <2>4. IsFiniteSet(at)
    BY <2>2, <2>3, FS_Subset
  <2> QED BY <2>3, <2>4
<1>5. Min(at) \in at
  <2> HIDE DEF at
  <2> QED BY <1>3, <1>4, FiniteMin
<1>6. ChunkForOffset(d, o) = d.chunks[Min(at)]
  <2>1. ChunkForOffset(d, o) = d.chunks[IF at = {} THEN Len(d.chunks) ELSE Min(at)]
    BY DEF ChunkForOffset
  <2> HIDE DEF at
  <2> QED BY <1>3, <2>1
<1>7. PICK k \in at : k = Min(at)
  BY <1>5
<1>8. k \in DOMAIN d.chunks /\ d.chunks[k].start <= o /\ o < d.chunks[k].end
  OBVIOUS
<1>9. d.chunks[k] \in ChunkSpan /\ Standing(d, d.chunks[k])
  BY <1>1, <1>8, ElementOfSeq DEF Settled
<1> HIDE DEF at
<1> QED BY <1>6, <1>7, <1>8, <1>9

\* Line breaks, in their order.
LEMMA BreaksRight ==
  ASSUME NEW T, NEW text \in Seq(T)
  PROVE  LET breaks == {i \in DOMAIN text : text[i] = Newline} IN
         /\ breaks \in SUBSET (1 .. Len(text)) /\ Len(text) \in Nat /\ DOMAIN text = 1 .. Len(text)
         /\ \A k \in DOMAIN Ascending(breaks) : Ascending(breaks)[k] \in breaks
<1> DEFINE breaks == {i \in DOMAIN text : text[i] = Newline}
<1>1. breaks \in SUBSET (1 .. Len(text)) /\ Len(text) \in Nat /\ DOMAIN text = 1 .. Len(text)
  OBVIOUS
<1> HIDE DEF breaks
<1>2. \A k \in DOMAIN Ascending(breaks) : Ascending(breaks)[k] \in breaks
  BY <1>1, AscendingRight
<1> QED BY <1>1, <1>2 DEF breaks

\* A line starts at an end of the text or after a break.
LEMMA LineStart ==
  ASSUME NEW T, NEW text \in Seq(T), NEW line \in Int
  PROVE  LET o == LineToChar(text, line) IN
         o \in 0 .. Len(text) /\ (o = 0 \/ o = Len(text) \/ text[o] = Newline)
<1> DEFINE breaks == {i \in DOMAIN text : text[i] = Newline}
           order == Ascending(breaks)
           o == LineToChar(text, line)
<1>1. /\ breaks \in SUBSET (1 .. Len(text)) /\ Len(text) \in Nat
      /\ \A k \in DOMAIN order : order[k] \in breaks
  BY BreaksRight
<1>2. \A i \in breaks : text[i] = Newline
  OBVIOUS
<1>3. o = IF line <= 1 THEN 0 ELSE IF line - 1 \in DOMAIN order THEN order[line - 1] ELSE Len(text)
  BY DEF LineToChar
<1> HIDE DEF breaks, order, o
<1>4. o \in 0 .. Len(text) /\ (o = 0 \/ o = Len(text) \/ text[o] = Newline)
  <2>1. \A i \in breaks : i \in 0 .. Len(text)
    BY <1>1
  <2>2. 0 \in 0 .. Len(text) /\ Len(text) \in 0 .. Len(text)
    BY <1>1
  <2> QED BY <1>1, <1>2, <1>3, <2>1, <2>2
<1> QED BY <1>4 DEF o

-----------------------------------------------------------------------------
\* What a caller who may see the document reads of it.
ReadEnd(start, whole, bytes) == IF whole > start + bytes THEN start + bytes ELSE whole
ReadsAs(r, d, start, whole, bytes) ==
  /\ r.content = Slice(d.text, start, ReadEnd(start, whole, bytes)) /\ (r.truncated <=> whole > start + bytes)
  /\ r.span = <<start, ReadEnd(start, whole, bytes)>> /\ r.cites = ChunkForOffset(d, start)
LineAfter(text, last) == IF last = 0 THEN Len(text) ELSE LineToChar(text, last + 1)

LEMMA ReadIs ==
  ASSUME NEW id \in Ids, NEW principals, AclVisible(DocOf(id).acl, principals),
         NEW first, NEW last, NEW bytes
  PROVE  ReadsAs(Read(id, first, last, bytes, principals), DocOf(id),
                 LineToChar(DocOf(id).text, first), LineAfter(DocOf(id).text, last), bytes)
BY DEF Read, ReadsAs, ReadEnd, LineAfter

\* No read is longer than allowed, and one that is cut is as long; what is read
\* begins in the chunk it cites.
LEMMA ReadRight ==
  ASSUME CorpusInv, NEW id \in Ids, NEW principals, AclVisible(DocOf(id).acl, principals),
         NEW first \in Int, NEW last \in Int, NEW bytes \in Nat
  PROVE  LET d == DocOf(id)
             r == Read(id, first, last, bytes, principals)
         IN  /\ Len(r.content) <= bytes
             /\ r.truncated => Len(r.content) = bytes
             /\ r.content # << >> =>
                  /\ Slice(d.text, r.span[1], r.span[2]) = r.content
                  /\ r.cites.start <= r.span[1] /\ r.span[1] < r.cites.end
<1> DEFINE d == DocOf(id)
           N == Len(d.text)
           start == LineToChar(d.text, first)
           whole == LineAfter(d.text, last)
           end == ReadEnd(start, whole, bytes)
           r == Read(id, first, last, bytes, principals)
<1>1. d \in DocSet /\ Settled(d)
  <2>1. PICK i \in DOMAIN corpus : corpus[i].id = id
    BY DEF Ids
  <2>2. DocOf(corpus[i].id) = corpus[i] /\ corpus[i] \in DocSet
    BY DocAt
  <2> QED BY <2>1, <2>2 DEF CorpusInv
<1>2. /\ r.content = Slice(d.text, start, end) /\ (r.truncated <=> whole > start + bytes)
      /\ r.span = <<start, end>> /\ r.cites = ChunkForOffset(d, start)
  <2>1. ReadsAs(r, d, start, whole, bytes)
    BY ReadIs
  <2> HIDE DEF d, r, start, whole
  <2> QED BY <2>1 DEF ReadsAs
<1> HIDE DEF d, r
<1>3. d.text \in Seq(Characters) /\ N \in Nat
  BY <1>1 DEF DocSet
<1>4. start \in 0 .. N /\ (start = 0 \/ start = N \/ d.text[start] = Newline)
  BY <1>3, LineStart
<1>5. whole \in 0 .. N
  <2>1. CASE last = 0
    BY <1>3, <2>1 DEF LineAfter
  <2>2. CASE last # 0
    <3>1. last + 1 \in Int
      OBVIOUS
    <3>2. LineToChar(d.text, last + 1) \in 0 .. N
      BY <1>3, <3>1, LineStart
    <3> QED BY <2>2, <3>2 DEF LineAfter
  <2> QED BY <2>1, <2>2
<1> HIDE DEF start, whole, N
<1>6. end \in 0 .. N /\ (start <= end => end - start <= bytes) /\ (whole > start + bytes => start <= end /\ end - start = bytes)
  BY <1>3, <1>4, <1>5 DEF ReadEnd
<1> HIDE DEF end
<1>7. /\ Len(Slice(d.text, start, end)) = IF start <= end THEN end - start ELSE 0
      /\ start >= end => Slice(d.text, start, end) = << >>
  <2>1. PICK s \in Seq(Characters) : s = d.text
    BY <1>3
  <2>2. start \in 0 .. Len(s) /\ end \in 0 .. Len(s)
    BY <1>4, <1>6, <2>1 DEF N
  <2>3. /\ Len(Slice(s, start, end)) = IF start <= end THEN end - start ELSE 0
        /\ start >= end => Slice(s, start, end) = << >>
    BY <2>2, SliceRight
  <2> QED BY <2>1, <2>3
<1>8. Len(r.content) <= bytes /\ (r.truncated => Len(r.content) = bytes)
  <2>1. Len(r.content) = IF start <= end THEN end - start ELSE 0
    BY <1>2, <1>7
  <2>2. Len(r.content) <= bytes
    BY <1>3, <1>4, <1>6, <2>1
  <2>3. r.truncated => Len(r.content) = bytes
    BY <1>2, <1>6, <2>1
  <2> QED BY <2>2, <2>3
<1>9. ASSUME r.content # << >>
      PROVE  /\ Slice(d.text, r.span[1], r.span[2]) = r.content
             /\ r.cites.start <= r.span[1] /\ r.span[1] < r.cites.end
  <2>1. start < end
    BY <1>2, <1>3, <1>4, <1>6, <1>7, <1>9
  <2>2. start \in 0 .. N - 1 /\ (start = 0 \/ d.text[start] = Newline)
    BY <1>3, <1>4, <1>6, <2>1
  <2>3. ChunkForOffset(d, start).start <= start /\ start < ChunkForOffset(d, start).end
    BY <1>1, <2>2, ChunkCovers DEF N
  <2>4. r.span[1] = start /\ r.span[2] = end
    BY <1>2
  <2> QED BY <1>2, <2>3, <2>4
<1> QED BY <1>8, <1>9 DEF d, r

LEMMA WindowsRead ==
  ASSUME CorpusAssumption, CorpusInv
  PROVE  WindowsMakeTheText
<1> SUFFICES ASSUME NEW id \in Ids, NEW principals \in SUBSET Readers
             PROVE  LET d == DocOf(id)
                        lines == Cardinality({i \in DOMAIN d.text : d.text[i] = Newline}) + 1
                        Window(a, b) == CorpusRead(id, a, b, MaxBytes, principals)
                    IN  IF ~AclVisible(d.acl, principals)
                        THEN Window(1, 0) = Hidden /\ Describe(id, principals).hidden
                        ELSE /\ \A n \in 1 .. lines : Len(d.text) <= MaxBytes =>
                                  Window(1, n).content \o Window(n + 1, 0).content = d.text
                             /\ \A first \in 1 .. lines + 1, last \in 0 .. lines + 1, bytes \in 0 .. MaxBytes + 1 :
                                  LET r == CorpusRead(id, first, last, bytes, principals) IN
                                  /\ Len(r.content) <= Min({bytes, MaxBytes})
                                  /\ r.truncated => Len(r.content) = Min({bytes, MaxBytes})
                                  /\ r.content # << >> =>
                                       /\ Slice(d.text, r.span[1], r.span[2]) = r.content
                                       /\ r.cites.start <= r.span[1] /\ r.span[1] < r.cites.end
  BY DEF WindowsMakeTheText
<1> DEFINE d == DocOf(id)
           lines == Cardinality({i \in DOMAIN d.text : d.text[i] = Newline}) + 1
           Window(a, b) == CorpusRead(id, a, b, MaxBytes, principals)
<1>1. d.text \in Seq(Characters) /\ Len(d.text) \in Nat
  <2>1. PICK i \in DOMAIN corpus : corpus[i].id = id
    BY DEF Ids
  <2>2. DocOf(corpus[i].id) = corpus[i] /\ corpus[i] \in DocSet
    BY DocAt
  <2> QED BY <2>1, <2>2 DEF DocSet
<1>2. MaxBytes \in Nat /\ Min({MaxBytes, MaxBytes}) = MaxBytes
  <2>1. MaxBytes \in Nat
    BY DEF CorpusAssumption
  <2> QED BY <2>1, MinOfTwo
<1>3. lines \in Nat
  <2>1. {i \in DOMAIN d.text : d.text[i] = Newline} \in SUBSET (1 .. Len(d.text))
    BY <1>1
  <2>2. 1 \in Int /\ Len(d.text) \in Int
    BY <1>1
  <2>3. IsFiniteSet({i \in DOMAIN d.text : d.text[i] = Newline})
    BY <2>1, <2>2, FS_Interval, FS_Subset
  <2>4. Cardinality({i \in DOMAIN d.text : d.text[i] = Newline}) \in Nat
    BY <2>3, FS_CardinalityType
  <2> QED BY <2>4
<1> HIDE DEF lines, d
<1>4. CASE ~AclVisible(d.acl, principals)
  <2>1. Window(1, 0) = Hidden
    BY <1>4 DEF d, CorpusRead, Read
  <2>2. Describe(id, principals).hidden
    BY <1>4 DEF d, Describe
  <2> QED BY <1>4, <2>1, <2>2 DEF d
<1>5. CASE AclVisible(d.acl, principals)
  <2>1. ASSUME NEW n \in 1 .. lines, Len(d.text) <= MaxBytes
        PROVE  Window(1, n).content \o Window(n + 1, 0).content = d.text
    <3> DEFINE middle == LineToChar(d.text, n + 1)
    <3>1. n + 1 \in Int /\ n \in Int /\ n # 0
      BY <1>3
    <3>2. middle \in 0 .. Len(d.text)
      BY <1>1, <3>1, LineStart
    <3>3. LineToChar(d.text, 1) = 0
      BY DEF LineToChar
    <3> HIDE DEF middle
    <3>4. Window(1, n).content = Slice(d.text, 0, middle)
      <4>1. ReadsAs(Window(1, n), d, LineToChar(d.text, 1), LineAfter(d.text, n), MaxBytes)
        BY <1>2, <1>5, ReadIs DEF d, CorpusRead
      <4>2. ~(middle > 0 + MaxBytes)
        BY <1>1, <1>2, <2>1, <3>2
      <4> QED BY <3>1, <3>3, <4>1, <4>2 DEF middle, ReadsAs, LineAfter, ReadEnd
    <3>5. Window(n + 1, 0).content = Slice(d.text, middle, Len(d.text))
      <4>1. ReadsAs(Window(n + 1, 0), d, LineToChar(d.text, n + 1), LineAfter(d.text, 0), MaxBytes)
        BY <1>2, <1>5, ReadIs DEF d, CorpusRead
      <4>2. ~(Len(d.text) > middle + MaxBytes)
        BY <1>1, <1>2, <2>1, <3>2
      <4> QED BY <4>1, <4>2 DEF middle, ReadsAs, LineAfter, ReadEnd
    <3>6. Slice(d.text, 0, middle) \o Slice(d.text, middle, Len(d.text)) = d.text
      BY <1>1, <3>2, SlicesJoin
    <3> QED BY <3>4, <3>5, <3>6
  <2>2. ASSUME NEW first \in 1 .. lines + 1, NEW last \in 0 .. lines + 1, NEW bytes \in 0 .. MaxBytes + 1
        PROVE  LET r == CorpusRead(id, first, last, bytes, principals) IN
               /\ Len(r.content) <= Min({bytes, MaxBytes})
               /\ r.truncated => Len(r.content) = Min({bytes, MaxBytes})
               /\ r.content # << >> =>
                    /\ Slice(d.text, r.span[1], r.span[2]) = r.content
                    /\ r.cites.start <= r.span[1] /\ r.span[1] < r.cites.end
    <3>1. first \in Int /\ last \in Int /\ bytes \in Nat
      BY <1>2, <1>3
    <3>2. Min({bytes, MaxBytes}) \in Nat
      BY <1>2, <3>1, MinOfTwo
    <3> QED BY <1>5, <3>1, <3>2, ReadRight DEF d, CorpusRead
  <2> QED BY <1>5, <2>1, <2>2 DEF d, lines
<1> QED BY <1>4, <1>5

-----------------------------------------------------------------------------
\* A text of more lines than one: the lines before the one that starts at o are
\* the first and one for every earlier break, so that LineToChar finds it.
NewlinesIn(text) == {i \in DOMAIN text : text[i] = Newline}
StartsIn(text) == {i \in DOMAIN text : i = 1 \/ text[i - 1] = Newline}
LineFrom(text, s) ==
  SubSeq(text, s, IF {i \in NewlinesIn(text) : i >= s} = {} THEN Len(text)
                  ELSE Min({i \in NewlinesIn(text) : i >= s}) - 1)

\* Without form feeds the lines are what stands between newlines.
LEMMA LinesAre ==
  ASSUME NEW T, NEW text \in Seq(T), FormFeed \notin Range(text)
  PROVE  LET order == Ascending(StartsIn(text)) IN
         SplitLines(text) = [k \in DOMAIN order |-> LineFrom(text, order[k])]
<1> DEFINE starts == {i \in DOMAIN text : i = 1 \/ text[i - 1] \in {Newline, FormFeed}}
           Rest(s) == {i \in DOMAIN text : i >= s /\ text[i] \in {Newline, FormFeed}}
           Line(s) == SubSeq(text, s, IF Rest(s) = {} THEN Len(text) ELSE Min(Rest(s)) - 1)
           order == Ascending(starts)
<1>1. \A i \in DOMAIN text : text[i] # FormFeed
  BY DEF Range
<1>2. starts = StartsIn(text)
  <2>1. \A i \in DOMAIN text : i # 1 => i - 1 \in DOMAIN text
    OBVIOUS
  <2> QED BY <1>1, <2>1 DEF StartsIn
<1>3. \A s : Rest(s) = {i \in NewlinesIn(text) : i >= s}
  BY <1>1 DEF NewlinesIn
<1>4. \A s : Line(s) = LineFrom(text, s)
  BY <1>3 DEF LineFrom
<1>5. SplitLines(text) = [k \in DOMAIN order |-> Line(order[k])]
  BY DEF SplitLines
<1> HIDE DEF Line, Rest, starts
<1> QED BY <1>2, <1>4, <1>5

\* What is before the start of a line: the first line and a line for every newline
\* before the one the line begins after.
LEMMA StartsCount ==
  ASSUME NEW T, NEW text \in Seq(T), NEW o \in StartsIn(text), o # 1
  PROVE  /\ o - 1 \in NewlinesIn(text)
         /\ Cardinality({y \in StartsIn(text) : y < o}) = Cardinality({y \in NewlinesIn(text) : y < o - 1}) + 1
<1> DEFINE B == {y \in NewlinesIn(text) : y < o - 1}
           A == {y \in StartsIn(text) : y < o}
           C == {y + 1 : y \in B}
           N == Len(text)
<1>1. N \in Nat /\ DOMAIN text = 1 .. N /\ o \in 2 .. N /\ o - 1 \in NewlinesIn(text) /\ B \in SUBSET (1 .. N)
  BY DEF StartsIn, NewlinesIn
<1>2. IsFiniteSet(B)
  <2>1. 1 \in Int /\ N \in Int
    BY <1>1
  <2>2. IsFiniteSet(1 .. N)
    BY <2>1, FS_Interval
  <2> QED BY <1>1, <2>2, FS_Subset
<1>3. [y \in B |-> y + 1] \in Bijection(B, C)
  <2>1. \A x, y \in B : x + 1 = y + 1 => x = y
    BY <1>1
  <2> HIDE DEF B
  <2>2. [y \in B |-> y + 1] \in [B -> C]
    OBVIOUS
  <2>3. \A z \in C : \E y \in B : [x \in B |-> x + 1][y] = z
    OBVIOUS
  <2> QED BY <2>1, <2>2, <2>3 DEF Bijection, Injection, Surjection, IsInjective
<1>4. IsFiniteSet(C) /\ Cardinality(C) = Cardinality(B)
  <2> HIDE DEF B, C
  <2> QED BY <1>2, <1>3, FS_Bijection DEF ExistsBijection
<1>5. 1 \notin C
  BY <1>1
<1>6. A = C \cup {1}
  <2>1. ASSUME NEW x \in A PROVE x \in C \cup {1}
    <3>1. x \in 1 .. N /\ (x = 1 \/ text[x - 1] = Newline) /\ x < o
      BY <1>1 DEF StartsIn
    <3>2. x # 1 => x - 1 \in B /\ (x - 1) + 1 = x
      BY <1>1, <3>1 DEF NewlinesIn
    <3> QED BY <3>2
  <2>2. ASSUME NEW y \in B PROVE y + 1 \in A
    <3>1. y \in 1 .. N /\ text[y] = Newline /\ y < o - 1
      BY <1>1 DEF NewlinesIn
    <3>2. y + 1 \in 1 .. N /\ (y + 1) - 1 = y /\ y + 1 < o
      BY <1>1, <3>1
    <3> QED BY <1>1, <3>1, <3>2 DEF StartsIn
  <2>3. 1 \in A
    BY <1>1 DEF StartsIn
  <2> QED BY <2>1, <2>2, <2>3
<1>7. Cardinality(A) = Cardinality(C) + 1
  <2> HIDE DEF A, B, C
  <2> QED BY <1>4, <1>5, <1>6, FS_AddElement
<1> HIDE DEF A, B, C
<1>8. Cardinality(A) = Cardinality(B) + 1
  BY <1>4, <1>7
<1> QED BY <1>1, <1>8 DEF A, B

\* A line is where its number leads to.
LEMMA StartFound ==
  ASSUME NEW T, NEW text \in Seq(T), NEW n \in DOMAIN Ascending(StartsIn(text))
  PROVE  LET o == Ascending(StartsIn(text))[n] IN
         /\ o \in StartsIn(text) /\ n \in Nat \ {0} /\ LineToChar(text, n) = o - 1
<1> DEFINE starts == StartsIn(text)
           breaks == NewlinesIn(text)
           order == Ascending(starts)
           ends == Ascending(breaks)
           o == order[n]
           N == Len(text)
<1>1. N \in Nat /\ DOMAIN text = 1 .. N /\ starts \in SUBSET (1 .. N) /\ breaks \in SUBSET (1 .. N)
  BY DEF StartsIn, NewlinesIn
<1>2. LineToChar(text, n) = IF n <= 1 THEN 0 ELSE IF n - 1 \in DOMAIN ends THEN ends[n - 1] ELSE N
  BY DEF LineToChar, NewlinesIn
<1>3. /\ \A i, y \in starts : i = 1 => ~(y < i)
      /\ \A i \in starts : 1 \in starts
  BY <1>1 DEF StartsIn
<1>4. \A i \in starts : i # 1 =>
        /\ i - 1 \in breaks
        /\ Cardinality({y \in starts : y < i}) = Cardinality({y \in breaks : y < i - 1}) + 1
  BY StartsCount
<1>12. n \in DOMAIN order
  OBVIOUS
<1> HIDE DEF starts, breaks
<1>5. DOMAIN order = 1 .. Len(order) /\ Len(order) \in Nat /\ o \in starts /\ o \in 1 .. N
  BY <1>1, <1>12, AscendingRight
<1>6. Cardinality({y \in starts : y < o}) = n - 1
  BY <1>1, <1>12, AscendingCounts
<1>7. DOMAIN ends = 1 .. Len(ends) /\ Len(ends) \in Nat /\ \A i \in breaks : \E k \in DOMAIN ends : ends[k] = i
  BY <1>1, AscendingRight
<1>8. \A k \in DOMAIN ends : Cardinality({y \in breaks : y < ends[k]}) = k - 1
  BY <1>1, AscendingCounts
<1> HIDE DEF order, ends, N
<1>9. n \in Nat \ {0} /\ o \in Int
  BY <1>1, <1>5, <1>12
<1>10. CASE n = 1
  <2>1. Cardinality({y \in starts : y < o}) = 0
    BY <1>6, <1>10
  <2>2. {y \in starts : y < o} \in SUBSET (1 .. N)
    BY <1>1
  <2>3. 1 \in Int /\ N \in Int
    BY <1>1
  <2>4. IsFiniteSet({y \in starts : y < o})
    BY <2>2, <2>3, FS_Interval, FS_Subset
  <2>5. {y \in starts : y < o} = {}
    BY <2>1, <2>4, FS_EmptySet
  <2>6. ~(1 < o)
    BY <1>3, <1>5, <2>5
  <2>7. o = 1
    <3>1. o \in 1 .. N /\ N \in Nat
      BY <1>1, <1>5
    <3> QED BY <2>6, <3>1
  <2> QED BY <1>2, <1>5, <1>9, <1>10, <2>7 DEF starts, order
<1>11. CASE n # 1
  <2>1. o # 1
    <3>1. ASSUME o = 1 PROVE FALSE
      <4>1. {y \in starts : y < o} = {}
        BY <1>3, <1>5, <3>1
      <4>2. Cardinality({y \in starts : y < o}) = 0
        BY <4>1, FS_EmptySet
      <4> QED BY <1>6, <1>9, <1>11, <4>2
    <3> QED BY <3>1
  <2>2. o - 1 \in breaks /\ n - 1 = Cardinality({y \in breaks : y < o - 1}) + 1
    BY <1>4, <1>5, <1>6, <2>1
  <2>3. PICK k \in DOMAIN ends : ends[k] = o - 1
    BY <1>7, <2>2
  <2>4. n - 1 = (k - 1) + 1
    BY <1>8, <2>2, <2>3
  <2>5. k = n - 1 /\ ~(n <= 1)
    BY <1>7, <1>9, <1>11, <2>4
  <2> QED BY <1>2, <1>5, <1>9, <2>3, <2>5 DEF starts, order
<1> QED BY <1>10, <1>11

\* A line is the letters from its start up to the next break.
LEMMA LineRight ==
  ASSUME NEW T, NEW text \in Seq(T), FormFeed \notin Range(text), NEW n \in DOMAIN SplitLines(text)
  PROVE  LET a == LineToChar(text, n)
             line == SplitLines(text)[n]
             b == a + Len(line)
         IN  /\ a \in 0 .. Len(text) - 1 /\ (a = 0 \/ text[a] = Newline)
             /\ b \in a .. Len(text) /\ Slice(text, a, b) = line
             /\ \A j \in a + 1 .. b : text[j] # Newline
<1> DEFINE a == LineToChar(text, n)
           line == SplitLines(text)[n]
           order == Ascending(StartsIn(text))
           o == order[n]
           N == Len(text)
           rest == {i \in NewlinesIn(text) : i >= o}
           last == IF rest = {} THEN N ELSE Min(rest) - 1
<1>1. n \in DOMAIN order /\ line = LineFrom(text, o)
  <2>1. SplitLines(text) = [k \in DOMAIN order |-> LineFrom(text, order[k])]
    BY LinesAre
  <2> HIDE DEF order
  <2> QED BY <2>1
<1>2. o \in StartsIn(text) /\ a = o - 1
  BY <1>1, StartFound
<1>3. N \in Nat /\ DOMAIN text = 1 .. N
  OBVIOUS
<1>4. line = SubSeq(text, o, last)
  BY <1>1 DEF LineFrom
<1> HIDE DEF o, a, line
<1>5. o \in 1 .. N /\ (o = 1 \/ text[o - 1] = Newline) /\ rest \in SUBSET (1 .. N) /\ \A i \in rest : i >= o
  BY <1>2, <1>3 DEF StartsIn, NewlinesIn
<1>6. last \in o - 1 .. N /\ \A j \in o .. last : j \notin rest
  <2>1. CASE rest = {}
    BY <1>3, <1>5, <2>1
  <2>2. CASE rest # {}
    <3>1. 1 \in Int /\ N \in Int
      BY <1>3
    <3>6. IsFiniteSet(1 .. N)
      BY <3>1, FS_Interval
    <3>2. rest \in SUBSET Int /\ IsFiniteSet(rest)
      <4>1. rest \in SUBSET (1 .. N) /\ 1 .. N \subseteq Int
        BY <1>5
      <4> HIDE DEF rest
      <4> QED BY <3>6, <4>1, FS_Subset
    <3>3. Min(rest) \in rest /\ \A i \in rest : Min(rest) <= i
      <4> HIDE DEF rest
      <4> QED BY <2>2, <3>2, FiniteMin
    <3>4. last = Min(rest) - 1
      BY <2>2
    <3>5. Min(rest) \in o .. N
      BY <1>5, <3>3
    <3> HIDE DEF rest, last
    <3> QED BY <1>5, <3>3, <3>4, <3>5
  <2> QED BY <2>1, <2>2
<1>7. \A j \in o .. last : text[j] # Newline
  BY <1>3, <1>5, <1>6 DEF NewlinesIn
<1> HIDE DEF rest, last
<1>8. Len(line) = last + 1 - o
  <2>1. o \in Nat \ {0} /\ last \in 0 .. N /\ o <= last + 1
    BY <1>5, <1>6, <1>3
  <2> QED BY <1>4, <2>1, RunOf
<1>9. /\ a \in 0 .. N - 1 /\ (a = 0 \/ text[a] = Newline) /\ a + Len(line) = last /\ last \in a .. N
      /\ a + 1 = o /\ last \in 0 .. N
  BY <1>2, <1>3, <1>5, <1>6, <1>8
<1>10. Slice(text, a, last) = line
  <2>1. a \in 0 .. N
    BY <1>3, <1>9
  <2> QED BY <1>4, <1>9, <2>1, SliceRight
<1> QED BY <1>7, <1>9, <1>10 DEF a, line

-----------------------------------------------------------------------------
LEMMA LinesNumbered ==
  ASSUME NEW T, NEW text \in Seq(T)
  PROVE  DOMAIN SplitLines(text) = 1 .. Len(SplitLines(text)) /\ Len(SplitLines(text)) \in Nat
<1> DEFINE starts == {i \in DOMAIN text : i = 1 \/ text[i - 1] \in {Newline, FormFeed}}
           Rest(s) == {i \in DOMAIN text : i >= s /\ text[i] \in {Newline, FormFeed}}
           Line(s) == SubSeq(text, s, IF Rest(s) = {} THEN Len(text) ELSE Min(Rest(s)) - 1)
           order == Ascending(starts)
<1>1. SplitLines(text) = [k \in DOMAIN order |-> Line(order[k])]
  BY DEF SplitLines
<1>2. starts \in SUBSET (1 .. Len(text)) /\ Len(text) \in Nat
  OBVIOUS
<1> HIDE DEF Line, Rest, starts
<1>3. DOMAIN order = 1 .. Len(order) /\ Len(order) \in Nat
  BY <1>2, AscendingRight
<1> HIDE DEF order
<1>4. PICK lines : lines = [k \in 1 .. Len(order) |-> Line(order[k])]
  OBVIOUS
<1>5. DOMAIN lines = 1 .. Len(order) /\ lines = SplitLines(text)
  BY <1>1, <1>3, <1>4
<1>6. lines \in [1 .. Len(order) -> Range(lines)]
  BY <1>4 DEF Range
<1>7. lines \in Seq(Range(lines)) /\ Len(lines) = Len(order)
  BY <1>3, <1>6
<1> QED BY <1>3, <1>5, <1>7

\* The hit for a line of a document.
HitAt(i, n) ==
  LET offset == LineToChar(corpus[i].text, n)
      line == SplitLines(corpus[i].text)[n]
  IN  [id |-> corpus[i].id, line |-> n, snippet |-> line,
       span |-> <<offset, offset + Len(line)>>, cites |-> ChunkForOffset(corpus[i], offset)]

\* What a search returns are hits for lines of documents.
LEMMA HitsAre ==
  ASSUME CorpusInv, NEW letter, NEW matching, NEW limit \in Nat, NEW principals,
         NEW k \in DOMAIN Grep(letter, matching, limit, principals)
  PROVE  \E i \in DOMAIN corpus : \E n \in DOMAIN SplitLines(corpus[i].text) :
           Grep(letter, matching, limit, principals)[k] = HitAt(i, n)
<1> DEFINE Line(i, n) == SplitLines(corpus[i].text)[n]
           searched == {j \in VisibleAt(principals) : corpus[j].id \in matching}
           At(i) == {n \in DOMAIN SplitLines(corpus[i].text) : letter \in Range(Line(i, n))}
           found == UNION {{i} \X At(i) : i \in searched}
           before(p, q) == p[1] < q[1] \/ (p[1] = q[1] /\ p[2] < q[2])
           R == {c \in found \X found : before(c[1], c[2])}
           all == InOrder(found, R)
           size == Min({Len(all), Max({1, limit})})
           Hit(i, n) == LET offset == LineToChar(corpus[i].text, n) IN
             [id |-> corpus[i].id, line |-> n, snippet |-> Line(i, n),
              span |-> <<offset, offset + Len(Line(i, n))>>, cites |-> ChunkForOffset(corpus[i], offset)]
           hits == Grep(letter, matching, limit, principals)
<1>1. hits = [m \in 1 .. size |-> Hit(all[m][1], all[m][2])]
  BY DEF Grep
<1>2. \A i, n : Hit(i, n) = HitAt(i, n)
  BY DEF HitAt
<1>3. corpus \in Seq(DocSet) /\ Len(corpus) \in Nat /\ DOMAIN corpus = 1 .. Len(corpus) /\ searched \subseteq DOMAIN corpus
  BY DEF CorpusInv, VisibleAt
<1>4. \A p \in found : /\ p = <<p[1], p[2]>> /\ p[1] \in DOMAIN corpus
                       /\ p[2] \in DOMAIN SplitLines(corpus[p[1]].text)
  BY <1>3
<1> HIDE DEF Hit, Line, size, hits, found, searched
<1>5. \A i \in DOMAIN corpus : /\ DOMAIN SplitLines(corpus[i].text) = 1 .. Len(SplitLines(corpus[i].text))
                               /\ Len(SplitLines(corpus[i].text)) \in Nat
  <2> TAKE i \in DOMAIN corpus
  <2>1. corpus[i].text \in Seq(Characters)
    BY DocAt DEF DocSet
  <2> QED BY <2>1, LinesNumbered
<1>6. IsFiniteSet(found)
  <2> DEFINE f == [i \in DOMAIN corpus |-> Len(SplitLines(corpus[i].text))]
             S == DOMAIN corpus
  <2>1. f \in [S -> Nat]
    BY <1>5
  <2>2. 1 \in Int /\ Len(corpus) \in Int
    BY <1>3
  <2>3. IsFiniteSet(S)
    BY <1>3, <2>2, FS_Interval
  <2>4. \A i \in S : f[i] = Len(SplitLines(corpus[i].text))
    OBVIOUS
  <2> HIDE DEF f, S
  <2>5. IsFiniteSet(Units(f, S))
    BY <2>1, <2>3, UnitsFinite
  <2>6. found \subseteq Units(f, S)
    <3>1. ASSUME NEW p \in found PROVE p \in Units(f, S)
      <4>1. p[1] \in S /\ p[2] \in 1 .. f[p[1]] /\ p = <<p[1], p[2]>>
        BY <1>4, <1>5, <2>4 DEF S
      <4>2. p \in {p[1]} \X (1 .. f[p[1]])
        BY <4>1
      <4> QED BY <4>1, <4>2 DEF Units
    <3> QED BY <3>1
  <2> QED BY <2>5, <2>6, FS_Subset
<1>7. StrictOrder(found, R)
  <2>1. \A p \in found : p[1] \in Nat /\ p[2] \in Nat /\ p = <<p[1], p[2]>>
    BY <1>3, <1>4, <1>5
  <2>2. \A p, q \in found : <<p, q>> \in R <=> before(p, q)
    OBVIOUS
  <2>3. \A p \in found : ~before(p, p)
    BY <2>1
  <2>4. \A p, q, r \in found : before(p, q) /\ before(q, r) => before(p, r)
    BY <2>1
  <2>5. \A p, q \in found : p # q => before(p, q) \/ before(q, p)
    BY <2>1
  <2> HIDE DEF R, before
  <2> QED BY <2>2, <2>3, <2>4, <2>5 DEF StrictOrder
<1> HIDE DEF R
<1>8. Enumerates(all, found, R)
  BY <1>6, <1>7, InOrderEnumerates
<1> HIDE DEF all
<1>9. Len(all) \in Nat /\ DOMAIN all = 1 .. Len(all) /\ \A m \in DOMAIN all : all[m] \in found
  BY <1>8 DEF Enumerates
<1>10. k \in 1 .. Len(all)
  <2>1. k \in 1 .. size
    BY <1>1 DEF hits
  <2>2. PICK cap \in Int : cap = Max({1, limit})
    BY MaxOfTwo
  <2>3. size = Min({Len(all), cap})
    BY <2>2 DEF size
  <2>4. size = IF Len(all) <= cap THEN Len(all) ELSE cap
    BY <1>9, <2>3, MinOfTwo
  <2> QED BY <1>9, <2>1, <2>2, <2>4
<1>11. hits[k] = HitAt(all[k][1], all[k][2])
  <2>1. k \in 1 .. size
    BY <1>1 DEF hits
  <2> QED BY <1>1, <1>2, <2>1
<1>12. all[k] \in found
  BY <1>9, <1>10
<1> QED BY <1>4, <1>11, <1>12 DEF hits

LEMMA GrepRight ==
  ASSUME CorpusAssumption, CorpusInv
  PROVE  GrepCitesItsLines
<1> SUFFICES ASSUME NEW letter \in Searchable, NEW k \in DOMAIN Hits(letter),
                    FormFeed \notin Range(DocOf(Hits(letter)[k].id).text)
             PROVE  CitesItsLine(DocOf(Hits(letter)[k].id), Hits(letter)[k])
  BY DEF GrepCitesItsLines
<1> DEFINE limit == Min({MaxHits + 1, MaxHits})
           hit == Hits(letter)[k]
<1>1. limit \in Nat
  <2>1. MaxHits \in Nat
    BY DEF CorpusAssumption
  <2> QED BY <2>1, MinOfTwo
<1>2. Hits(letter) = Grep(letter, Ids, limit, Readers)
  BY DEF Hits, CorpusGrep
<1> HIDE DEF limit
<1>3. \E i \in DOMAIN corpus : \E n \in DOMAIN SplitLines(corpus[i].text) : hit = HitAt(i, n)
  BY <1>1, <1>2, HitsAre
<1>4. PICK i \in DOMAIN corpus : \E n \in DOMAIN SplitLines(corpus[i].text) : hit = HitAt(i, n)
  BY <1>3
<1>5. PICK n \in DOMAIN SplitLines(corpus[i].text) : hit = HitAt(i, n)
  BY <1>4
<1> DEFINE d == corpus[i]
           a == LineToChar(d.text, n)
           line == SplitLines(d.text)[n]
           b == a + Len(line)
           c == ChunkForOffset(d, a)
<1>6. hit.id = d.id /\ hit.snippet = line /\ hit.span[1] = a /\ hit.span[2] = b /\ hit.cites = c
  BY <1>5 DEF HitAt
<1>7. d \in DocSet /\ Settled(d) /\ DocOf(hit.id) = d /\ d.text \in Seq(Characters) /\ Len(d.text) \in Nat
  <2>1. d \in DocSet /\ DocOf(d.id) = d /\ Settled(d)
    BY DocAt DEF CorpusInv
  <2>2. d.text \in Seq(Characters)
    BY <2>1 DEF DocSet
  <2>3. Len(d.text) \in Nat
    BY <2>2
  <2> QED BY <1>6, <2>1, <2>2, <2>3
<1>8. FormFeed \notin Range(d.text)
  BY <1>7
<1> HIDE DEF hit
<1>9. n \in DOMAIN SplitLines(d.text)
  BY <1>5
<1> HIDE DEF d
<1>10. /\ a \in 0 .. Len(d.text) - 1 /\ (a = 0 \/ d.text[a] = Newline)
       /\ b \in a .. Len(d.text) /\ Slice(d.text, a, b) = line
       /\ \A j \in a + 1 .. b : d.text[j] # Newline
  BY <1>7, <1>8, <1>9, LineRight
<1> HIDE DEF a, b, line
<1>11. c \in ChunkSpan /\ c.start <= a /\ a < c.end /\ Standing(d, c)
  BY <1>7, <1>10, ChunkCovers
<1> HIDE DEF c
<1>12. b <= c.end
  <2>1. c.end \in Nat /\ (c.end = Len(d.text) \/ d.text[c.end] = Newline \/ d.text[c.end + 1] = Newline)
    BY <1>11 DEF ChunkSpan, Standing
  <2>2. a \in Nat /\ b \in Nat /\ b <= Len(d.text)
    BY <1>7, <1>10
  <2>3. ASSUME ~(b <= c.end) PROVE FALSE
    <3>1. c.end \in a + 1 .. b /\ c.end + 1 \in a + 1 .. b /\ c.end # Len(d.text)
      BY <1>7, <1>11, <2>1, <2>2, <2>3
    <3> QED BY <1>10, <2>1, <3>1
  <2> QED BY <2>3
<1> QED BY <1>6, <1>7, <1>10, <1>11, <1>12 DEF CitesItsLine, hit

-----------------------------------------------------------------------------
LEMMA PrefixIs ==
  ASSUME NEW T, NEW s \in Seq(T), NEW t \in Seq(T)
  PROVE  IsPrefix(s, t) <=> (Len(s) <= Len(t) /\ \A k \in 1 .. Len(s) : s[k] = t[k])
<1>1. Len(s) \in Nat /\ Len(t) \in Nat /\ 1 \in Nat \ {0} /\ 1 <= Len(s) + 1 /\ Len(s) + 1 - 1 = Len(s)
      /\ \A k \in Nat : 1 + k - 1 = k
  OBVIOUS
<1>2. Len(s) <= Len(t) =>
        ((SubSeq(s, 1, Len(s)) = SubSeq(t, 1, Len(s))) <=> \A k \in 1 .. Len(s) : s[k] = t[k])
  <2>1. ASSUME Len(s) <= Len(t)
        PROVE  (SubSeq(s, 1, Len(s)) = SubSeq(t, 1, Len(s))) <=> \A k \in 1 .. Len(s) : s[k] = t[k]
    <3>1. Len(s) \in 0 .. Len(s) /\ Len(s) \in 0 .. Len(t)
      BY <1>1, <2>1
    <3>2. PICK x \in Seq(T) : x = SubSeq(s, 1, Len(s)) /\ Len(x) = Len(s) /\ \A k \in 1 .. Len(s) : x[k] = s[k]
      <4>1. /\ SubSeq(s, 1, Len(s)) \in Seq(T) /\ Len(SubSeq(s, 1, Len(s))) = Len(s) + 1 - 1
            /\ \A k \in 1 .. Len(s) + 1 - 1 : SubSeq(s, 1, Len(s))[k] = s[1 + k - 1]
        BY <1>1, <3>1, RunOf
      <4> QED BY <1>1, <4>1
    <3>3. PICK y \in Seq(T) : y = SubSeq(t, 1, Len(s)) /\ Len(y) = Len(s) /\ \A k \in 1 .. Len(s) : y[k] = t[k]
      <4> DEFINE r == SubSeq(t, 1, Len(s))
      <4>1. /\ r \in Seq(T) /\ Len(r) = Len(s) + 1 - 1
            /\ \A k \in 1 .. Len(s) + 1 - 1 : r[k] = t[1 + k - 1]
        BY <1>1, <3>1, RunOf
      <4>2. r = SubSeq(t, 1, Len(s))
        OBVIOUS
      <4> HIDE DEF r
      <4>3. r \in Seq(T) /\ Len(r) = Len(s) /\ \A k \in 1 .. Len(s) : r[k] = t[k]
        BY <1>1, <4>1
      <4> QED BY <4>2, <4>3
    <3>4. (\A k \in 1 .. Len(s) : s[k] = t[k]) => x = y
      <4>1. (\A k \in 1 .. Len(s) : s[k] = t[k]) => \A k \in 1 .. Len(x) : x[k] = y[k]
        BY <3>2, <3>3
      <4>2. Len(x) = Len(y)
        BY <3>2, <3>3
      <4> QED BY <4>1, <4>2, SeqEqual
    <3>5. x = y => \A k \in 1 .. Len(s) : s[k] = t[k]
      BY <3>2, <3>3
    <3> QED BY <3>2, <3>3, <3>4, <3>5
  <2> QED BY <2>1
<1> QED BY <1>1, <1>2 DEF IsPrefix

\* No part of a path is blank and no document is in another's way.
Clear(seen) ==
  /\ \A i \in seen : Unnamed \notin Range(corpus[i].path)
  /\ \A i, j \in seen : i # j => ~IsPrefix(corpus[i].path, corpus[j].path)

\* What stands on the way to a document at one depth: a directory, or the document.
Stage(j, n) ==
  [path |-> SubSeq(corpus[j].path, 1, n + 1),
   doc |-> IF Len(corpus[j].path) = n + 1 THEN corpus[j].id ELSE Unnamed]
Longer(seen, n) == {j \in seen : Len(corpus[j].path) > n}
StagesAt(seen, n) == {Stage(j, n) : j \in Longer(seen, n)}

LEMMA PathOf ==
  ASSUME CorpusInv, NEW i \in DOMAIN corpus
  PROVE  /\ corpus[i].path \in Seq(Parts) /\ Len(corpus[i].path) \in Nat \ {0} /\ corpus[i].id \in PaperIds
         /\ \A k \in 1 .. Len(corpus[i].path) : corpus[i].path[k] \in Range(corpus[i].path)
<1>1. corpus[i] \in DocSet /\ Placed(corpus[i])
  BY DocAt DEF CorpusInv
<1>2. corpus[i].path \in Seq(Parts) /\ corpus[i].id \in PaperIds
  BY <1>1 DEF DocSet
<1>3. PICK p \in Places : p \in Seq(Range(p)) /\ corpus[i].path = Append(p, corpus[i].id)
  BY <1>1 DEF Placed
<1>4. Len(corpus[i].path) = Len(p) + 1 /\ Len(p) \in Nat
  <2>1. Len(p) \in Nat
    BY <1>3
  <2>2. Len(Append(p, corpus[i].id)) = Len(p) + 1
    BY <1>3, <2>1
  <2> QED BY <1>3, <2>1, <2>2
<1>5. \A k \in 1 .. Len(corpus[i].path) : corpus[i].path[k] \in Range(corpus[i].path)
  <2> DEFINE q == corpus[i].path
  <2> HIDE DEF q
  <2>1. q \in Seq(Parts)
    BY <1>2 DEF q
  <2>2. \A k \in 1 .. Len(q) : q[k] \in Range(q)
    BY <2>1 DEF Range
  <2> QED BY <2>2 DEF q
<1> QED BY <1>2, <1>4, <1>5

\* One level of the listing, below a path with no blank at its end.
LEMMA LsIs ==
  ASSUME CorpusInv, NEW principals, Clear(VisibleAt(principals)),
         NEW at \in Seq(Parts), at = << >> \/ at[Len(at)] # Unnamed
  PROVE  Ls(at, principals) =
           {Stage(j, Len(at)) : j \in {i \in VisibleAt(principals) : Len(corpus[i].path) > Len(at) /\ IsPrefix(at, corpus[i].path)}}
<1> DEFINE seen == VisibleAt(principals)
           under == {i \in seen : Len(corpus[i].path) > Len(at) /\ IsPrefix(at, corpus[i].path)}
           n == Len(at)
           leaves(name) == {i \in {m \in under : corpus[m].path[n + 1] = name} : Len(corpus[i].path) = n + 1}
           Entry(name) == [path |-> Append(at, name),
                           doc |-> IF leaves(name) = {} THEN Unnamed ELSE corpus[Max(leaves(name))].id]
<1>1. (IF at # << >> /\ Last(at) = Unnamed THEN Front(at) ELSE at) = at
  BY DEF Last
<1>2. Ls(at, principals) = {Entry(name) : name \in {corpus[i].path[n + 1] : i \in under}}
  <2>1. Ls(at, principals) = EntriesUnder(at, principals)
    BY <1>1 DEF Ls
  <2> QED BY <2>1 DEF EntriesUnder
<1>3. n \in Nat /\ seen \subseteq DOMAIN corpus /\ DOMAIN corpus \subseteq Int
  <2>1. corpus \in Seq(DocSet)
    BY DEF CorpusInv
  <2> QED BY <2>1 DEF VisibleAt
<1>4. \A i \in DOMAIN corpus : corpus[i].path \in Seq(Parts) /\ Len(corpus[i].path) \in Nat
  BY PathOf
<1>5. \A i \in under : /\ i \in DOMAIN corpus /\ i \in seen /\ Len(corpus[i].path) > n
                       /\ \A k \in 1 .. n : at[k] = corpus[i].path[k]
  BY <1>3, <1>4, PrefixIs
<1>6. \A i, j \in seen : IsPrefix(corpus[i].path, corpus[j].path) => i = j
  BY DEF Clear
<1> HIDE DEF seen, under, Entry, n, leaves
<1>7. ASSUME NEW j \in under PROVE Entry(corpus[j].path[n + 1]) = Stage(j, n)
  <2> DEFINE name == corpus[j].path[n + 1]
             q == corpus[j].path
  <2>1. /\ q \in Seq(Parts) /\ Len(q) \in Nat /\ n + 1 <= Len(q) /\ n + 1 \in 1 .. Len(q)
        /\ \A k \in 1 .. n : at[k] = q[k]
    BY <1>3, <1>4, <1>5
  <2>2. Append(at, name) = SubSeq(q, 1, n + 1)
    <3> HIDE DEF q
    <3>1. q[n + 1] \in Parts
      BY <2>1, ElementOfSeq
    <3>2. PICK x \in Seq(Parts) : x = Append(at, q[n + 1]) /\ Len(x) = n + 1 /\ x[n + 1] = q[n + 1]
                                  /\ \A k \in 1 .. n : x[k] = at[k]
      <4> DEFINE r == Append(at, q[n + 1])
      <4>1. /\ r \in Seq(Parts) /\ Len(r) = n + 1 /\ r[n + 1] = q[n + 1]
            /\ \A k \in 1 .. n : r[k] = at[k]
        BY <3>1, AppendProperties DEF n
      <4>2. r = Append(at, q[n + 1])
        OBVIOUS
      <4> HIDE DEF r
      <4> QED BY <4>1, <4>2
    <3>3. /\ SubSeq(q, 1, n + 1) \in Seq(Parts) /\ Len(SubSeq(q, 1, n + 1)) = (n + 1) + 1 - 1
          /\ \A k \in 1 .. (n + 1) + 1 - 1 : SubSeq(q, 1, n + 1)[k] = q[1 + k - 1]
      <4>1. 1 \in Nat \ {0} /\ n + 1 \in 0 .. Len(q) /\ 1 <= (n + 1) + 1
        BY <1>3, <2>1
      <4> QED BY <2>1, <4>1, RunOf
    <3>4. (n + 1) + 1 - 1 = n + 1 /\ \A k \in 1 .. n + 1 : 1 + k - 1 = k /\ (k \in 1 .. n \/ k = n + 1)
      BY <1>3
    <3>5. PICK y \in Seq(Parts) : y = SubSeq(q, 1, n + 1) /\ Len(y) = n + 1 /\ \A k \in 1 .. n + 1 : y[k] = q[k]
      <4> DEFINE r == SubSeq(q, 1, n + 1)
      <4>1. /\ r \in Seq(Parts) /\ Len(r) = (n + 1) + 1 - 1
            /\ \A k \in 1 .. (n + 1) + 1 - 1 : r[k] = q[1 + k - 1]
        BY <3>3
      <4>2. r = SubSeq(q, 1, n + 1)
        OBVIOUS
      <4> HIDE DEF r
      <4>3. r \in Seq(Parts) /\ Len(r) = n + 1 /\ \A k \in 1 .. n + 1 : r[k] = q[k]
        BY <3>4, <4>1
      <4> QED BY <4>2, <4>3
    <3>6. Len(x) = Len(y) /\ \A k \in 1 .. Len(x) : x[k] = y[k]
      BY <2>1, <3>2, <3>4, <3>5
    <3>7. x = y
      BY <3>6, SeqEqual
    <3> QED BY <3>2, <3>5, <3>7 DEF q
  <2>3. \A i \in leaves(name) : i = j
    <3> TAKE i \in leaves(name)
    <3>1. i \in under /\ corpus[i].path[n + 1] = q[n + 1] /\ Len(corpus[i].path) = n + 1
      BY DEF leaves
    <3>2. corpus[i].path \in Seq(Parts) /\ i \in seen /\ j \in seen
      BY <1>4, <1>5, <3>1
    <3>3. \A k \in 1 .. n + 1 : k \in 1 .. n \/ k = n + 1
      BY <1>3
    <3>4. \A k \in 1 .. n + 1 : corpus[i].path[k] = q[k]
      BY <1>5, <2>1, <3>1, <3>3
    <3>5. IsPrefix(corpus[i].path, q)
      BY <2>1, <3>1, <3>2, <3>4, PrefixIs
    <3> QED BY <1>6, <3>2, <3>5
  <2>4. j \in leaves(name) <=> Len(q) = n + 1
    BY DEF leaves
  <2>5. CASE Len(q) = n + 1
    <3>1. leaves(name) = {j}
      BY <2>3, <2>4, <2>5
    <3>2. j \in Int
      BY <1>3, <1>5
    <3>3. {j} \in SUBSET Int /\ j \in {j} /\ \A x \in {j} : x <= j
      BY <3>2
    <3>4. Max({j}) = j
      BY <3>3, IsMax
    <3> QED BY <2>2, <2>5, <3>1, <3>4 DEF Entry, Stage
  <2>6. CASE Len(q) # n + 1
    <3>1. leaves(name) = {}
      BY <2>3, <2>4, <2>6
    <3> QED BY <2>2, <2>6, <3>1 DEF Entry, Stage
  <2> QED BY <2>5, <2>6
<1>8. {Entry(name) : name \in {corpus[i].path[n + 1] : i \in under}} = {Stage(j, n) : j \in under}
  BY <1>7
<1> QED BY <1>2, <1>8 DEF under, seen, n

-----------------------------------------------------------------------------
\* The directories of one depth list the stages of the next.
LEMMA NextLevel ==
  ASSUME CorpusAssumption, CorpusInv, NEW principals, Clear(VisibleAt(principals)), NEW n \in Nat
  PROVE  /\ Ls(<< >>, principals) = StagesAt(VisibleAt(principals), 0)
         /\ UNION {Ls(e.path, principals) : e \in {x \in StagesAt(VisibleAt(principals), n) : x.doc = Unnamed}}
              = StagesAt(VisibleAt(principals), n + 1)
<1> DEFINE seen == VisibleAt(principals)
           Under(at) == {i \in seen : Len(corpus[i].path) > Len(at) /\ IsPrefix(at, corpus[i].path)}
           open == {x \in StagesAt(seen, n) : x.doc = Unnamed}
<1>1. \A i \in seen : /\ i \in DOMAIN corpus /\ corpus[i].path \in Seq(Parts) /\ Len(corpus[i].path) \in Nat \ {0}
                      /\ corpus[i].id # Unnamed
                      /\ \A k \in 1 .. Len(corpus[i].path) : corpus[i].path[k] # Unnamed
  <2> TAKE i \in seen
  <2>1. i \in DOMAIN corpus
    BY DEF VisibleAt
  <2>2. Unnamed \notin Range(corpus[i].path)
    BY DEF Clear
  <2> QED BY <2>1, <2>2, PathOf DEF CorpusAssumption
<1>2. \A at \in Seq(Parts) : (at = << >> \/ at[Len(at)] # Unnamed) =>
        Ls(at, principals) = {Stage(j, Len(at)) : j \in Under(at)}
  BY LsIs
<1> HIDE DEF seen
<1>3. Ls(<< >>, principals) = StagesAt(seen, 0)
  <2>1. << >> \in Seq(Parts) /\ Len(<< >>) = 0
    BY EmptySeq
  <2>2. Ls(<< >>, principals) = {Stage(j, 0) : j \in Under(<< >>)}
    BY <1>2, <2>1
  <2>3. \A i \in seen : IsPrefix(<< >>, corpus[i].path)
    <3> TAKE i \in seen
    <3>1. 0 <= Len(corpus[i].path) /\ \A k \in 1 .. 0 : FALSE
      BY <1>1
    <3>2. corpus[i].path \in Seq(Parts)
      BY <1>1
    <3> QED BY <2>1, <3>1, <3>2, PrefixIs
  <2>4. Under(<< >>) = Longer(seen, 0)
    BY <2>1, <2>3 DEF Longer
  <2> QED BY <2>2, <2>4 DEF StagesAt
<1>4. ASSUME NEW i \in seen, NEW m \in Nat, Len(corpus[i].path) > m
      PROVE  LET at == SubSeq(corpus[i].path, 1, m) IN
             /\ at \in Seq(Parts) /\ Len(at) = m /\ (at = << >> \/ at[Len(at)] # Unnamed)
             /\ IsPrefix(at, corpus[i].path)
  <2> DEFINE q == corpus[i].path
             at == SubSeq(q, 1, m)
  <2>1. q \in Seq(Parts) /\ Len(q) \in Nat /\ m <= Len(q) /\ \A k \in 1 .. Len(q) : q[k] # Unnamed
    BY <1>1, <1>4
  <2> HIDE DEF q
  <2>2. at \in Seq(Parts) /\ Len(at) = m + 1 - 1 /\ \A k \in 1 .. m + 1 - 1 : at[k] = q[1 + k - 1]
    <3>1. 1 \in Nat \ {0} /\ m \in 0 .. Len(q) /\ 1 <= m + 1
      BY <2>1
    <3> QED BY <2>1, <3>1, RunOf
  <2> HIDE DEF at
  <2>3. Len(at) = m /\ \A k \in 1 .. m : at[k] = q[k] /\ k \in 1 .. Len(q)
    BY <2>1, <2>2
  <2>4. IsPrefix(at, q)
    BY <2>1, <2>2, <2>3, PrefixIs
  <2>5. at = << >> \/ at[Len(at)] # Unnamed
    <3>1. CASE m = 0
      BY <2>2, <2>3, <3>1, EmptySeq
    <3>2. CASE m # 0
      <4>1. m \in 1 .. m
        BY <3>2
      <4> QED BY <2>1, <2>3, <4>1
    <3> QED BY <3>1, <3>2
  <2> QED BY <2>2, <2>3, <2>4, <2>5 DEF at, q
<1>5. ASSUME NEW x \in open
      PROVE  \E i \in seen : Len(corpus[i].path) > n + 1 /\ x.path = SubSeq(corpus[i].path, 1, n + 1)
  <2>1. PICK i \in Longer(seen, n) : x = Stage(i, n)
    BY DEF StagesAt
  <2>2. i \in seen /\ Len(corpus[i].path) > n /\ x.path = SubSeq(corpus[i].path, 1, n + 1)
        /\ x.doc = IF Len(corpus[i].path) = n + 1 THEN corpus[i].id ELSE Unnamed
    BY <2>1 DEF Longer, Stage
  <2>3. Len(corpus[i].path) # n + 1
    BY <1>1, <2>2
  <2>4. Len(corpus[i].path) \in Nat
    BY <1>1, <2>2
  <2> QED BY <2>2, <2>3, <2>4
<1>6. ASSUME NEW i \in seen, Len(corpus[i].path) > n + 1
      PROVE  Stage(i, n) \in open
  <2>1. Len(corpus[i].path) \in Nat
    BY <1>1
  <2>2. Len(corpus[i].path) > n /\ Len(corpus[i].path) # n + 1
    BY <1>6, <2>1
  <2> QED BY <2>2 DEF StagesAt, Longer, Stage
<1>7. ASSUME NEW i \in seen, Len(corpus[i].path) > n + 1
      PROVE  LET at == SubSeq(corpus[i].path, 1, n + 1) IN
             /\ Ls(at, principals) = {Stage(j, n + 1) : j \in Under(at)}
             /\ i \in Under(at) /\ Under(at) \subseteq Longer(seen, n + 1)
  <2> DEFINE at == SubSeq(corpus[i].path, 1, n + 1)
  <2>1. /\ at \in Seq(Parts) /\ Len(at) = n + 1 /\ (at = << >> \/ at[Len(at)] # Unnamed)
        /\ IsPrefix(at, corpus[i].path)
    <3>1. n + 1 \in Nat
      OBVIOUS
    <3> QED BY <1>4, <1>7, <3>1
  <2> HIDE DEF at
  <2>2. Ls(at, principals) = {Stage(j, n + 1) : j \in Under(at)}
    BY <1>2, <2>1
  <2>3. i \in Under(at) /\ Under(at) \subseteq Longer(seen, n + 1)
    BY <1>7, <2>1 DEF Longer
  <2> QED BY <2>2, <2>3 DEF at
<1> HIDE DEF open, Under
<1>8. UNION {Ls(e.path, principals) : e \in open} \subseteq StagesAt(seen, n + 1)
  <2>1. ASSUME NEW e \in open, NEW y \in Ls(e.path, principals) PROVE y \in StagesAt(seen, n + 1)
    <3>1. PICK i \in seen : Len(corpus[i].path) > n + 1 /\ e.path = SubSeq(corpus[i].path, 1, n + 1)
      BY <1>5
    <3>2. PICK at : at = e.path
      OBVIOUS
    <3>3. Ls(at, principals) = {Stage(j, n + 1) : j \in Under(at)} /\ Under(at) \subseteq Longer(seen, n + 1)
      BY <1>7, <3>1, <3>2
    <3> QED BY <2>1, <3>2, <3>3 DEF StagesAt
  <2> QED BY <2>1
<1>9. StagesAt(seen, n + 1) \subseteq UNION {Ls(e.path, principals) : e \in open}
  <2>1. ASSUME NEW i \in Longer(seen, n + 1)
        PROVE  \E e \in open : Stage(i, n + 1) \in Ls(e.path, principals)
    <3>1. i \in seen /\ Len(corpus[i].path) > n + 1
      BY DEF Longer
    <3>2. PICK at : at = SubSeq(corpus[i].path, 1, n + 1)
      OBVIOUS
    <3>3. Ls(at, principals) = {Stage(j, n + 1) : j \in Under(at)} /\ i \in Under(at)
      BY <1>7, <3>1, <3>2
    <3>4. Stage(i, n) \in open /\ Stage(i, n).path = at
      BY <1>6, <3>1, <3>2 DEF Stage
    <3> QED BY <3>3, <3>4
  <2> QED BY <2>1 DEF StagesAt
<1> QED BY <1>3, <1>8, <1>9 DEF seen, open

-----------------------------------------------------------------------------
\* Of a path of n parts the walk is at the end on level n - 1: what it finds are the
\* documents the caller may see.
LEMMA WalkIs ==
  ASSUME CorpusAssumption, CorpusInv, NEW principals, Clear(VisibleAt(principals))
  PROVE  Walk(principals) = {corpus[i].id : i \in VisibleAt(principals)}
<1> DEFINE seen == VisibleAt(principals)
           D == Deepest
           Open(S) == UNION {Ls(e.path, principals) : e \in {x \in S : x.doc = Unnamed}}
           Fun(g) == [n \in 0 .. D |-> IF n = 0 THEN Ls(<< >>, principals) ELSE Open(g[n - 1])]
           level == CHOOSE g : g = Fun(g)
           stages == [n \in 0 .. D |-> StagesAt(seen, n)]
<1>1. D \in Nat /\ \A i \in DOMAIN corpus : Len(corpus[i].path) <= D
  <2> DEFINE lengths == {0} \cup {Len(corpus[i].path) : i \in DOMAIN corpus}
             X == DOMAIN corpus
             f == [i \in X |-> Len(corpus[i].path)]
  <2>1. Len(corpus) \in Int /\ 1 \in Int /\ X = 1 .. Len(corpus)
    <3>1. corpus \in Seq(DocSet)
      BY DEF CorpusInv
    <3> QED BY <3>1
  <2>2. \A i \in X : Len(corpus[i].path) \in Nat
    BY PathOf
  <2>3. IsFiniteSet(X)
    BY <2>1, FS_Interval
  <2>4. IsFiniteSet({Len(corpus[i].path) : i \in X})
    <3>1. f \in Surjection(X, {Len(corpus[i].path) : i \in X})
      BY DEF Surjection
    <3> QED BY <2>3, <3>1, FS_Surjection
  <2>5. lengths \in SUBSET Int /\ lengths # {} /\ 0 \in lengths /\ \A i \in X : Len(corpus[i].path) \in lengths
    BY <2>2
  <2>6. IsFiniteSet(lengths)
    <3>1. IsFiniteSet({0})
      BY FS_Singleton
    <3> QED BY <2>4, <3>1, FS_Union
  <2>7. D = Max(lengths)
    BY DEF Deepest
  <2> HIDE DEF lengths, D
  <2>8. D \in lengths /\ \A x \in lengths : x <= D
    BY <2>5, <2>6, <2>7, FiniteMax
  <2>9. D \in Int /\ 0 <= D
    BY <2>5, <2>8
  <2> QED BY <2>5, <2>8, <2>9 DEF X
<1>2. Walk(principals) = {e.doc : e \in {x \in UNION {level[n] : n \in 0 .. D} : x.doc # Unnamed}}
  BY DEF Walk
<1>3. Ls(<< >>, principals) = StagesAt(seen, 0) /\ \A n \in Nat : Open(StagesAt(seen, n)) = StagesAt(seen, n + 1)
  BY NextLevel
<1>4. \A i \in seen : /\ i \in DOMAIN corpus /\ Len(corpus[i].path) \in Nat \ {0} /\ Len(corpus[i].path) <= D
                      /\ corpus[i].id # Unnamed
  <2> TAKE i \in seen
  <2>1. i \in DOMAIN corpus
    BY DEF VisibleAt
  <2> QED BY <1>1, <2>1, PathOf DEF CorpusAssumption
<1> HIDE DEF seen, D, Open
<1>5. stages = Fun(stages)
  <2>1. ASSUME NEW n \in 0 .. D
        PROVE  stages[n] = IF n = 0 THEN Ls(<< >>, principals) ELSE Open(stages[n - 1])
    <3>1. CASE n = 0
      BY <1>3, <3>1
    <3>2. CASE n # 0
      <4>1. n - 1 \in Nat /\ n - 1 \in 0 .. D /\ (n - 1) + 1 = n
        BY <1>1, <3>2
      <4> QED BY <1>3, <3>2, <4>1
    <3> QED BY <3>1, <3>2
  <2> QED BY <2>1
<1>6. level = Fun(level)
  <2> HIDE DEF Fun
  <2> QED BY <1>5
<1> HIDE DEF level
<1>7. \A n \in 0 .. D : level[n] = IF n = 0 THEN Ls(<< >>, principals) ELSE Open(level[n - 1])
  BY <1>6
<1> HIDE DEF Fun, stages
<1> DEFINE S == {n \in 0 .. D : level[n] = StagesAt(seen, n)}
<1>8. 0 \in S /\ \A n \in 0 .. D - 1 : n \in S => n + 1 \in S
  <2>1. 0 \in S
    <3>1. 0 \in 0 .. D
      BY <1>1
    <3> QED BY <1>3, <1>7, <3>1
  <2>2. ASSUME NEW n \in 0 .. D - 1, n \in S PROVE n + 1 \in S
    <3>1. n \in Nat /\ n + 1 \in 0 .. D /\ n + 1 # 0 /\ (n + 1) - 1 = n
      BY <1>1
    <3>2. level[n + 1] = Open(level[n])
      BY <1>7, <3>1
    <3> QED BY <1>3, <2>2, <3>1, <3>2
  <2> QED BY <2>1, <2>2
<1>9. \A n \in 0 .. D : level[n] = StagesAt(seen, n)
  <2> HIDE DEF S
  <2>1. 0 .. D \subseteq S
    BY <1>1, <1>8, UpTo
  <2> QED BY <2>1 DEF S
<1> DEFINE ends == {x \in UNION {level[n] : n \in 0 .. D} : x.doc # Unnamed}
<1>10. ASSUME NEW x \in ends PROVE \E i \in seen : x.doc = corpus[i].id
  <2>1. PICK n \in 0 .. D : x \in StagesAt(seen, n)
    BY <1>9
  <2>2. PICK i \in Longer(seen, n) : x = Stage(i, n)
    BY <2>1 DEF StagesAt
  <2>3. i \in seen /\ x.doc = IF Len(corpus[i].path) = n + 1 THEN corpus[i].id ELSE Unnamed
    BY <2>2 DEF Longer, Stage
  <2> QED BY <2>3
<1>11. ASSUME NEW i \in seen PROVE \E x \in ends : x.doc = corpus[i].id
  <2> DEFINE n == Len(corpus[i].path) - 1
  <2>1. n \in 0 .. D /\ Len(corpus[i].path) > n /\ Len(corpus[i].path) = n + 1
    BY <1>1, <1>4
  <2>2. Stage(i, n) \in StagesAt(seen, n) /\ Stage(i, n).doc = corpus[i].id
    BY <2>1 DEF StagesAt, Longer, Stage
  <2> HIDE DEF n
  <2>3. Stage(i, n) \in ends
    BY <1>4, <1>9, <2>1, <2>2
  <2> QED BY <2>2, <2>3
<1>12. Walk(principals) = {x.doc : x \in ends}
  BY <1>2
<1> HIDE DEF ends
<1> QED BY <1>10, <1>11, <1>12 DEF seen

\* Listing with a limit of the corpus's length leaves nothing out.
LEMMA GlobIs ==
  ASSUME CorpusInv, NEW principals
  PROVE  LET listed == Glob(Ids, Len(corpus), principals) IN
         {listed[k].id : k \in DOMAIN listed} = {corpus[i].id : i \in VisibleAt(principals)}
<1> DEFINE seen == VisibleAt(principals)
           all == Ascending({i \in seen : corpus[i].id \in Ids})
           size == Min({Len(all), Max({1, Len(corpus)})})
           listed == Glob(Ids, Len(corpus), principals)
<1>1. corpus \in Seq(DocSet)
  BY DEF CorpusInv
<1>2. Len(corpus) \in Nat /\ seen \in SUBSET (1 .. Len(corpus))
  BY <1>1 DEF VisibleAt
<1>3. {i \in seen : corpus[i].id \in Ids} = seen
  BY DEF VisibleAt, Ids
<1>4. listed = [k \in 1 .. size |-> corpus[all[k]]]
  BY DEF Glob
<1> HIDE DEF seen, size, listed
<1>5. /\ DOMAIN all = 1 .. Len(all) /\ Len(all) \in Nat /\ \A k \in DOMAIN all : all[k] \in seen
      /\ \A i \in seen : \E k \in DOMAIN all : all[k] = i
  BY <1>2, <1>3, AscendingRight
<1>6. Len(all) <= Len(corpus)
  <2>1. 1 \in Int /\ Len(corpus) \in Int
    BY <1>2
  <2>2. IsFiniteSet(1 .. Len(corpus)) /\ Cardinality(1 .. Len(corpus)) = Len(corpus)
    <3>1. /\ IsFiniteSet(1 .. Len(corpus))
          /\ Cardinality(1 .. Len(corpus)) = IF 1 > Len(corpus) THEN 0 ELSE Len(corpus) - 1 + 1
      BY <2>1, FS_Interval
    <3>2. (IF 1 > Len(corpus) THEN 0 ELSE Len(corpus) - 1 + 1) = Len(corpus)
      BY <1>2
    <3> QED BY <3>1, <3>2
  <2>3. Cardinality(seen) <= Len(corpus)
    BY <1>2, <2>2, FS_Subset
  <2>4. Len(all) = Cardinality(seen)
    BY <1>2, <1>3, AscendingCounts
  <2> QED BY <2>3, <2>4
<1> HIDE DEF all
<1>7. size = Len(all)
  <2>1. PICK cap \in Int : cap = Max({1, Len(corpus)}) /\ Len(corpus) <= cap
    <3>1. Max({1, Len(corpus)}) = IF 1 <= Len(corpus) THEN Len(corpus) ELSE 1
      BY <1>2, MaxOfTwo
    <3>2. Max({1, Len(corpus)}) \in Int /\ Len(corpus) <= Max({1, Len(corpus)})
      BY <1>2, <3>1
    <3> QED BY <3>2
  <2>2. size = Min({Len(all), cap})
    BY <2>1 DEF size
  <2>3. Len(all) <= cap
    BY <1>2, <1>5, <1>6, <2>1
  <2> QED BY <1>5, <2>2, <2>3, MinOfTwo
<1>8. DOMAIN listed = DOMAIN all /\ \A k \in DOMAIN all : listed[k] = corpus[all[k]]
  BY <1>4, <1>5, <1>7
<1>9. {listed[k].id : k \in DOMAIN listed} = {corpus[i].id : i \in seen}
  BY <1>5, <1>8
<1> QED BY <1>9 DEF listed, seen

\* However the chunks of documents come in (add_chunks of dci/base.py), the tools read the
\* text back window by window, cite the lines they show and find every document
\* the caller may see.
THEOREM CorpusHolds == CorpusSpec => []CorpusSound
<1>1. ASSUME CorpusAssumption, CorpusInv PROVE CorpusSound
  <2>1. WalkFindsAll
    <3> SUFFICES ASSUME NEW principals \in SUBSET Readers, Clear(VisibleAt(principals))
                 PROVE  LET listed == Glob(Ids, Len(corpus), principals) IN
                        Walk(principals) = {listed[k].id : k \in DOMAIN listed}
      BY DEF WalkFindsAll, Clear
    <3> QED BY <1>1, WalkIs, GlobIs
  <2> QED BY <1>1, <2>1, CorpusTyped, WindowsRead, GrepRight DEF CorpusSound
<1>2. CorpusSpec => []CorpusInv
  BY CorpusAssumption, CorpusInductive
<1> QED BY <1>1, <1>2, CorpusAssumption, PTL

-----------------------------------------------------------------------------
(***************************************************************************)
(* The graph.  Its invariant: relations and links are those of the chunks  *)
(* that are built, each relation on both ends.                             *)
(***************************************************************************)

\* What is appended is the last element.
LEMMA Appended ==
  ASSUME NEW T, NEW s \in Seq(T), NEW x \in T
  PROVE  /\ Append(s, x) \in Seq(T) /\ Len(Append(s, x)) = Len(s) + 1 /\ Len(s) \in Nat
         /\ DOMAIN s = 1 .. Len(s) /\ DOMAIN Append(s, x) = DOMAIN s \cup {Len(s) + 1}
         /\ Len(s) + 1 \notin DOMAIN s
         /\ \A i \in DOMAIN s : Append(s, x)[i] = s[i]
         /\ Append(s, x)[Len(s) + 1] = x
         /\ Range(Append(s, x)) = Range(s) \cup {x} /\ Range(s) \subseteq T
<1>1. /\ Append(s, x) \in Seq(T) /\ Len(Append(s, x)) = Len(s) + 1 /\ Len(s) \in Nat
      /\ \A i \in 1 .. Len(s) : Append(s, x)[i] = s[i]
      /\ Append(s, x)[Len(s) + 1] = x
  BY AppendProperties
<1>2. DOMAIN s = 1 .. Len(s) /\ DOMAIN Append(s, x) = 1 .. Len(s) + 1
  BY <1>1
<1>3. DOMAIN Append(s, x) = DOMAIN s \cup {Len(s) + 1} /\ Len(s) + 1 \notin DOMAIN s
  BY <1>1, <1>2
<1>4. \A i \in DOMAIN s : s[i] \in T
  BY <1>2, ElementOfSeq
<1> QED BY <1>1, <1>2, <1>3, <1>4 DEF Range

LEMMA RangeAppend ==
  ASSUME NEW T, NEW s \in Seq(T), NEW x \in T
  PROVE  Append(s, x) \in Seq(T) /\ Range(Append(s, x)) = Range(s) \cup {x}
BY Appended

LEMMA TimesAppend ==
  ASSUME NEW T, NEW s \in Seq(T), NEW x \in T, NEW e
  PROVE  /\ Times(e, s) \in Nat
         /\ Times(e, Append(s, x)) = Times(e, s) + (IF e = x THEN 1 ELSE 0)
<1> DEFINE S == {i \in DOMAIN s : s[i] = e}
           new == Append(s, x)
           N == {i \in DOMAIN new : new[i] = e}
<1>1. /\ Len(s) \in Nat /\ DOMAIN s = 1 .. Len(s) /\ DOMAIN new = DOMAIN s \cup {Len(s) + 1}
      /\ Len(s) + 1 \notin DOMAIN s /\ \A i \in DOMAIN s : new[i] = s[i]
      /\ new[Len(s) + 1] = x
  BY Appended
<1>2. 1 \in Int /\ Len(s) \in Int
  BY <1>1
<1>3. IsFiniteSet(1 .. Len(s))
  BY <1>2, FS_Interval
<1>4. S \in SUBSET DOMAIN s
  OBVIOUS
<1>5. IsFiniteSet(S)
  BY <1>1, <1>3, <1>4, FS_Subset
<1>6. Cardinality(S) \in Nat
  BY <1>5, FS_CardinalityType
<1>7. N = IF e = x THEN S \cup {Len(s) + 1} ELSE S
  BY <1>1
<1>8. Len(s) + 1 \notin S
  BY <1>1
<1> HIDE DEF S, N
<1>9. Cardinality(N) = Cardinality(S) + (IF e = x THEN 1 ELSE 0)
  <2>1. Cardinality(S \cup {Len(s) + 1}) = Cardinality(S) + 1
    BY <1>5, <1>8, FS_AddElement
  <2> QED BY <1>6, <1>7, <2>1
<1> QED BY <1>6, <1>9 DEF S, N, Times

\* What does not occur occurs no times.
LEMMA TimesNone ==
  ASSUME NEW s, NEW e, e \notin Range(s)
  PROVE  Times(e, s) = 0
<1>1. {i \in DOMAIN s : s[i] = e} = {}
  BY DEF Range
<1> QED BY <1>1, FS_EmptySet DEF Times

LEMMA InjectiveAppend ==
  ASSUME NEW T, NEW s \in Seq(T), NEW x \in T, IsInjective(s), x \notin Range(s)
  PROVE  IsInjective(Append(s, x))
<1> DEFINE new == Append(s, x)
<1>1. /\ DOMAIN new = DOMAIN s \cup {Len(s) + 1} /\ \A i \in DOMAIN s : new[i] = s[i]
      /\ new[Len(s) + 1] = x
  BY Appended
<1> HIDE DEF new
<1>2. IsInjective(new)
  BY <1>1 DEF IsInjective, Range
<1> QED BY <1>2 DEF new

-----------------------------------------------------------------------------
\* Stores on the way from one chunk to the next, their relations and their links.
EdgeMaps == UNION {[E -> Seq(E)] : E \in SUBSET Nat}
LinkMaps == UNION {[E -> Seq(Passages)] : E \in SUBSET Nat}
Mirrored(adj) == \A a, b \in DOMAIN adj : Times(b, adj[a]) = Times(a, adj[b])
StoreSet ==
  {st \in [edges : EdgeMaps, linked : LinkMaps] :
     /\ DOMAIN st.linked = DOMAIN st.edges /\ IsFiniteSet(DOMAIN st.edges)
     /\ Mirrored(st.edges) /\ \A e \in DOMAIN st.linked : IsInjective(st.linked[e])}

Ends(st, a) == IF a \in DOMAIN st.edges THEN Range(st.edges[a]) ELSE {}
ChunksAt(st, e) == IF e \in DOMAIN st.linked THEN Range(st.linked[e]) ELSE {}

LEMMA InStoreSet ==
  ASSUME NEW E \in SUBSET Nat, IsFiniteSet(E), NEW adj, NEW at,
         DOMAIN adj = E, adj = [a \in E |-> adj[a]], \A a \in E : adj[a] \in Seq(E),
         at = [e \in E |-> at[e]], \A e \in E : at[e] \in Seq(Passages) /\ IsInjective(at[e]),
         Mirrored(adj)
  PROVE  [edges |-> adj, linked |-> at] \in StoreSet
<1>1. adj \in [E -> Seq(E)] /\ at \in [E -> Seq(Passages)]
  OBVIOUS
<1>2. adj \in EdgeMaps /\ at \in LinkMaps /\ DOMAIN at = E
  BY <1>1 DEF EdgeMaps, LinkMaps
<1> QED BY <1>2 DEF StoreSet

LEMMA StoreParts ==
  ASSUME NEW st \in StoreSet
  PROVE  /\ st = [edges |-> st.edges, linked |-> st.linked]
         /\ DOMAIN st.edges \subseteq Nat /\ IsFiniteSet(DOMAIN st.edges)
         /\ DOMAIN st.linked = DOMAIN st.edges
         /\ st.edges = [a \in DOMAIN st.edges |-> st.edges[a]]
         /\ st.linked = [e \in DOMAIN st.edges |-> st.linked[e]]
         /\ \A a \in DOMAIN st.edges : st.edges[a] \in Seq(DOMAIN st.edges) /\ Range(st.edges[a]) \subseteq DOMAIN st.edges
         /\ \A e \in DOMAIN st.edges : st.linked[e] \in Seq(Passages) /\ IsInjective(st.linked[e])
                                       /\ Range(st.linked[e]) \subseteq Passages
         /\ Mirrored(st.edges)
<1>1. /\ st \in [edges : EdgeMaps, linked : LinkMaps]
      /\ DOMAIN st.linked = DOMAIN st.edges /\ IsFiniteSet(DOMAIN st.edges)
      /\ Mirrored(st.edges) /\ \A e \in DOMAIN st.linked : IsInjective(st.linked[e])
  BY DEF StoreSet
<1>2. PICK E \in SUBSET Nat : st.edges \in [E -> Seq(E)]
  BY <1>1 DEF EdgeMaps
<1>3. PICK F \in SUBSET Nat : st.linked \in [F -> Seq(Passages)]
  BY <1>1 DEF LinkMaps
<1>4. DOMAIN st.edges = E /\ F = E
  BY <1>1, <1>2, <1>3
<1>5. \A a \in E : st.edges[a] \in Seq(E) /\ st.linked[a] \in Seq(Passages)
  BY <1>2, <1>3, <1>4
<1>6. ASSUME NEW T, NEW s \in Seq(T) PROVE Range(s) \subseteq T
  <2>1. \A i \in 1 .. Len(s) : s[i] \in T
    BY ElementOfSeq
  <2> QED BY <2>1 DEF Range
<1> QED BY <1>1, <1>2, <1>3, <1>4, <1>5, <1>6

\* add_entity only makes room.
LEMMA EntityAdded ==
  ASSUME NEW st \in StoreSet, NEW x \in Nat
  PROVE  /\ AddEntity(st, x) \in StoreSet
         /\ DOMAIN AddEntity(st, x).edges = DOMAIN st.edges \cup {x}
         /\ \A a : Ends(AddEntity(st, x), a) = Ends(st, a)
         /\ \A e : ChunksAt(AddEntity(st, x), e) = ChunksAt(st, e)
<1> DEFINE E == DOMAIN st.edges
           F == E \cup {x}
           adj == [a \in F |-> IF a \in E THEN st.edges[a] ELSE << >>]
           at == [e \in F |-> IF e \in E THEN st.linked[e] ELSE << >>]
<1>1. /\ E \subseteq Nat /\ IsFiniteSet(E) /\ DOMAIN st.linked = E
      /\ \A a \in E : st.edges[a] \in Seq(E) /\ Range(st.edges[a]) \subseteq E
      /\ \A e \in E : st.linked[e] \in Seq(Passages) /\ IsInjective(st.linked[e])
      /\ Mirrored(st.edges)
  BY StoreParts
<1>2. AddEntity(st, x) = [edges |-> adj, linked |-> at]
  BY <1>1 DEF AddEntity
<1>3. F \in SUBSET Nat /\ IsFiniteSet(F)
  BY <1>1, FS_AddElement
<1>4. /\ Range(<< >>) = {} /\ IsInjective(<< >>) /\ << >> \in Seq(Passages) /\ << >> \in Seq(F)
  BY DEF Range, IsInjective
<1>5. \A a \in F : adj[a] \in Seq(F) /\ Range(adj[a]) \subseteq E
  <2>1. \A a \in E : st.edges[a] \in Seq(F)
    BY <1>1
  <2> QED BY <1>1, <1>4, <2>1
<1>6. \A e \in F : at[e] \in Seq(Passages) /\ IsInjective(at[e])
  BY <1>1, <1>4
<1>7. Mirrored(adj)
  <2>1. ASSUME NEW a \in F, NEW b \in F PROVE Times(b, adj[a]) = Times(a, adj[b])
    <3>1. CASE a \in E /\ b \in E
      BY <1>1, <3>1 DEF Mirrored
    <3>2. CASE a \notin E
      <4>1. a \notin Range(adj[b]) /\ b \notin Range(adj[a])
        BY <1>4, <1>5, <3>2
      <4> QED BY <4>1, TimesNone
    <3>3. CASE b \notin E
      <4>1. a \notin Range(adj[b]) /\ b \notin Range(adj[a])
        BY <1>4, <1>5, <3>3
      <4> QED BY <4>1, TimesNone
    <3> QED BY <3>1, <3>2, <3>3
  <2>2. DOMAIN adj = F
    OBVIOUS
  <2> HIDE DEF adj
  <2> QED BY <2>1, <2>2 DEF Mirrored
<1>8. /\ \A a : (IF a \in F THEN Range(adj[a]) ELSE {}) = IF a \in E THEN Range(st.edges[a]) ELSE {}
      /\ \A e : (IF e \in F THEN Range(at[e]) ELSE {}) = IF e \in E THEN Range(st.linked[e]) ELSE {}
  BY <1>4
<1>9. DOMAIN adj = F /\ adj = [a \in F |-> adj[a]] /\ at = [e \in F |-> at[e]] /\ DOMAIN at = F
  OBVIOUS
<1> DEFINE new == AddEntity(st, x)
<1> HIDE DEF adj, at, F
<1>10. [edges |-> adj, linked |-> at] \in StoreSet
  BY <1>3, <1>5, <1>6, <1>7, <1>9, InStoreSet
<1>11. new \in StoreSet /\ new.edges = adj /\ new.linked = at
  BY <1>2, <1>10
<1> HIDE DEF new
<1>12. /\ \A a : Ends(new, a) = Ends(st, a) /\ \A e : ChunksAt(new, e) = ChunksAt(st, e)
  BY <1>1, <1>8, <1>9, <1>11 DEF Ends, ChunksAt
<1> QED BY <1>9, <1>11, <1>12 DEF new, F

\* What a relation between s and o puts on a.
Across(a, s, o) == {b \in {s, o} : {a, b} = {s, o}}

\* add_relation puts each end on the other.
LEMMA RelationAdded ==
  ASSUME NEW st \in StoreSet, NEW s \in Nat, NEW o \in Nat, s # o
  PROVE  /\ AddRelation(st, s, o) \in StoreSet
         /\ DOMAIN AddRelation(st, s, o).edges = DOMAIN st.edges \cup {s, o}
         /\ \A a : Ends(AddRelation(st, s, o), a) = Ends(st, a) \cup Across(a, s, o)
         /\ \A e : ChunksAt(AddRelation(st, s, o), e) = ChunksAt(st, e)
<1> DEFINE one == AddEntity(st, s)
           both == AddEntity(one, o)
           E == DOMAIN both.edges
           new == AddRelation(st, s, o)
           adj == [a \in E |-> IF a = s THEN Append(both.edges[s], o)
                               ELSE IF a = o THEN Append(both.edges[o], s) ELSE both.edges[a]]
<1>1. /\ one \in StoreSet /\ DOMAIN one.edges = DOMAIN st.edges \cup {s}
      /\ \A a : Ends(one, a) = Ends(st, a) /\ \A e : ChunksAt(one, e) = ChunksAt(st, e)
  BY EntityAdded
<1> HIDE DEF one
<1>2. /\ both \in StoreSet /\ E = DOMAIN one.edges \cup {o}
      /\ \A a : Ends(both, a) = Ends(one, a) /\ \A e : ChunksAt(both, e) = ChunksAt(one, e)
  BY <1>1, EntityAdded
<1>3. new = [both EXCEPT !.edges[s] = Append(@, o), !.edges[o] = Append(@, s)]
  BY DEF AddRelation, one
<1> HIDE DEF both, new
<1>4. /\ both = [edges |-> both.edges, linked |-> both.linked]
      /\ E \subseteq Nat /\ IsFiniteSet(E) /\ DOMAIN both.linked = E
      /\ both.edges = [a \in E |-> both.edges[a]]
      /\ both.linked = [e \in E |-> both.linked[e]]
      /\ \A a \in E : both.edges[a] \in Seq(E)
      /\ \A e \in E : both.linked[e] \in Seq(Passages) /\ IsInjective(both.linked[e])
      /\ Mirrored(both.edges)
  BY <1>2, StoreParts
<1>5. s \in E /\ o \in E
  BY <1>1, <1>2
<1>6. new.linked = both.linked /\ new = [edges |-> new.edges, linked |-> new.linked]
  BY <1>3, <1>4
<1>7. new.edges = adj
  BY <1>3, <1>4, <1>5
<1>8. ASSUME NEW a \in E, NEW b \in E
      PROVE  /\ adj[a] \in Seq(E)
             /\ Times(b, both.edges[a]) \in Nat
             /\ Times(b, adj[a]) = Times(b, both.edges[a]) + (IF {a, b} = {s, o} THEN 1 ELSE 0)
             /\ Range(adj[a]) = Range(both.edges[a]) \cup {c \in {s, o} : {a, c} = {s, o}}
  <2>1. both.edges[a] \in Seq(E)
    BY <1>4
  <2>2. Times(b, both.edges[a]) \in Nat
    BY <2>1, TimesAppend
  <2>3. CASE a = s
    <3>1. adj[a] = Append(both.edges[a], o)
      BY <2>3
    <3>2. /\ adj[a] \in Seq(E) /\ Range(adj[a]) = Range(both.edges[a]) \cup {o}
          /\ Times(b, adj[a]) = Times(b, both.edges[a]) + (IF b = o THEN 1 ELSE 0)
      <4>1. /\ Append(both.edges[a], o) \in Seq(E)
            /\ Range(Append(both.edges[a], o)) = Range(both.edges[a]) \cup {o}
        <5> DEFINE list == both.edges[a]
        <5>1. list \in Seq(E) /\ o \in E
          BY <1>5, <2>1
        <5> HIDE DEF list, E
        <5>2. Append(list, o) \in Seq(E) /\ Range(Append(list, o)) = Range(list) \cup {o}
          BY <5>1, RangeAppend
        <5> QED BY <5>2 DEF list
      <4>2. Times(b, Append(both.edges[a], o)) = Times(b, both.edges[a]) + (IF b = o THEN 1 ELSE 0)
        BY <1>5, <2>1, TimesAppend
      <4> QED BY <3>1, <4>1, <4>2
    <3>3. ({a, b} = {s, o} <=> b = o) /\ {c \in {s, o} : {a, c} = {s, o}} = {o}
      BY <2>3
    <3> QED BY <2>2, <3>2, <3>3
  <2>4. CASE a = o
    <3>1. adj[a] = Append(both.edges[a], s)
      BY <2>4
    <3>2. /\ adj[a] \in Seq(E) /\ Range(adj[a]) = Range(both.edges[a]) \cup {s}
          /\ Times(b, adj[a]) = Times(b, both.edges[a]) + (IF b = s THEN 1 ELSE 0)
      <4>1. /\ Append(both.edges[a], s) \in Seq(E)
            /\ Range(Append(both.edges[a], s)) = Range(both.edges[a]) \cup {s}
        <5> DEFINE list == both.edges[a]
        <5>1. list \in Seq(E) /\ s \in E
          BY <1>5, <2>1
        <5> HIDE DEF list, E
        <5>2. Append(list, s) \in Seq(E) /\ Range(Append(list, s)) = Range(list) \cup {s}
          BY <5>1, RangeAppend
        <5> QED BY <5>2 DEF list
      <4>2. Times(b, Append(both.edges[a], s)) = Times(b, both.edges[a]) + (IF b = s THEN 1 ELSE 0)
        BY <1>5, <2>1, TimesAppend
      <4> QED BY <3>1, <4>1, <4>2
    <3>3. ({a, b} = {s, o} <=> b = s) /\ {c \in {s, o} : {a, c} = {s, o}} = {s}
      BY <2>4
    <3> QED BY <2>2, <3>2, <3>3
  <2>5. CASE a # s /\ a # o
    <3>1. adj[a] = both.edges[a] /\ \A c : {a, c} # {s, o}
      BY <2>5
    <3>2. {c \in {s, o} : {a, c} = {s, o}} = {} /\ {a, b} # {s, o}
      BY <3>1
    <3>3. Times(b, adj[a]) = Times(b, both.edges[a]) + 0 /\ (IF {a, b} = {s, o} THEN 1 ELSE 0) = 0
      BY <2>2, <3>1, <3>2
    <3>4. Range(adj[a]) = Range(both.edges[a]) \cup {}
      BY <3>1
    <3> QED BY <2>1, <2>2, <3>1, <3>2, <3>3, <3>4
  <2> QED BY <2>3, <2>4, <2>5
<1>9. DOMAIN adj = E /\ adj = [a \in E |-> adj[a]]
  OBVIOUS
<1> HIDE DEF adj, E
<1>10. Mirrored(adj)
  <2>1. ASSUME NEW a \in E, NEW b \in E PROVE Times(b, adj[a]) = Times(a, adj[b])
    <3>1. {a, b} = {b, a}
      OBVIOUS
    <3>2. Times(b, both.edges[a]) = Times(a, both.edges[b])
      BY <1>4 DEF Mirrored, E
    <3> DEFINE more == IF {a, b} = {s, o} THEN 1 ELSE 0
    <3>3. Times(b, adj[a]) = Times(b, both.edges[a]) + more
      BY <1>8
    <3>4. Times(a, adj[b]) = Times(a, both.edges[b]) + (IF {b, a} = {s, o} THEN 1 ELSE 0)
      BY <1>8
    <3>5. (IF {b, a} = {s, o} THEN 1 ELSE 0) = more
      BY <3>1
    <3> QED BY <3>2, <3>3, <3>4, <3>5
  <2>2. \A a, b \in E : Times(b, adj[a]) = Times(a, adj[b])
    BY <2>1
  <2> QED BY <1>9, <2>2 DEF Mirrored
<1>11. new \in StoreSet
  <2>1. /\ E \in SUBSET Nat /\ IsFiniteSet(E)
        /\ both.linked = [e \in E |-> both.linked[e]]
        /\ \A e \in E : both.linked[e] \in Seq(Passages) /\ IsInjective(both.linked[e])
    BY <1>4 DEF E
  <2>2. \A a \in E : adj[a] \in Seq(E)
    BY <1>8
  <2>3. [edges |-> adj, linked |-> both.linked] \in StoreSet
    BY <1>9, <1>10, <2>1, <2>2, InStoreSet
  <2> QED BY <1>6, <1>7, <2>3
<1>12. ASSUME NEW a PROVE Ends(new, a) = Ends(both, a) \cup Across(a, s, o)
  <2>1. CASE a \in E
    BY <1>7, <1>8, <1>9, <2>1 DEF Ends, Across, E
  <2>2. CASE a \notin E
    BY <1>5, <1>7, <1>9, <2>2 DEF Ends, Across, E
  <2> QED BY <2>1, <2>2
<1>13. \A e : ChunksAt(new, e) = ChunksAt(both, e)
  BY <1>6 DEF ChunksAt
<1>14. DOMAIN new.edges = DOMAIN st.edges \cup {s, o}
  BY <1>1, <1>2, <1>7, <1>9
<1> QED BY <1>1, <1>2, <1>11, <1>12, <1>13, <1>14 DEF new

\* link_chunk adds the chunk where it is missing.
LEMMA ChunkLinked ==
  ASSUME NEW st \in StoreSet, NEW x \in Nat, NEW p \in Passages
  PROVE  /\ LinkChunk(st, x, p) \in StoreSet
         /\ DOMAIN LinkChunk(st, x, p).edges = DOMAIN st.edges \cup {x}
         /\ \A a : Ends(LinkChunk(st, x, p), a) = Ends(st, a)
         /\ \A e : ChunksAt(LinkChunk(st, x, p), e) = ChunksAt(st, e) \cup (IF e = x THEN {p} ELSE {})
<1> DEFINE known == AddEntity(st, x)
           E == DOMAIN known.edges
           new == LinkChunk(st, x, p)
           at == [e \in E |-> IF e = x THEN Append(known.linked[x], p) ELSE known.linked[e]]
<1>1. /\ known \in StoreSet /\ E = DOMAIN st.edges \cup {x}
      /\ \A a : Ends(known, a) = Ends(st, a) /\ \A e : ChunksAt(known, e) = ChunksAt(st, e)
  BY EntityAdded
<1>2. new = IF p \in Range(known.linked[x]) THEN known ELSE [known EXCEPT !.linked[x] = Append(@, p)]
  BY DEF LinkChunk
<1> HIDE DEF known, new
<1>3. /\ known = [edges |-> known.edges, linked |-> known.linked]
      /\ E \subseteq Nat /\ IsFiniteSet(E) /\ DOMAIN known.linked = E
      /\ known.edges = [a \in E |-> known.edges[a]]
      /\ known.linked = [e \in E |-> known.linked[e]]
      /\ \A a \in E : known.edges[a] \in Seq(E)
      /\ \A e \in E : known.linked[e] \in Seq(Passages) /\ IsInjective(known.linked[e])
      /\ Mirrored(known.edges)
  BY <1>1, StoreParts
<1>4. x \in E
  BY <1>1
<1>5. CASE p \in Range(known.linked[x])
  <2>1. new = known
    BY <1>2, <1>5
  <2>2. \A e : ChunksAt(new, e) = ChunksAt(known, e) \cup (IF e = x THEN {p} ELSE {})
    BY <1>3, <1>4, <1>5, <2>1 DEF ChunksAt
  <2> QED BY <1>1, <2>1, <2>2 DEF new
<1>6. CASE p \notin Range(known.linked[x])
  <2>1. new.edges = known.edges /\ new = [edges |-> new.edges, linked |-> new.linked]
    BY <1>2, <1>3, <1>6
  <2>2. new.linked = at
    BY <1>2, <1>3, <1>4, <1>6
  <2>3. /\ Append(known.linked[x], p) \in Seq(Passages) /\ IsInjective(Append(known.linked[x], p))
        /\ Range(Append(known.linked[x], p)) = Range(known.linked[x]) \cup {p}
    BY <1>3, <1>4, <1>6, Appended, InjectiveAppend
  <2>4. \A e \in E : /\ at[e] \in Seq(Passages) /\ IsInjective(at[e])
                     /\ Range(at[e]) = Range(known.linked[e]) \cup (IF e = x THEN {p} ELSE {})
    BY <1>3, <2>3
  <2>5. DOMAIN at = E /\ at = [e \in E |-> at[e]]
    OBVIOUS
  <2> HIDE DEF at, E
  <2>6. DOMAIN known.edges = E
    BY DEF E
  <2>7. new \in StoreSet
    <3>1. /\ E \in SUBSET Nat /\ IsFiniteSet(E)
          /\ known.edges = [a \in E |-> known.edges[a]]
          /\ \A a \in E : known.edges[a] \in Seq(E)
          /\ Mirrored(known.edges)
      BY <1>3 DEF E
    <3>2. \A e \in E : at[e] \in Seq(Passages) /\ IsInjective(at[e])
      BY <2>4
    <3>3. [edges |-> known.edges, linked |-> at] \in StoreSet
      BY <2>5, <2>6, <3>1, <3>2, InStoreSet
    <3> QED BY <2>1, <2>2, <3>3
  <2>8. \A e : ChunksAt(new, e) = ChunksAt(known, e) \cup (IF e = x THEN {p} ELSE {})
    <3>1. \A e \in E : ChunksAt(new, e) = ChunksAt(known, e) \cup (IF e = x THEN {p} ELSE {})
      BY <1>3, <2>2, <2>4, <2>5 DEF ChunksAt
    <3>2. \A e : e \notin E => ChunksAt(new, e) = {} /\ ChunksAt(known, e) = {} /\ e # x
      BY <1>3, <1>4, <2>2, <2>5 DEF ChunksAt
    <3> QED BY <3>1, <3>2
  <2>9. \A a : Ends(new, a) = Ends(known, a)
    BY <2>1 DEF Ends
  <2> QED BY <1>1, <2>1, <2>6, <2>7, <2>8, <2>9 DEF new
<1> QED BY <1>5, <1>6

-----------------------------------------------------------------------------
\* A store with more relations and more links.
Grows(new, old, rel, links) ==
  /\ new \in StoreSet
  /\ \A a : Ends(new, a) = Ends(old, a) \cup {b \in Nat : <<a, b>> \in rel}
  /\ \A e : ChunksAt(new, e) = ChunksAt(old, e) \cup {q \in Passages : <<e, q>> \in links}

Gathered(f, L) == UNION {f[n] : n \in 1 .. L}

\* Growing turn by turn is growing by what all of them bring.
LEMMA GrowsByTurns ==
  ASSUME NEW L \in Nat, NEW g, NEW rel, NEW links, g[0] \in StoreSet,
         \A n \in 1 .. L : g[n - 1] \in StoreSet => Grows(g[n], g[n - 1], rel[n], links[n])
  PROVE  Grows(g[L], g[0], Gathered(rel, L), Gathered(links, L))
<1> DEFINE rels(k) == Gathered(rel, k)
           all(k) == Gathered(links, k)
           S == {k \in 0 .. L : Grows(g[k], g[0], rels(k), all(k))}
<1>1. 0 \in S
  <2>1. rels(0) = {} /\ all(0) = {}
    BY DEF Gathered
  <2> HIDE DEF rels, all
  <2>2. Grows(g[0], g[0], rels(0), all(0))
    BY <2>1 DEF Grows
  <2> QED BY <2>2
<1>2. ASSUME NEW k \in 0 .. L - 1, k \in S PROVE k + 1 \in S
  <2>1. k + 1 \in 1 .. L /\ k + 1 \in 0 .. L /\ (k + 1) - 1 = k
    OBVIOUS
  <2>2. Grows(g[k], g[0], rels(k), all(k))
    BY <1>2
  <2>3. g[k] \in StoreSet
    BY <2>2 DEF Grows
  <2>4. Grows(g[k + 1], g[k], rel[k + 1], links[k + 1])
    BY <2>1, <2>3
  <2>5. 1 .. k + 1 = 1 .. k \cup {k + 1}
    OBVIOUS
  <2>6. rels(k + 1) = rels(k) \cup rel[k + 1] /\ all(k + 1) = all(k) \cup links[k + 1]
    BY <2>5 DEF Gathered
  <2> HIDE DEF rels, all
  <2>7. Grows(g[k + 1], g[0], rels(k + 1), all(k + 1))
    BY <2>2, <2>4, <2>6 DEF Grows
  <2> QED BY <2>1, <2>7
<1>3. L \in S
  <2> HIDE DEF S
  <2>1. 0 .. L \subseteq S
    BY <1>1, <1>2, UpTo
  <2> QED BY <2>1
<1> QED BY <1>3

LEMMA LinkGrows ==
  ASSUME NEW st \in StoreSet, NEW x \in Nat, NEW p \in Passages
  PROVE  Grows(LinkChunk(st, x, p), st, {}, {<<x, p>>})
<1> DEFINE new == LinkChunk(st, x, p)
<1>1. /\ new \in StoreSet /\ \A a : Ends(new, a) = Ends(st, a)
      /\ \A e : ChunksAt(new, e) = ChunksAt(st, e) \cup (IF e = x THEN {p} ELSE {})
  BY ChunkLinked
<1>2. /\ \A a : {b \in Nat : <<a, b>> \in {}} = {}
      /\ \A e : {q \in Passages : <<e, q>> \in {<<x, p>>}} = IF e = x THEN {p} ELSE {}
  OBVIOUS
<1> HIDE DEF new
<1>3. Grows(new, st, {}, {<<x, p>>})
  BY <1>1, <1>2 DEF Grows
<1> QED BY <1>3 DEF new

LEMMA RelationGrows ==
  ASSUME NEW st \in StoreSet, NEW s \in Nat, NEW o \in Nat, s # o
  PROVE  Grows(AddRelation(st, s, o), st, {<<s, o>>, <<o, s>>}, {})
<1> DEFINE new == AddRelation(st, s, o)
<1>1. /\ new \in StoreSet /\ \A e : ChunksAt(new, e) = ChunksAt(st, e)
      /\ \A a : Ends(new, a) = Ends(st, a) \cup Across(a, s, o)
  BY RelationAdded
<1>2. \A e : {q \in Passages : <<e, q>> \in {}} = {}
  OBVIOUS
<1>3. ASSUME NEW a PROVE {b \in Nat : <<a, b>> \in {<<s, o>>, <<o, s>>}} = Across(a, s, o)
  BY DEF Across
<1> HIDE DEF new
<1>4. Grows(new, st, {<<s, o>>, <<o, s>>}, {})
  BY <1>1, <1>2, <1>3 DEF Grows
<1> QED BY <1>4 DEF new

LEMMA GrowsThenGrows ==
  ASSUME NEW a, NEW b, NEW c, NEW rel, NEW more, NEW links, NEW others,
         Grows(b, a, rel, links), Grows(c, b, more, others)
  PROVE  Grows(c, a, rel \cup more, links \cup others)
BY DEF Grows

LEMMA RelateGrows ==
  ASSUME NEW st \in StoreSet, NEW t \in Nat \X Nat, t[1] # t[2], NEW p \in Passages
  PROVE  Grows(Relate(st, t, p), st, {t, <<t[2], t[1]>>}, {t[1], t[2]} \X {p})
<1> DEFINE one == AddRelation(st, t[1], t[2])
           two == LinkChunk(one, t[1], p)
           new == LinkChunk(two, t[2], p)
           rel == {t, <<t[2], t[1]>>}
<1>1. t[1] \in Nat /\ t[2] \in Nat /\ t = <<t[1], t[2]>>
  OBVIOUS
<1>2. Grows(one, st, {<<t[1], t[2]>>, <<t[2], t[1]>>}, {})
  BY <1>1, RelationGrows
<1>3. Grows(one, st, rel, {})
  BY <1>1, <1>2
<1>4. one \in StoreSet
  BY <1>3 DEF Grows
<1> HIDE DEF one, rel
<1>5. Grows(two, one, {}, {<<t[1], p>>})
  BY <1>1, <1>4, LinkGrows
<1>6. two \in StoreSet
  BY <1>5 DEF Grows
<1> HIDE DEF two
<1>7. Grows(new, two, {}, {<<t[2], p>>})
  BY <1>1, <1>6, LinkGrows
<1>8. new = Relate(st, t, p)
  BY DEF Relate, two, one
<1> HIDE DEF new
<1>9. Grows(two, st, rel \cup {}, {} \cup {<<t[1], p>>})
  BY <1>3, <1>5, GrowsThenGrows
<1>10. Grows(new, st, (rel \cup {}) \cup {}, ({} \cup {<<t[1], p>>}) \cup {<<t[2], p>>})
  BY <1>7, <1>9, GrowsThenGrows
<1>11. (rel \cup {}) \cup {} = rel /\ ({} \cup {<<t[1], p>>}) \cup {<<t[2], p>>} = {t[1], t[2]} \X {p}
  OBVIOUS
<1>12. Grows(new, st, rel, {t[1], t[2]} \X {p})
  BY <1>10, <1>11
<1> QED BY <1>8, <1>12 DEF rel

LEMMA NamesGrow ==
  ASSUME NEW st \in StoreSet, NEW names \in Seq(Nat), NEW p \in Passages
  PROVE  LET named[n \in 0 .. Len(names)] == IF n = 0 THEN st ELSE LinkChunk(named[n - 1], names[n], p)
         IN  Grows(named[Len(names)], st, {}, Range(names) \X {p})
<1> DEFINE L == Len(names)
           Turn(d, n) == LinkChunk(d, names[n], p)
<1>1. L \in Nat /\ \A n \in 1 .. L : names[n] \in Nat
  BY ElementOfSeq
<1> HIDE DEF L
<1>2. ASSUME NEW n \in 1 .. L, NEW d \in StoreSet
      PROVE  Turn(d, n) \in StoreSet /\ Grows(Turn(d, n), d, {}, {<<names[n], p>>})
  <2>1. Grows(Turn(d, n), d, {}, {<<names[n], p>>})
    BY <1>1, LinkGrows
  <2> QED BY <2>1 DEF Grows
<1> DEFINE step == [n \in 1 .. L |-> [d \in StoreSet |-> Turn(d, n)]]
           Fun(g) == [n \in 0 .. L |-> IF n = 0 THEN st ELSE Turn(g[n - 1], n)]
           named == CHOOSE g : g = Fun(g)
<1> HIDE DEF Turn
<1>6. step \in [1 .. L -> [StoreSet -> StoreSet]] /\ \A n \in 1 .. L, d \in StoreSet : step[n][d] = Turn(d, n)
  BY <1>2
<1> HIDE DEF step
<1>7. \E g : g = Fun(g)
  <2>1. PICK g : Iterated(g, L, StoreSet, st, step)
    BY <1>1, <1>6, Iterates
  <2>2. g \in [0 .. L -> StoreSet] /\ g[0] = st /\ \A n \in 1 .. L : g[n] = step[n][g[n - 1]]
    BY <2>1 DEF Iterated
  <2>3. ASSUME NEW n \in 0 .. L PROVE g[n] = IF n = 0 THEN st ELSE Turn(g[n - 1], n)
    <3>1. CASE n = 0
      BY <2>2, <3>1
    <3>2. CASE n # 0
      <4>1. n \in 1 .. L /\ n - 1 \in 0 .. L
        BY <1>1, <3>2
      <4>2. g[n - 1] \in StoreSet
        BY <2>2, <4>1
      <4> QED BY <1>6, <2>2, <3>2, <4>1, <4>2
    <3> QED BY <3>1, <3>2
  <2>4. g = Fun(g)
    BY <2>2, <2>3
  <2> QED BY <2>4
<1>8. named = Fun(named)
  <2> HIDE DEF Fun
  <2> QED BY <1>7
<1> HIDE DEF named
<1>9. named[0] = st /\ \A n \in 1 .. L : named[n] = Turn(named[n - 1], n)
  <2>1. \A n \in 0 .. L : named[n] = IF n = 0 THEN st ELSE Turn(named[n - 1], n)
    BY <1>8
  <2>2. 0 \in 0 .. L /\ \A n \in 1 .. L : n \in 0 .. L /\ n # 0
    BY <1>1
  <2> HIDE DEF Fun
  <2> QED BY <2>1, <2>2
<1> HIDE DEF Fun
<1> DEFINE rel == [n \in 1 .. L |-> {}]
           links == [n \in 1 .. L |-> {<<names[n], p>>}]
<1>3. ASSUME NEW n \in 1 .. L, named[n - 1] \in StoreSet
      PROVE  Grows(named[n], named[n - 1], rel[n], links[n])
  <2>1. named[n] = Turn(named[n - 1], n) /\ rel[n] = {} /\ links[n] = {<<names[n], p>>}
    BY <1>9
  <2>2. Grows(Turn(named[n - 1], n), named[n - 1], {}, {<<names[n], p>>})
    BY <1>2, <1>3
  <2> QED BY <2>1, <2>2
<1>4. Gathered(rel, L) = {} /\ Gathered(links, L) = Range(names) \X {p}
  <2>1. DOMAIN names = 1 .. L
    BY DEF L
  <2> QED BY <2>1 DEF Range, Gathered
<1> HIDE DEF rel, links
<1>5. Grows(named[L], st, {}, Range(names) \X {p})
  <2>1. Grows(named[L], named[0], Gathered(rel, L), Gathered(links, L))
    <3>1. named[0] \in StoreSet /\ L \in Nat
      BY <1>1, <1>9
    <3>2. \A n \in 1 .. L : named[n - 1] \in StoreSet => Grows(named[n], named[n - 1], rel[n], links[n])
      BY <1>3
    <3> QED BY <3>1, <3>2, GrowsByTurns
  <2> QED BY <1>9, <1>4, <2>1
<1> QED BY <1>5 DEF named, Fun, Turn, L

LEMMA TriplesGrow ==
  ASSUME NEW st \in StoreSet, NEW triples \in Seq({t \in Nat \X Nat : t[1] # t[2]}), NEW p \in Passages
  PROVE  LET told[n \in 0 .. Len(triples)] == IF n = 0 THEN st ELSE Relate(told[n - 1], triples[n], p)
         IN  Grows(told[Len(triples)], st, Range(triples) \cup {<<t[2], t[1]>> : t \in Range(triples)},
                   (UNION {{t[1], t[2]} : t \in Range(triples)}) \X {p})
<1> DEFINE L == Len(triples)
           Turn(d, n) == Relate(d, triples[n], p)
           rel == [n \in 1 .. L |-> {triples[n], <<triples[n][2], triples[n][1]>>}]
           links == [n \in 1 .. L |-> {triples[n][1], triples[n][2]} \X {p}]
<1>1. L \in Nat /\ \A n \in 1 .. L : triples[n] \in Nat \X Nat /\ triples[n][1] # triples[n][2]
  <2>1. \A n \in 1 .. Len(triples) : triples[n] \in {t \in Nat \X Nat : t[1] # t[2]}
    BY ElementOfSeq
  <2> QED BY <2>1
<1>4. /\ Gathered(rel, L) = Range(triples) \cup {<<t[2], t[1]>> : t \in Range(triples)}
      /\ Gathered(links, L) = (UNION {{t[1], t[2]} : t \in Range(triples)}) \X {p}
  <2>1. DOMAIN triples = 1 .. L
    OBVIOUS
  <2>2. /\ \A n \in 1 .. L : triples[n] \in Range(triples)
        /\ \A t \in Range(triples) : \E n \in 1 .. L : triples[n] = t
    BY <2>1 DEF Range
  <2> HIDE DEF L
  <2>3. Gathered(rel, L) = Range(triples) \cup {<<t[2], t[1]>> : t \in Range(triples)}
    BY <2>2 DEF Gathered
  <2>4. ASSUME NEW l PROVE l \in Gathered(links, L) <=> l \in (UNION {{t[1], t[2]} : t \in Range(triples)}) \X {p}
    <3>1. l \in Gathered(links, L) <=> \E n \in 1 .. L : l \in {triples[n][1], triples[n][2]} \X {p}
      BY DEF Gathered
    <3>2. l \in (UNION {{t[1], t[2]} : t \in Range(triples)}) \X {p}
            <=> \E t \in Range(triples) : l \in {t[1], t[2]} \X {p}
      OBVIOUS
    <3> QED BY <2>2, <3>1, <3>2
  <2> QED BY <2>3, <2>4
<1> HIDE DEF L
<1>5. \A n \in 1 .. L : /\ rel[n] = {triples[n], <<triples[n][2], triples[n][1]>>}
                        /\ links[n] = {triples[n][1], triples[n][2]} \X {p}
  OBVIOUS
<1> HIDE DEF rel, links
<1>2. ASSUME NEW n \in 1 .. L, NEW d \in StoreSet
      PROVE  Turn(d, n) \in StoreSet /\ Grows(Turn(d, n), d, rel[n], links[n])
  <2>1. Grows(Turn(d, n), d, rel[n], links[n])
    BY <1>1, <1>5, RelateGrows
  <2> QED BY <2>1 DEF Grows
<1> DEFINE step == [n \in 1 .. L |-> [d \in StoreSet |-> Turn(d, n)]]
           Fun(g) == [n \in 0 .. L |-> IF n = 0 THEN st ELSE Turn(g[n - 1], n)]
           told == CHOOSE g : g = Fun(g)
<1> HIDE DEF Turn
<1>8. step \in [1 .. L -> [StoreSet -> StoreSet]] /\ \A n \in 1 .. L, d \in StoreSet : step[n][d] = Turn(d, n)
  BY <1>2
<1> HIDE DEF step
<1>9. \E g : g = Fun(g)
  <2>1. PICK g : Iterated(g, L, StoreSet, st, step)
    BY <1>1, <1>8, Iterates
  <2>2. g \in [0 .. L -> StoreSet] /\ g[0] = st /\ \A n \in 1 .. L : g[n] = step[n][g[n - 1]]
    BY <2>1 DEF Iterated
  <2>3. ASSUME NEW n \in 0 .. L PROVE g[n] = IF n = 0 THEN st ELSE Turn(g[n - 1], n)
    <3>1. CASE n = 0
      BY <2>2, <3>1
    <3>2. CASE n # 0
      <4>1. n \in 1 .. L /\ n - 1 \in 0 .. L
        BY <1>1, <3>2
      <4>2. g[n - 1] \in StoreSet
        BY <2>2, <4>1
      <4> QED BY <1>8, <2>2, <3>2, <4>1, <4>2
    <3> QED BY <3>1, <3>2
  <2>4. g = Fun(g)
    BY <2>2, <2>3
  <2> QED BY <2>4
<1>10. told = Fun(told)
  <2> HIDE DEF Fun
  <2> QED BY <1>9
<1> HIDE DEF told
<1>11. told[0] = st /\ \A n \in 1 .. L : told[n] = Turn(told[n - 1], n)
  <2>1. \A n \in 0 .. L : told[n] = IF n = 0 THEN st ELSE Turn(told[n - 1], n)
    BY <1>10
  <2>2. 0 \in 0 .. L /\ \A n \in 1 .. L : n \in 0 .. L /\ n # 0
    BY <1>1
  <2> HIDE DEF Fun
  <2> QED BY <2>1, <2>2
<1> HIDE DEF Fun
<1>3. ASSUME NEW n \in 1 .. L, told[n - 1] \in StoreSet
      PROVE  Grows(told[n], told[n - 1], rel[n], links[n])
  <2>1. told[n] = Turn(told[n - 1], n)
    BY <1>11
  <2> QED BY <1>2, <1>3, <2>1
<1>6. Grows(told[L], told[0], Gathered(rel, L), Gathered(links, L))
  <2>1. told[0] \in StoreSet /\ L \in Nat
    BY <1>1, <1>11
  <2>2. \A n \in 1 .. L : told[n - 1] \in StoreSet => Grows(told[n], told[n - 1], rel[n], links[n])
    BY <1>3
  <2> QED BY <2>1, <2>2, GrowsByTurns
<1>7. Grows(told[L], st, Range(triples) \cup {<<t[2], t[1]>> : t \in Range(triples)},
            (UNION {{t[1], t[2]} : t \in Range(triples)}) \X {p})
  BY <1>11, <1>4, <1>6
<1> QED BY <1>7 DEF told, Fun, Turn, L

LEMMA PairsGrow ==
  ASSUME NEW st \in StoreSet, NEW pairs \in Seq({c \in Nat \X Nat : c[1] # c[2]})
  PROVE  LET met[n \in 0 .. Len(pairs)] ==
               IF n = 0 THEN st ELSE AddRelation(met[n - 1], pairs[n][1], pairs[n][2])
         IN  Grows(met[Len(pairs)], st, Range(pairs) \cup {<<c[2], c[1]>> : c \in Range(pairs)}, {})
<1> DEFINE L == Len(pairs)
           Turn(d, n) == AddRelation(d, pairs[n][1], pairs[n][2])
           rel == [n \in 1 .. L |-> {pairs[n], <<pairs[n][2], pairs[n][1]>>}]
           links == [n \in 1 .. L |-> {}]
<1>1. L \in Nat /\ \A n \in 1 .. L : /\ pairs[n] \in Nat \X Nat /\ pairs[n][1] # pairs[n][2]
                                     /\ pairs[n] = <<pairs[n][1], pairs[n][2]>>
                                     /\ pairs[n][1] \in Nat /\ pairs[n][2] \in Nat
  <2>1. \A n \in 1 .. Len(pairs) : pairs[n] \in {c \in Nat \X Nat : c[1] # c[2]}
    BY ElementOfSeq
  <2> QED BY <2>1
<1>4. /\ Gathered(rel, L) = Range(pairs) \cup {<<c[2], c[1]>> : c \in Range(pairs)}
      /\ Gathered(links, L) = {}
  <2>1. DOMAIN pairs = 1 .. L
    OBVIOUS
  <2>2. Range(pairs) = {pairs[n] : n \in 1 .. L}
    BY <2>1 DEF Range
  <2> HIDE DEF L
  <2>3. \A x : x \in Gathered(rel, L) <=>
                \E n \in 1 .. L : x = pairs[n] \/ x = <<pairs[n][2], pairs[n][1]>>
    BY DEF Gathered
  <2>4. \A x : x \in Range(pairs) \cup {<<c[2], c[1]>> : c \in Range(pairs)} <=>
                \E n \in 1 .. L : x = pairs[n] \/ x = <<pairs[n][2], pairs[n][1]>>
    BY <2>2
  <2>5. Gathered(links, L) = {}
    BY DEF Gathered
  <2> HIDE DEF rel, links
  <2>6. Gathered(rel, L) = Range(pairs) \cup {<<c[2], c[1]>> : c \in Range(pairs)}
    BY <2>3, <2>4
  <2> QED BY <2>5, <2>6
<1> HIDE DEF L
<1>5. \A n \in 1 .. L : rel[n] = {<<pairs[n][1], pairs[n][2]>>, <<pairs[n][2], pairs[n][1]>>} /\ links[n] = {}
  BY <1>1
<1> HIDE DEF rel, links
<1>2. ASSUME NEW n \in 1 .. L, NEW d \in StoreSet
      PROVE  Turn(d, n) \in StoreSet /\ Grows(Turn(d, n), d, rel[n], links[n])
  <2>1. Grows(Turn(d, n), d, {<<pairs[n][1], pairs[n][2]>>, <<pairs[n][2], pairs[n][1]>>}, {})
    BY <1>1, RelationGrows
  <2>2. Grows(Turn(d, n), d, rel[n], links[n])
    BY <1>5, <2>1
  <2> QED BY <2>2 DEF Grows
<1> DEFINE step == [n \in 1 .. L |-> [d \in StoreSet |-> Turn(d, n)]]
           Fun(g) == [n \in 0 .. L |-> IF n = 0 THEN st ELSE Turn(g[n - 1], n)]
           met == CHOOSE g : g = Fun(g)
<1> HIDE DEF Turn
<1>8. step \in [1 .. L -> [StoreSet -> StoreSet]] /\ \A n \in 1 .. L, d \in StoreSet : step[n][d] = Turn(d, n)
  BY <1>2
<1> HIDE DEF step
<1>9. \E g : g = Fun(g)
  <2>1. PICK g : Iterated(g, L, StoreSet, st, step)
    BY <1>1, <1>8, Iterates
  <2>2. g \in [0 .. L -> StoreSet] /\ g[0] = st /\ \A n \in 1 .. L : g[n] = step[n][g[n - 1]]
    BY <2>1 DEF Iterated
  <2>3. ASSUME NEW n \in 0 .. L PROVE g[n] = IF n = 0 THEN st ELSE Turn(g[n - 1], n)
    <3>1. CASE n = 0
      BY <2>2, <3>1
    <3>2. CASE n # 0
      <4>1. n \in 1 .. L /\ n - 1 \in 0 .. L
        BY <1>1, <3>2
      <4>2. g[n - 1] \in StoreSet
        BY <2>2, <4>1
      <4> QED BY <1>8, <2>2, <3>2, <4>1, <4>2
    <3> QED BY <3>1, <3>2
  <2>4. g = Fun(g)
    BY <2>2, <2>3
  <2> QED BY <2>4
<1>10. met = Fun(met)
  <2> HIDE DEF Fun
  <2> QED BY <1>9
<1> HIDE DEF met
<1>11. met[0] = st /\ \A n \in 1 .. L : met[n] = Turn(met[n - 1], n)
  <2>1. \A n \in 0 .. L : met[n] = IF n = 0 THEN st ELSE Turn(met[n - 1], n)
    BY <1>10
  <2>2. 0 \in 0 .. L /\ \A n \in 1 .. L : n \in 0 .. L /\ n # 0
    BY <1>1
  <2> HIDE DEF Fun
  <2> QED BY <2>1, <2>2
<1> HIDE DEF Fun
<1>3. ASSUME NEW n \in 1 .. L, met[n - 1] \in StoreSet
      PROVE  Grows(met[n], met[n - 1], rel[n], links[n])
  <2>1. met[n] = Turn(met[n - 1], n)
    BY <1>11
  <2> QED BY <1>2, <1>3, <2>1
<1>6. Grows(met[L], met[0], Gathered(rel, L), Gathered(links, L))
  <2>1. met[0] \in StoreSet /\ L \in Nat
    BY <1>1, <1>11
  <2>2. \A n \in 1 .. L : met[n - 1] \in StoreSet => Grows(met[n], met[n - 1], rel[n], links[n])
    BY <1>3
  <2> QED BY <2>1, <2>2, GrowsByTurns
<1>7. Grows(met[L], st, Range(pairs) \cup {<<c[2], c[1]>> : c \in Range(pairs)}, {})
  BY <1>11, <1>4, <1>6
<1> QED BY <1>7 DEF met, Fun, Turn, L

-----------------------------------------------------------------------------
\* Pairs of numbers in their order.
LEMMA PairsInOrder ==
  ASSUME NEW S \in SUBSET (Nat \X Nat), IsFiniteSet(S)
  PROVE  Enumerates(Lexicographic(S), S, {c \in S \X S : Precedes(c[1], c[2])})
<1> DEFINE R == {c \in S \X S : Precedes(c[1], c[2])}
<1>1. \A x, y \in S : <<x, y>> \in R <=> Precedes(x, y)
  OBVIOUS
<1>2. \A x \in S : x[1] \in Nat /\ x[2] \in Nat /\ x = <<x[1], x[2]>>
  OBVIOUS
<1> HIDE DEF R
<1>3. \A x \in S : ~Precedes(x, x)
  BY <1>2 DEF Precedes
<1>4. \A x, y, z \in S : Precedes(x, y) /\ Precedes(y, z) => Precedes(x, z)
  BY <1>2 DEF Precedes
<1>5. \A x, y \in S : x # y => Precedes(x, y) \/ Precedes(y, x)
  BY <1>2 DEF Precedes
<1>6. StrictOrder(S, R)
  BY <1>1, <1>3, <1>4, <1>5 DEF StrictOrder
<1>7. Enumerates(InOrder(S, R), S, R)
  BY <1>6, InOrderEnumerates
<1> QED BY <1>7 DEF Lexicographic, R

LEMMA Enumerated ==
  ASSUME NEW seq, NEW S, NEW R, Enumerates(seq, S, R)
  PROVE  seq \in Seq(S) /\ Range(seq) = S /\ IsInjective(seq)
<1>1. seq \in Seq(S) /\ DOMAIN seq = 1 .. Len(seq)
  BY DEF Enumerates
<1>2. \A n \in DOMAIN seq : seq[n] \in S
  BY <1>1, ElementOfSeq
<1> QED BY <1>1, <1>2 DEF Enumerates, Range, IsInjective

-----------------------------------------------------------------------------
CurrentStore == [edges |-> edges, linked |-> linked]
GraphInv ==
  /\ CurrentStore \in StoreSet
  /\ \A a : Ends(CurrentStore, a) = {b \in Nat : <<a, b>> \in Related}
  /\ \A e : ChunksAt(CurrentStore, e) = {p \in Built : e \in EntitiesOf(p)}

\* What the invariant says of the variables.
LEMMA GraphParts ==
  ASSUME GraphInv
  PROVE  /\ Entities \subseteq Nat /\ IsFiniteSet(Entities) /\ DOMAIN linked = Entities
         /\ \A a \in Entities : edges[a] \in Seq(Entities) /\ Range(edges[a]) = {b \in Entities : <<a, b>> \in Related}
         /\ \A e \in Entities : /\ linked[e] \in Seq(Passages) /\ IsInjective(linked[e])
                                /\ Range(linked[e]) = {p \in Built : e \in EntitiesOf(p)}
         /\ Built \subseteq Passages /\ \A p \in Built : EntitiesOf(p) \subseteq Entities
         /\ Mirrored(edges)
<1>1. CurrentStore.edges = edges /\ CurrentStore.linked = linked
  BY DEF CurrentStore
<1>2. /\ Entities \subseteq Nat /\ IsFiniteSet(Entities) /\ DOMAIN linked = Entities
      /\ \A a \in Entities : edges[a] \in Seq(Entities) /\ Range(edges[a]) \subseteq Entities
      /\ \A e \in Entities : linked[e] \in Seq(Passages) /\ IsInjective(linked[e])
                             /\ Range(linked[e]) \subseteq Passages
      /\ Mirrored(edges)
  BY <1>1, StoreParts DEF GraphInv, Entities
<1>3. \A a \in Entities : Range(edges[a]) = {b \in Nat : <<a, b>> \in Related}
  BY <1>1 DEF GraphInv, Ends, Entities
<1>4. ASSUME NEW a \in Entities PROVE Range(edges[a]) = {b \in Entities : <<a, b>> \in Related}
  <2>1. Range(edges[a]) \subseteq Entities /\ Range(edges[a]) = {b \in Nat : <<a, b>> \in Related}
    BY <1>2, <1>3
  <2> QED BY <1>2, <2>1
<1>5. \A e \in Entities : Range(linked[e]) = {p \in Built : e \in EntitiesOf(p)}
  BY <1>1, <1>2 DEF GraphInv, ChunksAt
<1>6. Built \subseteq Passages
  BY <1>2 DEF Built
<1>8. \A e : ChunksAt(CurrentStore, e) = {p \in Built : e \in EntitiesOf(p)}
  BY DEF GraphInv
<1>7. \A p \in Built : EntitiesOf(p) \subseteq Entities
  <2>1. ASSUME NEW p \in Built, NEW e, e \in EntitiesOf(p) PROVE e \in Entities
    <3>1. p \in ChunksAt(CurrentStore, e)
      BY <1>8, <2>1
    <3> QED BY <1>1, <1>2, <3>1 DEF ChunksAt
  <2> QED BY <2>1
<1> QED BY <1>2, <1>4, <1>5, <1>6, <1>7

LEMMA GraphTyped == GraphInv => GraphTypeOK
<1>1. ASSUME GraphInv PROVE GraphTypeOK
  <2>1. /\ DOMAIN linked = Entities /\ Mirrored(edges)
        /\ \A e \in Entities : IsInjective(linked[e]) /\ Range(linked[e]) = {p \in Built : e \in EntitiesOf(p)}
    BY <1>1, GraphParts
  <2> QED BY <2>1 DEF GraphTypeOK, Mirrored, Entities
<1> QED BY <1>1

\* What is built are the chunks of any entity.
LEMMA BuiltOf ==
  ASSUME DOMAIN linked = Entities
  PROVE  \A p : p \in Built <=> \E e : p \in ChunksAt(CurrentStore, e)
BY DEF Built, ChunksAt, CurrentStore

\* What a chunk has to write, entities first, is all it says.
LEMMA ChunkWrites ==
  ASSUME GraphAssumption, GraphInv, NEW p \in Passages, WriteChunk(p)
  PROVE  Grows(CurrentStore', CurrentStore, RelatedIn(p), EntitiesOf(p) \X {p})
<1> DEFINE names == Ascending(p.entities)
           triples == Lexicographic(p.triples)
           across == {c \in p.entities \X p.entities : c[1] < c[2]}
           pairs == Lexicographic(across)
           named == CHOOSE g : g = [n \in 0 .. Len(names) |->
                      IF n = 0 THEN [edges |-> edges, linked |-> linked] ELSE LinkChunk(g[n - 1], names[n], p)]
           told == CHOOSE g : g = [n \in 0 .. Len(triples) |->
                      IF n = 0 THEN named[Len(names)] ELSE Relate(g[n - 1], triples[n], p)]
           met == CHOOSE g : g = [n \in 0 .. Len(pairs) |->
                      IF n = 0 THEN told[Len(triples)] ELSE AddRelation(g[n - 1], pairs[n][1], pairs[n][2])]
           one == named[Len(names)]
           two == told[Len(triples)]
           new == met[Len(pairs)]
<1>1. /\ p.entities \in SUBSET Nat /\ IsFiniteSet(p.entities)
      /\ p.triples \in SUBSET (Nat \X Nat) /\ IsFiniteSet(p.triples)
      /\ \A t \in p.triples : t[1] # t[2]
  BY DEF GraphAssumption
<1>2. edges' = new.edges /\ linked' = new.linked
  BY DEF WriteChunk
<1>3. names \in Seq(Nat) /\ Range(names) = p.entities
  <2>1. p.entities \in SUBSET Int
    BY <1>1
  <2>2. Enumerates(names, p.entities, {q \in p.entities \X p.entities : q[1] < q[2]})
    BY <1>1, <2>1, NumbersInOrder DEF Ascending
  <2>3. names \in Seq(p.entities) /\ Range(names) = p.entities
    BY <2>2, Enumerated
  <2> QED BY <1>1, <2>3
<1>4. triples \in Seq({t \in Nat \X Nat : t[1] # t[2]}) /\ Range(triples) = p.triples
  <2>1. triples \in Seq(p.triples) /\ Range(triples) = p.triples
    BY <1>1, PairsInOrder, Enumerated
  <2>2. p.triples \subseteq {t \in Nat \X Nat : t[1] # t[2]}
    BY <1>1
  <2> QED BY <2>1, <2>2
<1>5. pairs \in Seq({c \in Nat \X Nat : c[1] # c[2]}) /\ Range(pairs) = across
  <2>1. IsFiniteSet(p.entities \X p.entities) /\ across \in SUBSET (p.entities \X p.entities)
    BY <1>1, FS_Product
  <2>2. IsFiniteSet(across)
    BY <2>1, FS_Subset
  <2>3. across \in SUBSET (Nat \X Nat) /\ across \subseteq {c \in Nat \X Nat : c[1] # c[2]}
    BY <1>1
  <2> HIDE DEF across
  <2>4. pairs \in Seq(across) /\ Range(pairs) = across
    BY <2>2, <2>3, PairsInOrder, Enumerated
  <2> QED BY <2>3, <2>4
<1>6. CurrentStore = [edges |-> edges, linked |-> linked] /\ CurrentStore \in StoreSet
  BY DEF CurrentStore, GraphInv
<1> HIDE DEF names, triples, pairs
<1>7. Grows(one, CurrentStore, {}, Range(names) \X {p}) /\ one \in StoreSet
  <2>1. Grows(one, CurrentStore, {}, Range(names) \X {p})
    <3>1. [edges |-> edges, linked |-> linked] \in StoreSet
      BY <1>6
    <3>2. Grows(one, [edges |-> edges, linked |-> linked], {}, Range(names) \X {p})
      BY <1>3, <3>1, NamesGrow
    <3> QED BY <1>6, <3>2
  <2> HIDE DEF one
  <2> QED BY <2>1 DEF Grows
<1> HIDE DEF named, one
<1>8. /\ Grows(two, one, Range(triples) \cup {<<t[2], t[1]>> : t \in Range(triples)},
               (UNION {{t[1], t[2]} : t \in Range(triples)}) \X {p})
      /\ two \in StoreSet
  <2>1. Grows(two, one, Range(triples) \cup {<<t[2], t[1]>> : t \in Range(triples)},
              (UNION {{t[1], t[2]} : t \in Range(triples)}) \X {p})
    BY <1>4, <1>7, TriplesGrow DEF one
  <2> HIDE DEF two
  <2> QED BY <2>1 DEF Grows
<1> HIDE DEF told, two
<1>9. Grows(new, two, Range(pairs) \cup {<<c[2], c[1]>> : c \in Range(pairs)}, {})
  BY <1>5, <1>8, PairsGrow DEF two
<1> HIDE DEF met, new
<1> DEFINE ofTriples == p.triples \cup {<<t[2], t[1]>> : t \in p.triples}
           ofPairs == across \cup {<<c[2], c[1]>> : c \in across}
           ends == UNION {{t[1], t[2]} : t \in p.triples}
<1>10. Grows(new, CurrentStore, ({} \cup ofTriples) \cup ofPairs, ((p.entities \X {p}) \cup (ends \X {p})) \cup {})
  <2>1. Grows(one, CurrentStore, {}, p.entities \X {p})
    BY <1>3, <1>7
  <2>2. Grows(two, one, ofTriples, ends \X {p})
    BY <1>4, <1>8
  <2>3. Grows(new, two, ofPairs, {})
    BY <1>5, <1>9
  <2> HIDE DEF ofTriples, ofPairs, ends
  <2>4. Grows(two, CurrentStore, {} \cup ofTriples, (p.entities \X {p}) \cup (ends \X {p}))
    BY <2>1, <2>2, GrowsThenGrows
  <2> QED BY <2>3, <2>4, GrowsThenGrows
<1>11. ofPairs = {r \in p.entities \X p.entities : r[1] # r[2]}
  <2>1. \A x, y \in p.entities : x # y <=> (x < y \/ y < x)
    BY <1>1
  <2>2. ASSUME NEW r PROVE r \in ofPairs <=> (r \in p.entities \X p.entities /\ r[1] # r[2])
    <3>1. r \in across => r \in p.entities \X p.entities /\ r[1] # r[2]
      BY <2>1
    <3>2. ASSUME NEW c \in across, r = <<c[2], c[1]>> PROVE r \in p.entities \X p.entities /\ r[1] # r[2]
      BY <2>1, <3>2
    <3>3. ASSUME r \in p.entities \X p.entities, r[1] # r[2] PROVE r \in ofPairs
      <4>1. PICK x \in p.entities, y \in p.entities : r = <<x, y>> /\ x # y
        BY <3>3
      <4>2. CASE x < y
        BY <4>1, <4>2
      <4>3. CASE y < x
        <5>1. <<y, x>> \in across /\ r = <<(<<y, x>>)[2], (<<y, x>>)[1]>>
          BY <4>1, <4>3
        <5> QED BY <5>1
      <4> QED BY <2>1, <4>1, <4>2, <4>3
    <3> QED BY <3>1, <3>2, <3>3
  <2> HIDE DEF ofPairs
  <2> QED BY <2>2
<1>12. ({} \cup ofTriples) \cup ofPairs = RelatedIn(p)
  <2> HIDE DEF ofPairs
  <2>1. RelatedIn(p) = {r \in p.entities \X p.entities : r[1] # r[2]} \cup ofTriples
    BY DEF RelatedIn
  <2> HIDE DEF ofTriples
  <2> QED BY <1>11, <2>1
<1>13. ((p.entities \X {p}) \cup (ends \X {p})) \cup {} = EntitiesOf(p) \X {p}
  <2>1. EntitiesOf(p) = p.entities \cup ends
    BY DEF EntitiesOf
  <2> HIDE DEF ends
  <2> QED BY <2>1
<1> HIDE DEF ofTriples, ofPairs, ends
<1>14. Grows(new, CurrentStore, RelatedIn(p), EntitiesOf(p) \X {p})
  BY <1>10, <1>12, <1>13
<1>15. new \in StoreSet
  BY <1>14 DEF Grows
<1>16. CurrentStore' = new
  <2>1. new = [edges |-> new.edges, linked |-> new.linked]
    BY <1>15, StoreParts
  <2> QED BY <1>2, <2>1 DEF CurrentStore
<1> QED BY <1>14, <1>16

LEMMA GraphWrites ==
  ASSUME GraphAssumption, GraphInv, NEW p \in Passages, WriteChunk(p)
  PROVE  GraphInv'
<1>1. Grows(CurrentStore', CurrentStore, RelatedIn(p), EntitiesOf(p) \X {p})
  BY ChunkWrites
<1>2. /\ CurrentStore' \in StoreSet
      /\ \A a : Ends(CurrentStore', a) = Ends(CurrentStore, a) \cup {b \in Nat : <<a, b>> \in RelatedIn(p)}
      /\ \A e : ChunksAt(CurrentStore', e) = ChunksAt(CurrentStore, e) \cup {q \in Passages : <<e, q>> \in EntitiesOf(p) \X {p}}
  BY <1>1 DEF Grows
<1>3. DOMAIN linked = Entities /\ DOMAIN linked' = Entities'
  <2>1. DOMAIN CurrentStore'.linked = DOMAIN CurrentStore'.edges
    BY <1>2, StoreParts
  <2>2. CurrentStore'.linked = linked' /\ CurrentStore'.edges = edges'
    BY DEF CurrentStore
  <2>3. DOMAIN linked = Entities
    BY GraphParts
  <2> QED BY <2>1, <2>2, <2>3 DEF Entities
<1>4. \A e : ChunksAt(CurrentStore, e) = {q \in Built : e \in EntitiesOf(q)}
  BY DEF GraphInv
<1>5. \A q : q \in Built <=> \E e : q \in ChunksAt(CurrentStore, e)
  BY <1>3, BuiltOf
<1>6. \A q : q \in Built' <=> \E e : q \in ChunksAt(CurrentStore', e)
  BY <1>3 DEF Built, ChunksAt, CurrentStore
<1>7. \A q, e : q \in ChunksAt(CurrentStore', e) <=> q \in ChunksAt(CurrentStore, e) \/ (q = p /\ e \in EntitiesOf(p))
  <2>1. ASSUME NEW q, NEW e
        PROVE  q \in ChunksAt(CurrentStore', e) <=> q \in ChunksAt(CurrentStore, e) \/ (q = p /\ e \in EntitiesOf(p))
    <3>1. ChunksAt(CurrentStore', e) = ChunksAt(CurrentStore, e) \cup {c \in Passages : <<e, c>> \in EntitiesOf(p) \X {p}}
      BY <1>2
    <3>2. q \in {c \in Passages : <<e, c>> \in EntitiesOf(p) \X {p}} <=> (q = p /\ e \in EntitiesOf(p))
      OBVIOUS
    <3> QED BY <3>1, <3>2
  <2> QED BY <2>1
<1>8. \A q : q \in Built' <=> q \in Built \/ (q = p /\ EntitiesOf(p) # {})
  BY <1>5, <1>6, <1>7
<1>9. \A e : ChunksAt(CurrentStore', e) = {q \in Built' : e \in EntitiesOf(q)}
  <2>1. ASSUME NEW e, NEW q PROVE q \in ChunksAt(CurrentStore', e) <=> (q \in Built' /\ e \in EntitiesOf(q))
    BY <1>4, <1>7, <1>8
  <2> QED BY <2>1
<1>10. EntitiesOf(p) = {} => RelatedIn(p) = {}
  BY DEF EntitiesOf, RelatedIn
<1>11. \A r : r \in Related' <=> r \in Related \/ r \in RelatedIn(p)
  <2>1. \A r : r \in Related <=> \E q \in Built : r \in RelatedIn(q)
    BY DEF Related
  <2>2. \A r : r \in Related' <=> \E q \in Built' : r \in RelatedIn(q)
    BY DEF Related
  <2> QED BY <1>8, <1>10, <2>1, <2>2
<1>12. \A a : Ends(CurrentStore', a) = {b \in Nat : <<a, b>> \in Related'}
  <2>1. \A a : Ends(CurrentStore, a) = {b \in Nat : <<a, b>> \in Related}
    BY DEF GraphInv
  <2>2. ASSUME NEW a, NEW b PROVE b \in Ends(CurrentStore', a) <=> (b \in Nat /\ <<a, b>> \in Related')
    BY <1>2, <1>11, <2>1
  <2> QED BY <2>2
<1> QED BY <1>2, <1>9, <1>12 DEF GraphInv

LEMMA GraphInductive == GraphAssumption /\ GraphSpec => []GraphInv
<1>1. GraphInit => GraphInv
  <2>1. ASSUME GraphInit PROVE GraphInv
    <3>1. edges = << >> /\ linked = << >> /\ DOMAIN << >> = {}
      BY <2>1 DEF GraphInit
    <3>2. edges = [a \in {} |-> edges[a]] /\ linked = [e \in {} |-> linked[e]]
      BY <3>1
    <3>3. {} \in SUBSET Nat /\ IsFiniteSet({}) /\ Mirrored(edges)
      BY <3>1, FS_EmptySet DEF Mirrored
    <3>4. DOMAIN edges = {} /\ (\A a \in {} : edges[a] \in Seq({}))
          /\ \A e \in {} : linked[e] \in Seq(Passages) /\ IsInjective(linked[e])
      BY <3>1
    <3>5. [edges |-> edges, linked |-> linked] \in StoreSet
      BY <3>2, <3>3, <3>4, InStoreSet
    <3>6. Built = {}
      BY <3>1 DEF Built, Entities
    <3>7. Related = {}
      BY <3>6 DEF Related
    <3>8. /\ \A a : Ends(CurrentStore, a) = {} /\ \A e : ChunksAt(CurrentStore, e) = {}
      BY <3>1 DEF Ends, ChunksAt, CurrentStore
    <3> QED BY <3>5, <3>6, <3>7, <3>8 DEF GraphInv, CurrentStore
  <2> QED BY <2>1
<1>2. ASSUME GraphAssumption, GraphInv, [GraphNext]_graphVars PROVE GraphInv'
  <2>1. CASE GraphNext
    BY <1>2, <2>1, GraphWrites DEF GraphNext
  <2>2. CASE UNCHANGED graphVars
    <3>1. edges' = edges /\ linked' = linked
      BY <2>2 DEF graphVars
    <3>2. CurrentStore' = CurrentStore /\ Built' = Built
      BY <3>1 DEF CurrentStore, Built, Entities
    <3>3. Related' = Related
      BY <3>2 DEF Related
    <3> QED BY <1>2, <3>2, <3>3 DEF GraphInv
  <2> QED BY <1>2, <2>1, <2>2
<1> QED BY <1>1, <1>2, GraphAssumption, PTL DEF GraphSpec

-----------------------------------------------------------------------------
\* The reference: balls around the seeds, each in the next.
Balls(ball, related, seeds) ==
  /\ DOMAIN ball = 0 .. MaxDepth /\ ball[0] = seeds
  /\ \A n \in 1 .. MaxDepth : ball[n] = Wider(related, ball[n - 1])

LEMMA WithinIs ==
  ASSUME MaxDepth \in Nat, NEW related, NEW seeds
  PROVE  Balls(Within(related, seeds), related, seeds)
<1> DEFINE T == SUBSET (seeds \cup {r[2] : r \in related})
           Turn(d, n) == Wider(related, d)
<1>1. MaxDepth \in Nat /\ seeds \in T
  OBVIOUS
<1>2. ASSUME NEW n \in 1 .. MaxDepth, NEW d \in T PROVE Turn(d, n) \in T
  BY DEF Wider
<1> HIDE DEF T
<1> DEFINE step == [n \in 1 .. MaxDepth |-> [d \in T |-> Turn(d, n)]]
           Fun(g) == [n \in 0 .. MaxDepth |-> IF n = 0 THEN seeds ELSE Turn(g[n - 1], n)]
           ball == CHOOSE g : g = Fun(g)
<1> HIDE DEF Turn
<1>5. step \in [1 .. MaxDepth -> [T -> T]] /\ \A n \in 1 .. MaxDepth, d \in T : step[n][d] = Turn(d, n)
  BY <1>2
<1> HIDE DEF step
<1>6. \E g : g = Fun(g)
  <2>1. PICK g : Iterated(g, MaxDepth, T, seeds, step)
    BY <1>1, <1>5, Iterates
  <2>2. g \in [0 .. MaxDepth -> T] /\ g[0] = seeds /\ \A n \in 1 .. MaxDepth : g[n] = step[n][g[n - 1]]
    BY <2>1 DEF Iterated
  <2>3. ASSUME NEW n \in 0 .. MaxDepth PROVE g[n] = IF n = 0 THEN seeds ELSE Turn(g[n - 1], n)
    <3>1. CASE n = 0
      BY <2>2, <3>1
    <3>2. CASE n # 0
      <4>1. n \in 1 .. MaxDepth /\ n - 1 \in 0 .. MaxDepth
        BY <1>1, <3>2
      <4>2. g[n - 1] \in T
        BY <2>2, <4>1
      <4> QED BY <1>5, <2>2, <3>2, <4>1, <4>2
    <3> QED BY <3>1, <3>2
  <2>4. g = Fun(g)
    BY <2>2, <2>3
  <2> QED BY <2>4
<1>7. ball = Fun(ball)
  <2> HIDE DEF Fun
  <2> QED BY <1>6
<1> HIDE DEF ball
<1>8. ball[0] = seeds /\ \A n \in 1 .. MaxDepth : ball[n] = Turn(ball[n - 1], n)
  <2>1. \A n \in 0 .. MaxDepth : ball[n] = IF n = 0 THEN seeds ELSE Turn(ball[n - 1], n)
    BY <1>7
  <2>2. 0 \in 0 .. MaxDepth /\ \A n \in 1 .. MaxDepth : n \in 0 .. MaxDepth /\ n # 0
    BY <1>1
  <2> HIDE DEF Fun
  <2> QED BY <2>1, <2>2
<1> HIDE DEF Fun
<1>3. DOMAIN ball = 0 .. MaxDepth
  <2>1. DOMAIN Fun(ball) = 0 .. MaxDepth
    BY DEF Fun
  <2> HIDE DEF Fun
  <2> QED BY <1>7, <2>1
<1>4. Balls(ball, related, seeds)
  BY <1>8, <1>3 DEF Balls, Turn
<1> QED BY <1>4 DEF Within, ball, Fun, Turn

LEMMA BallsGrow ==
  ASSUME MaxDepth \in Nat, NEW ball, NEW related, NEW seeds, Balls(ball, related, seeds)
  PROVE  \A m \in 0 .. MaxDepth : \A n \in 0 .. m : ball[n] \subseteq ball[m]
<1> DEFINE S == {m \in 0 .. MaxDepth : \A n \in 0 .. m : ball[n] \subseteq ball[m]}
<1>1. 0 \in S
  OBVIOUS
<1>2. ASSUME NEW m \in 0 .. MaxDepth - 1, m \in S PROVE m + 1 \in S
  <2>1. m + 1 \in 1 .. MaxDepth /\ m + 1 \in 0 .. MaxDepth /\ (m + 1) - 1 = m
    OBVIOUS
  <2>2. ball[m] \subseteq ball[m + 1]
    BY <2>1 DEF Balls, Wider
  <2>3. \A n \in 0 .. m + 1 : n \in 0 .. m \/ n = m + 1
    OBVIOUS
  <2> QED BY <1>2, <2>1, <2>2, <2>3
<1>3. 0 .. MaxDepth \subseteq S
  <2> HIDE DEF S
  <2> QED BY <1>1, <1>2, UpTo
<1> QED BY <1>3

\* One hop further.
LEMMA BallSteps ==
  ASSUME MaxDepth \in Nat, NEW ball, NEW related, NEW seeds, Balls(ball, related, seeds),
         NEW n \in 0 .. MaxDepth - 1, NEW o
  PROVE  /\ n + 1 \in 0 .. MaxDepth
         /\ o \in ball[n + 1] <=> o \in ball[n] \/ \E r \in related : r[1] \in ball[n] /\ r[2] = o
<1>1. n + 1 \in 1 .. MaxDepth /\ (n + 1) - 1 = n /\ n + 1 \in 0 .. MaxDepth
  OBVIOUS
<1>2. ball[n + 1] = Wider(related, ball[n])
  BY <1>1 DEF Balls
<1> QED BY <1>1, <1>2 DEF Wider

LEMMA DistanceIs ==
  ASSUME MaxDepth \in Nat, NEW ball, DOMAIN ball = 0 .. MaxDepth, NEW e, NEW d \in 0 .. MaxDepth,
         e \in ball[d], \A m \in 0 .. d - 1 : e \notin ball[m]
  PROVE  Distance(ball, e) = d
<1> DEFINE S == {n \in DOMAIN ball : e \in ball[n]}
<1>1. S \in SUBSET Int /\ d \in S
  OBVIOUS
<1>2. \A n \in S : d <= n
  OBVIOUS
<1> HIDE DEF S
<1>3. Min(S) = d
  BY <1>1, <1>2, IsMin
<1> QED BY <1>3 DEF S, Distance

\* Relations are between entities.
LEMMA RelatedEnds ==
  ASSUME GraphAssumption, GraphInv, NEW r, r \in Related
  PROVE  r = <<r[1], r[2]>> /\ r[1] \in Entities /\ r[2] \in Entities
<1>1. PICK p \in Built : r \in RelatedIn(p)
  BY DEF Related
<1>2. p \in Passages /\ EntitiesOf(p) \subseteq Entities
  BY GraphParts
<1>3. p.triples \subseteq Nat \X Nat
  BY <1>2 DEF GraphAssumption
<1>4. r = <<r[1], r[2]>> /\ r[1] \in EntitiesOf(p) /\ r[2] \in EntitiesOf(p)
  <2>1. CASE r \in p.entities \X p.entities
    BY <2>1 DEF EntitiesOf
  <2>2. CASE r \in p.triples
    BY <1>3, <2>2 DEF EntitiesOf
  <2>3. CASE r \in {<<t[2], t[1]>> : t \in p.triples}
    BY <2>3 DEF EntitiesOf
  <2> QED BY <1>1, <2>1, <2>2, <2>3 DEF RelatedIn
<1> QED BY <1>2, <1>4

-----------------------------------------------------------------------------
\* What is new in a sequence, and a sequence after another one.
LEMMA NewOfRange ==
  ASSUME NEW T, NEW s \in Seq(T), NEW known
  PROVE  /\ NewOf(s, known) \in Seq(T) /\ IsInjective(NewOf(s, known))
         /\ Range(NewOf(s, known)) = Range(s) \ known
<1> DEFINE new == NewOf(s, known)
<1>1. /\ new \in Seq(T)
      /\ \A n \in DOMAIN new : new[n] \notin known /\ \E i \in DOMAIN s : new[n] = s[i]
      /\ \A i \in DOMAIN s : s[i] \notin known => \E n \in DOMAIN new : new[n] = s[i]
      /\ \A m, n \in DOMAIN new : m # n => new[m] # new[n]
  BY NewOfIsNew
<1> HIDE DEF new
<1>2. /\ new \in Seq(T) /\ IsInjective(new) /\ Range(new) = Range(s) \ known
  BY <1>1 DEF IsInjective, Range
<1> QED BY <1>2 DEF new

LEMMA Followed ==
  ASSUME NEW T, NEW s \in Seq(T), NEW t \in Seq(T)
  PROVE  /\ s \o t \in Seq(T) /\ DOMAIN s = 1 .. Len(s) /\ Len(s) \in Nat /\ DOMAIN s \subseteq DOMAIN (s \o t)
         /\ \A i \in DOMAIN s : (s \o t)[i] = s[i]
         /\ \A i \in DOMAIN (s \o t) : i \in DOMAIN s \/ (i > Len(s) /\ (s \o t)[i] \in Range(t))
         /\ Range(s \o t) = Range(s) \cup Range(t)
         /\ IsInjective(s) /\ IsInjective(t) /\ Range(s) \cap Range(t) = {} => IsInjective(s \o t)
<1> DEFINE c == s \o t
<1>1. /\ c \in Seq(T) /\ Len(c) = Len(s) + Len(t) /\ Len(s) \in Nat /\ Len(t) \in Nat
      /\ \A i \in 1 .. Len(s) + Len(t) : c[i] = IF i <= Len(s) THEN s[i] ELSE t[i - Len(s)]
  BY ConcatProperties
<1> HIDE DEF c
<1>2. DOMAIN s = 1 .. Len(s) /\ DOMAIN t = 1 .. Len(t) /\ DOMAIN c = 1 .. Len(s) + Len(t)
  BY <1>1
<1>3. /\ \A i \in DOMAIN s : i \in DOMAIN c /\ c[i] = s[i]
      /\ \A j \in DOMAIN t : Len(s) + j \in DOMAIN c /\ c[Len(s) + j] = t[j]
      /\ \A i \in DOMAIN c : i \in DOMAIN s \/ (i > Len(s) /\ i - Len(s) \in DOMAIN t /\ c[i] = t[i - Len(s)])
  <2>1. \A i \in DOMAIN s : i \in DOMAIN c /\ c[i] = s[i]
    BY <1>1, <1>2
  <2>2. ASSUME NEW j \in DOMAIN t PROVE Len(s) + j \in DOMAIN c /\ c[Len(s) + j] = t[j]
    <3>1. j \in 1 .. Len(t) /\ Len(s) + j \in 1 .. Len(s) + Len(t) /\ ~(Len(s) + j <= Len(s)) /\ (Len(s) + j) - Len(s) = j
      BY <1>1, <1>2
    <3> QED BY <1>1, <1>2, <3>1
  <2>3. ASSUME NEW i \in DOMAIN c
        PROVE  i \in DOMAIN s \/ (i > Len(s) /\ i - Len(s) \in DOMAIN t /\ c[i] = t[i - Len(s)])
    <3>1. i \in 1 .. Len(s) + Len(t)
      BY <1>2
    <3>2. CASE i <= Len(s)
      BY <1>1, <1>2, <3>1, <3>2
    <3>3. CASE ~(i <= Len(s))
      <4>1. i - Len(s) \in 1 .. Len(t) /\ i > Len(s)
        BY <1>1, <3>1, <3>3
      <4> QED BY <1>1, <1>2, <3>1, <3>3, <4>1
    <3> QED BY <3>2, <3>3
  <2> QED BY <2>1, <2>2, <2>3
<1>4. Range(c) = Range(s) \cup Range(t)
  BY <1>3 DEF Range
<1>5. \A i \in DOMAIN c : i \in DOMAIN s \/ (i > Len(s) /\ c[i] \in Range(t))
  BY <1>3 DEF Range
<1>6. ASSUME IsInjective(s), IsInjective(t), Range(s) \cap Range(t) = {} PROVE IsInjective(c)
  <2>1. ASSUME NEW i \in DOMAIN c, NEW j \in DOMAIN c, c[i] = c[j] PROVE i = j
    <3>1. i \in Nat /\ j \in Nat
      BY <1>2
    <3>2. CASE i \in DOMAIN s /\ j \in DOMAIN s
      BY <1>3, <1>6, <2>1, <3>2 DEF IsInjective
    <3>3. CASE i \notin DOMAIN s /\ j \notin DOMAIN s
      <4>1. /\ i - Len(s) \in DOMAIN t /\ j - Len(s) \in DOMAIN t /\ t[i - Len(s)] = t[j - Len(s)]
        BY <1>3, <2>1, <3>3
      <4>2. i - Len(s) = j - Len(s)
        BY <1>6, <4>1 DEF IsInjective
      <4> QED BY <1>1, <3>1, <4>2
    <3>4. CASE i \in DOMAIN s /\ j \notin DOMAIN s
      <4>1. c[i] \in Range(s)
        BY <1>3, <3>4 DEF Range
      <4>2. c[j] \in Range(t)
        BY <1>5, <3>4
      <4> QED BY <1>6, <2>1, <4>1, <4>2
    <3>5. CASE i \notin DOMAIN s /\ j \in DOMAIN s
      <4>1. c[j] \in Range(s)
        BY <1>3, <3>5 DEF Range
      <4>2. c[i] \in Range(t)
        BY <1>5, <3>5
      <4> QED BY <1>6, <2>1, <4>1, <4>2
    <3> QED BY <3>2, <3>3, <3>4, <3>5
  <2> QED BY <2>1 DEF IsInjective
<1> QED BY <1>1, <1>2, <1>3, <1>4, <1>5, <1>6 DEF c

-----------------------------------------------------------------------------
\* The search.  What was reached has its distance; what was taken from the queue
\* has all its neighbours reached; the queue is in the order of the distances,
\* and its last is at most one hop farther than its first.
HopMaps == UNION {[D -> Nat] : D \in SUBSET Entities}
SearchSet ==
  {st \in [order : Seq(Entities), hops : HopMaps] : DOMAIN st.hops = Range(st.order) /\ IsInjective(st.order)}

Nearer(st, i, j) == st.hops[st.order[i]] <= st.hops[st.order[j]]
Behind(st, j, n) == st.hops[st.order[j]] <= st.hops[st.order[n]] + 1
Opened(st, key) == \A o \in Range(edges[key]) : o \in DOMAIN st.hops /\ st.hops[o] <= st.hops[key] + 1

Searching(st, n, ball, seeds, depth) ==
  /\ st \in SearchSet
  /\ \A s \in Range(seeds) : s \in DOMAIN st.hops /\ st.hops[s] = 0
  /\ \A e \in DOMAIN st.hops : st.hops[e] \in 0 .. depth /\ e \in ball[st.hops[e]]
  /\ \A i, j \in DOMAIN st.order : i <= j => Nearer(st, i, j)
  /\ \A i \in DOMAIN st.order : i <= n /\ st.hops[st.order[i]] < depth => Opened(st, st.order[i])
  /\ n + 1 \in DOMAIN st.order => \A j \in DOMAIN st.order : Behind(st, j, n + 1)

LEMMA SearchParts ==
  ASSUME NEW st \in SearchSet
  PROVE  /\ st = [order |-> st.order, hops |-> st.hops]
         /\ st.order \in Seq(Entities) /\ IsInjective(st.order)
         /\ Len(st.order) \in Nat /\ DOMAIN st.order = 1 .. Len(st.order)
         /\ DOMAIN st.hops = Range(st.order) /\ Range(st.order) \subseteq Entities
         /\ st.hops = [e \in DOMAIN st.hops |-> st.hops[e]]
         /\ \A e \in DOMAIN st.hops : st.hops[e] \in Nat
         /\ \A i \in DOMAIN st.order : st.order[i] \in Entities /\ st.order[i] \in DOMAIN st.hops
<1>1. /\ st \in [order : Seq(Entities), hops : HopMaps]
      /\ DOMAIN st.hops = Range(st.order) /\ IsInjective(st.order)
  BY DEF SearchSet
<1>2. PICK D \in SUBSET Entities : st.hops \in [D -> Nat]
  BY <1>1 DEF HopMaps
<1>3. st.order \in Seq(Entities) /\ Len(st.order) \in Nat /\ DOMAIN st.order = 1 .. Len(st.order)
  BY <1>1
<1>4. \A i \in DOMAIN st.order : st.order[i] \in Entities
  BY <1>3, ElementOfSeq
<1>5. \A i \in DOMAIN st.order : st.order[i] \in Range(st.order)
  BY DEF Range
<1> QED BY <1>1, <1>2, <1>3, <1>4, <1>5

\* One turn: nothing, or the n-th is opened.
Opens(st, n, depth, new, key, turned) ==
  /\ n \in DOMAIN st.order /\ key = st.order[n] /\ st.hops[key] < depth
  /\ new \in Seq(Entities) /\ IsInjective(new) /\ Range(new) = Range(edges[key]) \ Range(st.order)
  /\ turned.order = st.order \o new
  /\ DOMAIN turned.hops = DOMAIN st.hops \cup Range(new)
  /\ \A e \in DOMAIN st.hops : turned.hops[e] = st.hops[e]
  /\ \A e \in Range(new) : e \notin DOMAIN st.hops /\ turned.hops[e] = st.hops[key] + 1

LEMMA VisitTurns ==
  ASSUME GraphInv, NEW st \in SearchSet, NEW n \in Nat \ {0}, NEW depth \in Nat
  PROVE  /\ Visit(st, n, depth) \in SearchSet
         /\ \/ /\ n \in DOMAIN st.order => st.hops[st.order[n]] >= depth
               /\ Visit(st, n, depth) = st
            \/ \E new : Opens(st, n, depth, new, st.order[n], Visit(st, n, depth))
<1> DEFINE key == st.order[n]
           new == NewOf(edges[key], Range(st.order))
           order == st.order \o new
           hops == [e \in DOMAIN st.hops \cup Range(new) |->
                      IF e \in DOMAIN st.hops THEN st.hops[e] ELSE st.hops[key] + 1]
           turned == Visit(st, n, depth)
<1>1. /\ st.order \in Seq(Entities) /\ IsInjective(st.order)
      /\ Len(st.order) \in Nat /\ DOMAIN st.order = 1 .. Len(st.order)
      /\ DOMAIN st.hops = Range(st.order) /\ Range(st.order) \subseteq Entities
      /\ \A e \in DOMAIN st.hops : st.hops[e] \in Nat
      /\ \A i \in DOMAIN st.order : st.order[i] \in Entities /\ st.order[i] \in DOMAIN st.hops
  BY SearchParts
<1>2. CASE n > Len(st.order) \/ st.hops[key] >= depth
  <2>1. turned = st
    BY <1>2 DEF Visit
  <2>2. n \in DOMAIN st.order => st.hops[key] >= depth
    BY <1>1, <1>2
  <2> QED BY <2>1, <2>2
<1>3. CASE ~(n > Len(st.order) \/ st.hops[key] >= depth)
  <2>1. n \in DOMAIN st.order /\ key \in Entities /\ key \in DOMAIN st.hops
    BY <1>1, <1>3
  <2>2. st.hops[key] \in Nat /\ st.hops[key] < depth
    BY <1>1, <1>3, <2>1
  <2>3. turned = [order |-> order, hops |-> hops]
    BY <1>3 DEF Visit
  <2>4. edges[key] \in Seq(Entities)
    BY <2>1, GraphParts
  <2>5. new \in Seq(Entities) /\ IsInjective(new) /\ Range(new) = Range(edges[key]) \ Range(st.order)
    BY <2>4, NewOfRange
  <2>6. Range(new) \subseteq Entities
    <3> HIDE DEF new
    <3>1. \A i \in 1 .. Len(new) : new[i] \in Entities
      BY <2>5, ElementOfSeq
    <3>2. DOMAIN new = 1 .. Len(new)
      BY <2>5
    <3> QED BY <3>1, <3>2 DEF Range
  <2> HIDE DEF new
  <2>7. order \in Seq(Entities) /\ Range(order) = Range(st.order) \cup Range(new) /\ IsInjective(order)
    <3>1. Range(st.order) \cap Range(new) = {}
      BY <2>5
    <3> QED BY <1>1, <2>5, <3>1, Followed
  <2>8. /\ DOMAIN hops = DOMAIN st.hops \cup Range(new)
        /\ \A e \in DOMAIN st.hops : hops[e] = st.hops[e]
        /\ \A e \in Range(new) : e \notin DOMAIN st.hops /\ hops[e] = st.hops[key] + 1
    BY <1>1, <2>5
  <2>9. hops \in [DOMAIN st.hops \cup Range(new) -> Nat]
    BY <1>1, <2>2
  <2>10. hops \in HopMaps
    BY <1>1, <2>6, <2>9 DEF HopMaps
  <2> HIDE DEF order, hops
  <2>11. turned \in SearchSet
    <3>1. DOMAIN hops = Range(order)
      BY <1>1, <2>7, <2>8
    <3>2. [order |-> order, hops |-> hops] \in [order : Seq(Entities), hops : HopMaps]
      BY <2>7, <2>10
    <3>3. [order |-> order, hops |-> hops] \in SearchSet
      BY <2>7, <3>1, <3>2 DEF SearchSet
    <3> QED BY <2>3, <3>3
  <2>12. turned.order = order /\ turned.hops = hops
    BY <2>3
  <2> HIDE DEF turned
  <2>13. Opens(st, n, depth, new, key, turned)
    BY <2>1, <2>2, <2>5, <2>8, <2>12 DEF Opens, order
  <2> QED BY <2>11, <2>13 DEF turned
<1> QED BY <1>2, <1>3

\* The invariant of the search goes from turn to turn.
LEMMA SearchGoesOn ==
  ASSUME GraphAssumption, GraphInv, NEW seeds, NEW depth \in 0 .. MaxDepth, NEW ball,
         Balls(ball, Related, Range(seeds)), NEW n \in Nat, NEW st,
         Searching(st, n, ball, seeds, depth)
  PROVE  Searching(Visit(st, n + 1, depth), n + 1, ball, seeds, depth)
<1> DEFINE turned == Visit(st, n + 1, depth)
<1>1. /\ st \in SearchSet /\ n + 1 \in Nat \ {0} /\ depth \in Nat /\ MaxDepth \in Nat /\ n + 2 \in Nat
      /\ (n + 1) + 1 = n + 2
  BY DEF Searching, GraphAssumption
<1>2. /\ st.order \in Seq(Entities) /\ IsInjective(st.order)
      /\ Len(st.order) \in Nat /\ DOMAIN st.order = 1 .. Len(st.order)
      /\ DOMAIN st.hops = Range(st.order) /\ Range(st.order) \subseteq Entities
      /\ \A e \in DOMAIN st.hops : st.hops[e] \in Nat
      /\ \A i \in DOMAIN st.order : st.order[i] \in Entities /\ st.order[i] \in DOMAIN st.hops
  BY <1>1, SearchParts
<1>3. /\ \A s \in Range(seeds) : s \in DOMAIN st.hops /\ st.hops[s] = 0
      /\ \A e \in DOMAIN st.hops : st.hops[e] \in 0 .. depth /\ e \in ball[st.hops[e]]
      /\ \A i, j \in DOMAIN st.order : i <= j => Nearer(st, i, j)
      /\ \A i \in DOMAIN st.order : i <= n /\ st.hops[st.order[i]] < depth => Opened(st, st.order[i])
      /\ n + 1 \in DOMAIN st.order => \A j \in DOMAIN st.order : Behind(st, j, n + 1)
  BY DEF Searching
<1>4. turned \in SearchSet
  BY <1>1, VisitTurns
<1>5. CASE (n + 1 \in DOMAIN st.order => st.hops[st.order[n + 1]] >= depth) /\ turned = st
  <2>1. \A i \in DOMAIN st.order : i <= n + 1 /\ st.hops[st.order[i]] < depth => Opened(st, st.order[i])
    <3>1. ASSUME NEW i \in DOMAIN st.order, i <= n + 1, st.hops[st.order[i]] < depth PROVE Opened(st, st.order[i])
      <4>1. i # n + 1
        <5>1. st.hops[st.order[i]] \in Nat
          BY <1>2
        <5> QED BY <1>1, <1>5, <3>1, <5>1
      <4>2. i <= n
        BY <1>2, <3>1, <4>1
      <4> QED BY <1>3, <3>1, <4>2
    <3> QED BY <3>1
  <2>2. n + 2 \in DOMAIN st.order => \A j \in DOMAIN st.order : Behind(st, j, n + 2)
    <3>1. ASSUME n + 2 \in DOMAIN st.order, NEW j \in DOMAIN st.order PROVE Behind(st, j, n + 2)
      <4>1. n + 1 \in DOMAIN st.order /\ n + 1 <= n + 2
        BY <1>1, <1>2, <3>1
      <4>2. Behind(st, j, n + 1) /\ Nearer(st, n + 1, n + 2)
        BY <1>3, <3>1, <4>1
      <4>3. /\ st.hops[st.order[j]] \in Nat /\ st.hops[st.order[n + 1]] \in Nat /\ st.hops[st.order[n + 2]] \in Nat
        BY <1>2, <3>1, <4>1
      <4> QED BY <4>2, <4>3 DEF Behind, Nearer
    <3> QED BY <3>1
  <2>3. Searching(st, n + 1, ball, seeds, depth)
    BY <1>1, <1>3, <2>1, <2>2 DEF Searching
  <2> QED BY <1>5, <2>3
<1>6. ASSUME NEW new, Opens(st, n + 1, depth, new, st.order[n + 1], turned)
      PROVE  Searching(turned, n + 1, ball, seeds, depth)
  <2> DEFINE key == st.order[n + 1]
             d == st.hops[key]
             order == st.order \o new
  <2>1. /\ n + 1 \in DOMAIN st.order /\ d < depth
        /\ new \in Seq(Entities) /\ IsInjective(new) /\ Range(new) = Range(edges[key]) \ Range(st.order)
        /\ turned.order = order
        /\ DOMAIN turned.hops = DOMAIN st.hops \cup Range(new)
        /\ \A e \in DOMAIN st.hops : turned.hops[e] = st.hops[e]
        /\ \A e \in Range(new) : e \notin DOMAIN st.hops /\ turned.hops[e] = d + 1
    BY <1>6 DEF Opens
  <2>2. key \in Entities /\ key \in DOMAIN st.hops /\ d \in Nat /\ d \in 0 .. depth /\ key \in ball[d]
    BY <1>2, <1>3, <2>1
  <2>3. /\ Range(order) = Range(st.order) \cup Range(new) /\ order \in Seq(Entities)
        /\ DOMAIN st.order \subseteq DOMAIN order
        /\ \A i \in DOMAIN st.order : order[i] = st.order[i]
        /\ \A i \in DOMAIN order : i \in DOMAIN st.order \/ (i > Len(st.order) /\ order[i] \in Range(new))
    <3> DEFINE old == st.order
    <3>1. old \in Seq(Entities) /\ new \in Seq(Entities) /\ order = old \o new
      BY <1>2, <2>1
    <3> HIDE DEF old, order
    <3>2. /\ old \o new \in Seq(Entities) /\ DOMAIN old = 1 .. Len(old) /\ DOMAIN old \subseteq DOMAIN (old \o new)
          /\ \A i \in DOMAIN old : (old \o new)[i] = old[i]
          /\ \A i \in DOMAIN (old \o new) : i \in DOMAIN old \/ (i > Len(old) /\ (old \o new)[i] \in Range(new))
          /\ Range(old \o new) = Range(old) \cup Range(new)
      BY <3>1, Followed
    <3> QED BY <3>1, <3>2 DEF old
  <2>4. DOMAIN order = 1 .. Len(order) /\ Len(order) \in Nat
    BY <2>3
  <2> HIDE DEF turned, order, key, d
  <2>5. \A s \in Range(seeds) : s \in DOMAIN turned.hops /\ turned.hops[s] = 0
    BY <1>3, <2>1
  <2>6. \A e \in DOMAIN turned.hops : turned.hops[e] \in 0 .. depth /\ e \in ball[turned.hops[e]]
    <3>1. ASSUME NEW e \in Range(new) PROVE d + 1 \in 0 .. depth /\ e \in ball[d + 1]
      <4>1. e \in Range(edges[key])
        BY <2>1
      <4>2. <<key, e>> \in Related
        BY <2>2, <4>1, GraphParts
      <4>3. d \in 0 .. MaxDepth - 1 /\ d + 1 \in 0 .. depth
        BY <1>1, <2>1, <2>2
      <4>4. (<<key, e>>)[1] \in ball[d] /\ (<<key, e>>)[2] = e
        BY <2>2
      <4> QED BY <1>1, <4>2, <4>3, <4>4, BallSteps
    <3>2. ASSUME NEW e \in DOMAIN turned.hops PROVE turned.hops[e] \in 0 .. depth /\ e \in ball[turned.hops[e]]
      <4>1. CASE e \in DOMAIN st.hops
        BY <1>3, <2>1, <4>1
      <4>2. CASE e \in Range(new)
        BY <2>1, <3>1, <4>2
      <4> QED BY <2>1, <4>1, <4>2
    <3> QED BY <3>2
  <2>7. \A i \in DOMAIN st.order : turned.hops[order[i]] = st.hops[st.order[i]] /\ st.hops[st.order[i]] \in Nat
    BY <1>2, <2>1, <2>3
  <2>8. \A i \in DOMAIN st.order : st.hops[st.order[i]] <= d + 1
    BY <1>3, <2>1 DEF Behind, key, d
  <2>9. \A i \in DOMAIN order : i \notin DOMAIN st.order => turned.hops[order[i]] = d + 1
    BY <2>1, <2>3
  <2>10. \A i, j \in DOMAIN order : i <= j => Nearer(turned, i, j)
    <3>1. ASSUME NEW i \in DOMAIN order, NEW j \in DOMAIN order, i <= j
          PROVE  turned.hops[order[i]] <= turned.hops[order[j]]
      <4>1. CASE j \in DOMAIN st.order
        <5>1. i \in DOMAIN st.order
          BY <1>2, <2>4, <3>1, <4>1
        <5>2. Nearer(st, i, j)
          BY <1>3, <3>1, <4>1, <5>1
        <5> QED BY <2>7, <4>1, <5>1, <5>2 DEF Nearer
      <4>2. CASE j \notin DOMAIN st.order
        <5>1. turned.hops[order[j]] = d + 1
          BY <2>9, <4>2
        <5>2. CASE i \in DOMAIN st.order
          BY <2>7, <2>8, <5>1, <5>2
        <5>3. CASE i \notin DOMAIN st.order
          BY <2>2, <2>9, <5>1, <5>3
        <5> QED BY <5>2, <5>3
      <4> QED BY <4>1, <4>2
    <3> QED BY <2>1, <3>1 DEF Nearer
  <2>11. \A i \in DOMAIN order : i <= n + 1 /\ turned.hops[order[i]] < depth => Opened(turned, order[i])
    <3>1. ASSUME NEW i \in DOMAIN order, i <= n + 1, turned.hops[order[i]] < depth
          PROVE  Opened(turned, order[i])
      <4>1. i \in DOMAIN st.order
        BY <1>2, <2>1, <2>4, <3>1
      <4>2. order[i] = st.order[i] /\ st.order[i] \in DOMAIN st.hops
        BY <1>2, <2>3, <4>1
      <4>3. CASE i <= n
        <5>1. Opened(st, st.order[i])
          BY <1>3, <2>7, <3>1, <4>1, <4>3
        <5> QED BY <2>1, <4>2, <5>1 DEF Opened
      <4>4. CASE i = n + 1
        <5>1. order[i] = key /\ turned.hops[key] = d
          BY <2>1, <2>2, <4>2, <4>4 DEF key, d
        <5>2. ASSUME NEW o \in Range(edges[key]) PROVE o \in DOMAIN turned.hops /\ turned.hops[o] <= d + 1
          <6>1. CASE o \in Range(st.order)
            <7>1. PICK j \in DOMAIN st.order : o = st.order[j]
              BY <6>1 DEF Range
            <7> QED BY <1>2, <2>1, <2>8, <6>1, <7>1
          <6>2. CASE o \notin Range(st.order)
            BY <2>1, <2>2, <6>2
          <6> QED BY <6>1, <6>2
        <5> QED BY <5>1, <5>2 DEF Opened
      <4> QED BY <1>2, <3>1, <4>1, <4>3, <4>4
    <3> QED BY <3>1
  <2>12. n + 2 \in DOMAIN order => \A j \in DOMAIN order : Behind(turned, j, n + 2)
    <3>1. ASSUME n + 2 \in DOMAIN order, NEW j \in DOMAIN order PROVE Behind(turned, j, n + 2)
      <4>1. n + 1 \in DOMAIN order /\ n + 1 <= n + 2 /\ n + 1 \in DOMAIN st.order
        BY <1>1, <2>1, <2>3
      <4>2. Nearer(turned, n + 1, n + 2)
        BY <2>10, <3>1, <4>1
      <4>3. turned.hops[order[n + 1]] = d
        BY <2>7, <4>1 DEF key, d
      <4>4. turned.hops[order[j]] <= d + 1 /\ turned.hops[order[j]] \in Nat
        BY <2>2, <2>7, <2>8, <2>9
      <4>5. turned.hops[order[n + 2]] \in Nat
        BY <2>2, <2>7, <2>9, <3>1
      <4>6. d <= turned.hops[order[n + 2]]
        BY <2>1, <4>2, <4>3 DEF Nearer
      <4>7. turned.hops[order[j]] <= turned.hops[order[n + 2]] + 1
        BY <2>2, <4>4, <4>5, <4>6
      <4> QED BY <2>1, <4>7 DEF Behind
    <3> QED BY <3>1
  <2> QED BY <1>1, <1>4, <2>1, <2>5, <2>6, <2>10, <2>11, <2>12 DEF Searching
<1>7. \/ (n + 1 \in DOMAIN st.order => st.hops[st.order[n + 1]] >= depth) /\ turned = st
      \/ \E new : Opens(st, n + 1, depth, new, st.order[n + 1], turned)
  BY <1>1, VisitTurns
<1> QED BY <1>5, <1>6, <1>7

-----------------------------------------------------------------------------
\* The whole search, up to as many turns as there are entities.
LEMMA SearchRuns ==
  ASSUME GraphAssumption, GraphInv, NEW seeds \in Seq(Entities), IsInjective(seeds),
         NEW depth \in 0 .. MaxDepth, NEW ball, Balls(ball, Related, Range(seeds))
  PROVE  Searching(Searched(seeds, depth), Cardinality(Entities), ball, seeds, depth)
<1> DEFINE N == Cardinality(Entities)
           start == [order |-> seeds, hops |-> [s \in Range(seeds) |-> 0]]
           Turn(st, n) == Visit(st, n, depth)
<1>1. N \in Nat /\ depth \in Nat /\ MaxDepth \in Nat
  BY GraphParts, FS_CardinalityType DEF GraphAssumption
<1> HIDE DEF N
<1>2. start \in SearchSet /\ Searching(start, 0, ball, seeds, depth)
  <2>1. Len(seeds) \in Nat /\ DOMAIN seeds = 1 .. Len(seeds) /\ \A i \in DOMAIN seeds : seeds[i] \in Entities
    BY ElementOfSeq
  <2>2. Range(seeds) \subseteq Entities
    BY <2>1 DEF Range
  <2>3. [s \in Range(seeds) |-> 0] \in HopMaps
    BY <2>2 DEF HopMaps
  <2>4. start.order = seeds /\ start.hops = [s \in Range(seeds) |-> 0]
        /\ start \in [order : Seq(Entities), hops : HopMaps]
    BY <2>3
  <2> HIDE DEF start
  <2>5. start \in SearchSet
    BY <2>4 DEF SearchSet
  <2>6. \A i \in DOMAIN seeds : seeds[i] \in Range(seeds)
    BY DEF Range
  <2>7. /\ DOMAIN start.hops = Range(seeds) /\ \A e \in Range(seeds) : start.hops[e] = 0
        /\ \A i \in DOMAIN start.order : start.hops[start.order[i]] = 0
    BY <2>4, <2>6
  <2>8. 0 \in 0 .. depth /\ ball[0] = Range(seeds)
    BY <1>1 DEF Balls
  <2>9. \A i, j \in DOMAIN start.order : Nearer(start, i, j) /\ Behind(start, j, i)
    BY <2>7 DEF Nearer, Behind
  <2>10. \A i \in DOMAIN start.order : ~(i <= 0)
    BY <2>1, <2>4
  <2> QED BY <2>5, <2>7, <2>8, <2>9, <2>10 DEF Searching
<1> HIDE DEF start
<1>3. ASSUME NEW n \in 1 .. N, NEW d \in SearchSet PROVE Turn(d, n) \in SearchSet
  <2>1. n \in Nat \ {0}
    BY <1>1
  <2> QED BY <1>1, <2>1, VisitTurns
<1>4. N \in Nat /\ start \in SearchSet
  BY <1>1, <1>2
<1> DEFINE step == [n \in 1 .. N |-> [d \in SearchSet |-> Turn(d, n)]]
           Fun(g) == [n \in 0 .. N |-> IF n = 0 THEN start ELSE Turn(g[n - 1], n)]
           state == CHOOSE g : g = Fun(g)
<1> HIDE DEF Turn
<1>10. step \in [1 .. N -> [SearchSet -> SearchSet]] /\ \A n \in 1 .. N, d \in SearchSet : step[n][d] = Turn(d, n)
  BY <1>3
<1> HIDE DEF step
<1>11. \E g : g = Fun(g)
  <2>1. PICK g : Iterated(g, N, SearchSet, start, step)
    BY <1>4, <1>10, Iterates
  <2>2. g \in [0 .. N -> SearchSet] /\ g[0] = start /\ \A n \in 1 .. N : g[n] = step[n][g[n - 1]]
    BY <2>1 DEF Iterated
  <2>3. ASSUME NEW n \in 0 .. N PROVE g[n] = IF n = 0 THEN start ELSE Turn(g[n - 1], n)
    <3>1. CASE n = 0
      BY <2>2, <3>1
    <3>2. CASE n # 0
      <4>1. n \in 1 .. N /\ n - 1 \in 0 .. N
        BY <1>4, <3>2
      <4>2. g[n - 1] \in SearchSet
        BY <2>2, <4>1
      <4> QED BY <1>10, <2>2, <3>2, <4>1, <4>2
    <3> QED BY <3>1, <3>2
  <2>4. g = Fun(g)
    BY <2>2, <2>3
  <2> QED BY <2>4
<1>12. state = Fun(state)
  <2> HIDE DEF Fun
  <2> QED BY <1>11
<1> HIDE DEF state
<1>13. state[0] = start /\ \A n \in 1 .. N : state[n] = Turn(state[n - 1], n)
  <2>1. \A n \in 0 .. N : state[n] = IF n = 0 THEN start ELSE Turn(state[n - 1], n)
    BY <1>12
  <2>2. 0 \in 0 .. N /\ \A n \in 1 .. N : n \in 0 .. N /\ n # 0
    BY <1>4
  <2> HIDE DEF Fun
  <2> QED BY <2>1, <2>2
<1> HIDE DEF Fun
<1> DEFINE S == {n \in 0 .. N : Searching(state[n], n, ball, seeds, depth)}
<1>5. 0 \in S
  BY <1>1, <1>2, <1>13
<1>6. ASSUME NEW n \in 0 .. N - 1, n \in S PROVE n + 1 \in S
  <2>1. n + 1 \in 1 .. N /\ n + 1 \in 0 .. N /\ n \in Nat /\ (n + 1) - 1 = n
    BY <1>1
  <2>2. state[n + 1] = Visit(state[n], n + 1, depth)
    BY <1>13, <2>1 DEF Turn
  <2>3. Searching(state[n], n, ball, seeds, depth)
    BY <1>6
  <2>4. Searching(Visit(state[n], n + 1, depth), n + 1, ball, seeds, depth)
    BY <2>1, <2>3, SearchGoesOn
  <2> QED BY <2>1, <2>2, <2>4
<1>7. N \in S
  <2> HIDE DEF S
  <2>1. 0 .. N \subseteq S
    BY <1>1, <1>5, <1>6, UpTo
  <2> QED BY <1>1, <2>1
<1>8. Searching(state[N], N, ball, seeds, depth)
  BY <1>7
<1>9. Searched(seeds, depth) = state[N]
  BY DEF Searched, state, Fun, Turn, N, start
<1> QED BY <1>8, <1>9 DEF N

\* It ends with everything near enough, at its distance.
LEMMA SearchedRight ==
  ASSUME GraphAssumption, GraphInv, NEW seeds \in Seq(Entities), IsInjective(seeds),
         NEW depth \in 0 .. MaxDepth, NEW ball, Balls(ball, Related, Range(seeds))
  PROVE  /\ Searched(seeds, depth) \in SearchSet
         /\ DOMAIN Searched(seeds, depth).hops = ball[depth] /\ ball[depth] \subseteq Entities
         /\ \A e \in ball[depth] : /\ Searched(seeds, depth).hops[e] = Distance(ball, e)
                                   /\ Distance(ball, e) \in 0 .. depth
         /\ \A m \in 0 .. depth : ball[m] = {e \in ball[depth] : Distance(ball, e) <= m}
         /\ \A i, j \in DOMAIN Searched(seeds, depth).order : i <= j => Nearer(Searched(seeds, depth), i, j)
<1> DEFINE st == Searched(seeds, depth)
           N == Cardinality(Entities)
<1>1. Searching(st, N, ball, seeds, depth)
  BY SearchRuns
<1>2. N \in Nat /\ depth \in Nat /\ MaxDepth \in Nat /\ IsFiniteSet(Entities)
  BY GraphParts, FS_CardinalityType DEF GraphAssumption
<1> HIDE DEF st
<1>3. /\ st \in SearchSet
      /\ \A s \in Range(seeds) : s \in DOMAIN st.hops /\ st.hops[s] = 0
      /\ \A e \in DOMAIN st.hops : st.hops[e] \in 0 .. depth /\ e \in ball[st.hops[e]]
      /\ \A i, j \in DOMAIN st.order : i <= j => Nearer(st, i, j)
      /\ \A i \in DOMAIN st.order : i <= N /\ st.hops[st.order[i]] < depth => Opened(st, st.order[i])
  BY <1>1 DEF Searching
<1>4. /\ st.order \in Seq(Entities) /\ IsInjective(st.order)
      /\ Len(st.order) \in Nat /\ DOMAIN st.order = 1 .. Len(st.order)
      /\ DOMAIN st.hops = Range(st.order) /\ Range(st.order) \subseteq Entities
      /\ \A i \in DOMAIN st.order : st.order[i] \in Entities
  BY <1>3, SearchParts
<1>5. Len(st.order) <= N
  <2> DEFINE L == Len(st.order)
  <2>1. st.order \in Injection(1 .. L, Entities)
    BY <1>4 DEF Injection
  <2>2. Cardinality(1 .. L) <= N
    BY <1>2, <2>1, FS_Injection
  <2>3. 1 \in Int /\ L \in Int
    BY <1>4
  <2>4. Cardinality(1 .. L) = IF 1 > L THEN 0 ELSE L - 1 + 1
    BY <2>3, FS_Interval
  <2> HIDE DEF L
  <2>5. Cardinality(1 .. L) = L
    BY <1>4, <2>4 DEF L
  <2> QED BY <2>2, <2>5 DEF L
<1> HIDE DEF N
<1> DEFINE S == {m \in 0 .. depth : \A e \in ball[m] : e \in DOMAIN st.hops /\ st.hops[e] <= m}
<1>6. 0 \in S
  BY <1>2, <1>3 DEF Balls
<1>7. ASSUME NEW m \in 0 .. depth - 1, m \in S PROVE m + 1 \in S
  <2>1. m + 1 \in 0 .. depth /\ m \in 0 .. MaxDepth - 1 /\ m \in 0 .. depth
    BY <1>2
  <2>2. ASSUME NEW o \in ball[m + 1] PROVE o \in DOMAIN st.hops /\ st.hops[o] <= m + 1
    <3>1. o \in ball[m] \/ \E r \in Related : r[1] \in ball[m] /\ r[2] = o
      BY <1>2, <2>1, BallSteps
    <3>2. CASE o \in ball[m]
      <4>1. o \in DOMAIN st.hops /\ st.hops[o] <= m
        BY <1>7, <3>2
      <4>2. st.hops[o] \in Int
        BY <1>3, <4>1
      <4> QED BY <2>1, <4>1, <4>2
    <3>3. ASSUME NEW r \in Related, r[1] \in ball[m], r[2] = o PROVE o \in DOMAIN st.hops /\ st.hops[o] <= m + 1
      <4>1. r[1] \in DOMAIN st.hops /\ st.hops[r[1]] <= m /\ st.hops[r[1]] \in Int
        BY <1>3, <1>7, <3>3
      <4>2. PICK i \in DOMAIN st.order : st.order[i] = r[1]
        BY <1>4, <4>1 DEF Range
      <4>3. i <= N /\ st.hops[st.order[i]] < depth
        BY <1>2, <1>4, <1>5, <4>1, <4>2
      <4>4. Opened(st, r[1])
        BY <1>3, <4>2, <4>3
      <4>5. r = <<r[1], o>> /\ r[1] \in Entities /\ o \in Entities
        BY <3>3, RelatedEnds
      <4>6. o \in Range(edges[r[1]])
        BY <4>5, GraphParts
      <4>7. o \in DOMAIN st.hops /\ st.hops[o] <= st.hops[r[1]] + 1
        BY <4>4, <4>6 DEF Opened
      <4>8. st.hops[o] \in Int
        BY <1>3, <4>7
      <4> QED BY <2>1, <4>1, <4>7, <4>8
    <3> QED BY <3>1, <3>2, <3>3
  <2> QED BY <2>1, <2>2
<1>8. \A m \in 0 .. depth : \A e \in ball[m] : e \in DOMAIN st.hops /\ st.hops[e] <= m
  <2> HIDE DEF S
  <2>1. 0 .. depth \subseteq S
    BY <1>2, <1>6, <1>7, UpTo
  <2> QED BY <2>1 DEF S
<1>9. \A m \in 0 .. MaxDepth : \A n \in 0 .. m : ball[n] \subseteq ball[m]
  BY <1>2, BallsGrow
<1>10. DOMAIN st.hops = ball[depth]
  <2>1. \A e \in DOMAIN st.hops : e \in ball[depth]
    BY <1>3, <1>9
  <2>2. depth \in 0 .. depth
    BY <1>2
  <2> QED BY <1>8, <2>1, <2>2
<1>11. \A e \in ball[depth] : st.hops[e] = Distance(ball, e) /\ Distance(ball, e) \in 0 .. depth
  <2>1. ASSUME NEW e \in ball[depth] PROVE st.hops[e] = Distance(ball, e) /\ Distance(ball, e) \in 0 .. depth
    <3>1. st.hops[e] \in 0 .. depth /\ e \in ball[st.hops[e]] /\ st.hops[e] \in 0 .. MaxDepth
      BY <1>2, <1>3, <1>10
    <3>2. ASSUME NEW m \in 0 .. st.hops[e] - 1 PROVE e \notin ball[m]
      <4>1. m \in 0 .. depth /\ ~(st.hops[e] <= m)
        BY <1>2, <3>1
      <4> QED BY <1>8, <4>1
    <3>3. DOMAIN ball = 0 .. MaxDepth
      BY DEF Balls
    <3>4. Distance(ball, e) = st.hops[e]
      BY <1>2, <3>1, <3>2, <3>3, DistanceIs
    <3> QED BY <3>1, <3>4
  <2> QED BY <2>1
<1>12. \A m \in 0 .. depth : ball[m] = {e \in ball[depth] : Distance(ball, e) <= m}
  <2>1. ASSUME NEW m \in 0 .. depth PROVE ball[m] = {e \in ball[depth] : Distance(ball, e) <= m}
    <3>0. m \in 0 .. MaxDepth
      BY <1>2
    <3>1. \A e \in ball[m] : e \in ball[depth] /\ Distance(ball, e) <= m
      BY <1>8, <1>10, <1>11
    <3>2. ASSUME NEW e \in ball[depth], Distance(ball, e) <= m PROVE e \in ball[m]
      <4>1. e \in ball[Distance(ball, e)] /\ Distance(ball, e) \in 0 .. m
        BY <1>3, <1>10, <1>11, <3>2
      <4> QED BY <1>9, <3>0, <4>1
    <3> QED BY <3>1, <3>2
  <2> QED BY <2>1
<1>13. ball[depth] \subseteq Entities
  BY <1>4, <1>10
<1> QED BY <1>3, <1>10, <1>11, <1>12, <1>13 DEF st

\* Seeds in their order.
LEMMA SeedsInOrder ==
  ASSUME GraphInv, NEW S, S \subseteq Entities
  PROVE  Ascending(S) \in Seq(Entities) /\ Range(Ascending(S)) = S /\ IsInjective(Ascending(S))
<1>1. Entities \subseteq Nat /\ IsFiniteSet(Entities)
  BY GraphParts
<1>2. S \in SUBSET Int /\ IsFiniteSet(S)
  <2>1. S \in SUBSET Entities
    OBVIOUS
  <2>2. IsFiniteSet(S)
    BY <1>1, <2>1, FS_Subset
  <2> QED BY <1>1, <2>2
<1>3. Enumerates(Ascending(S), S, {p \in S \X S : p[1] < p[2]})
  BY <1>2, NumbersInOrder DEF Ascending
<1>4. Ascending(S) \in Seq(S) /\ Range(Ascending(S)) = S /\ IsInjective(Ascending(S))
  BY <1>3, Enumerated
<1> QED BY <1>4

LEMMA HopsRight == GraphAssumption /\ GraphInv => HopsAreDistances
<1> SUFFICES ASSUME GraphAssumption, GraphInv, NEW seeds \in SeedSets, NEW depth \in 0 .. MaxDepth
             PROVE  Searched(Ascending(seeds), depth).hops =
                      [e \in Within(Related, seeds)[depth] |-> Distance(Within(Related, seeds), e)]
  BY DEF HopsAreDistances
<1> DEFINE ball == Within(Related, seeds)
           first == Ascending(seeds)
           st == Searched(first, depth)
<1>1. first \in Seq(Entities) /\ Range(first) = seeds /\ IsInjective(first)
  BY SeedsInOrder DEF SeedSets
<1>2. MaxDepth \in Nat
  BY DEF GraphAssumption
<1>3. Balls(ball, Related, Range(first))
  BY <1>1, <1>2, WithinIs
<1> HIDE DEF ball, first
<1>4. /\ st \in SearchSet /\ DOMAIN st.hops = ball[depth]
      /\ \A e \in ball[depth] : st.hops[e] = Distance(ball, e)
  BY <1>1, <1>3, SearchedRight
<1> HIDE DEF st
<1>5. st.hops = [e \in DOMAIN st.hops |-> st.hops[e]]
  BY <1>4, SearchParts
<1>6. st.hops = [e \in ball[depth] |-> Distance(ball, e)]
  BY <1>4, <1>5
<1> QED BY <1>6 DEF ball, first, st

-----------------------------------------------------------------------------
\* Scores.  Elements of one amount add it as often as they are many.
LEMMA TotalLevel ==
  ASSUME NEW D, NEW f \in [D -> Nat], NEW S \in SUBSET D, IsFiniteSet(S),
         NEW T \in SUBSET D, IsFiniteSet(T), S \cap T = {}, NEW c \in Nat, \A x \in T : f[x] = c
  PROVE  Total(f, S \cup T) = Total(f, S) + Cardinality(T) * c
<1> DEFINE old == Units(f, S)
           more == T \X (1 .. c)
<1>1. IsFiniteSet(old)
  BY UnitsFinite
<1>2. IsFiniteSet(1 .. c) /\ Cardinality(1 .. c) = c
  <2>1. 1 \in Int /\ c \in Int
    OBVIOUS
  <2>2. IsFiniteSet(1 .. c) /\ Cardinality(1 .. c) = IF 1 > c THEN 0 ELSE c - 1 + 1
    BY <2>1, FS_Interval
  <2> QED BY <2>2
<1>3. IsFiniteSet(more) /\ Cardinality(more) = Cardinality(T) * c
  <2>1. IsFiniteSet(T \X (1 .. c)) /\ Cardinality(T \X (1 .. c)) = Cardinality(T) * Cardinality(1 .. c)
    BY <1>2, FS_Product
  <2> QED BY <1>2, <2>1
<1>4. Units(f, S \cup T) = old \cup more
  <2>1. ASSUME NEW u PROVE u \in Units(f, S \cup T) <=> (u \in old \/ u \in more)
    <3>1. u \in Units(f, S \cup T) <=> \E x \in S \cup T : u \in {x} \X (1 .. f[x])
      BY DEF Units
    <3>2. u \in old <=> \E x \in S : u \in {x} \X (1 .. f[x])
      BY DEF Units
    <3>3. u \in more <=> \E x \in T : u \in {x} \X (1 .. f[x])
      OBVIOUS
    <3> HIDE DEF old, more
    <3> QED BY <3>1, <3>2, <3>3
  <2> HIDE DEF old, more
  <2> QED BY <2>1
<1>5. old \cap more = {}
  <2>1. ASSUME NEW u \in old, u \in more PROVE FALSE
    <3>1. PICK x \in S : u \in {x} \X (1 .. f[x])
      BY DEF Units
    <3> QED BY <2>1, <3>1
  <2> HIDE DEF old, more
  <2> QED BY <2>1
<1> HIDE DEF old, more
<1>6. Cardinality(old \cup more) = Cardinality(old) + Cardinality(more) - Cardinality({})
  BY <1>1, <1>3, <1>5, FS_Union
<1>7. Cardinality(old) \in Nat /\ Cardinality(more) \in Nat /\ Cardinality({}) = 0
  BY <1>1, <1>3, FS_CardinalityType, FS_EmptySet
<1>8. Cardinality(old \cup more) = Cardinality(old) + Cardinality(more)
  BY <1>6, <1>7
<1>9. Total(f, S \cup T) = Cardinality(old \cup more) /\ Total(f, S) = Cardinality(old)
  BY <1>4 DEF Total, old
<1> QED BY <1>3, <1>8, <1>9

\* A score is made of how many are how near.
Weighed(t, a) ==
  /\ t[0] = a[0] * Weight
  /\ \A m \in 1 .. MaxDepth : t[m] = t[m - 1] + (a[m] - a[m - 1]) * (Weight \div (1 + m))

LEMMA MoreNearerWeighsMore ==
  ASSUME MaxDepth \in 1 .. 4, NEW a \in [0 .. MaxDepth -> Nat], NEW b \in [0 .. MaxDepth -> Nat],
         NEW t, NEW u, Weighed(t, a), Weighed(u, b), \A n \in 0 .. MaxDepth : a[n] >= b[n]
  PROVE  IF a = b THEN t[MaxDepth] = u[MaxDepth] ELSE t[MaxDepth] > u[MaxDepth]
<1>1. Weight \div (1 + 1) = 30 /\ Weight \div (1 + 2) = 20 /\ Weight \div (1 + 3) = 15 /\ Weight \div (1 + 4) = 12 /\ Weight = 60
  BY DEF Weight
<1>2. a # b => \E n \in 0 .. MaxDepth : a[n] # b[n]
  OBVIOUS
<1>3. /\ a[0] \in Nat /\ b[0] \in Nat /\ a[1] \in Nat /\ b[1] \in Nat
      /\ a[0] >= b[0] /\ a[1] >= b[1]
  OBVIOUS
<1>4. t[0] = a[0] * 60 /\ u[0] = b[0] * 60
  BY <1>1 DEF Weighed
<1>5. MaxDepth > 0 => /\ t[1] = t[0] + (a[1] - a[0]) * 30 /\ u[1] = u[0] + (b[1] - b[0]) * 30
                      /\ a[1] \in Nat /\ b[1] \in Nat /\ a[1] >= b[1]
  <2>1. ASSUME MaxDepth > 0
        PROVE  /\ t[1] = t[0] + (a[1] - a[0]) * 30 /\ u[1] = u[0] + (b[1] - b[0]) * 30
               /\ a[1] \in Nat /\ b[1] \in Nat /\ a[1] >= b[1]
    <3>1. 1 \in 1 .. MaxDepth /\ 1 \in 0 .. MaxDepth /\ 1 - 1 = 0
      BY <2>1
    <3>2. /\ t[1] = t[1 - 1] + (a[1] - a[1 - 1]) * (Weight \div (1 + 1))
          /\ u[1] = u[1 - 1] + (b[1] - b[1 - 1]) * (Weight \div (1 + 1))
      BY <3>1 DEF Weighed
    <3>3. a[1] \in Nat /\ b[1] \in Nat /\ a[1] >= b[1]
      BY <3>1
    <3> QED BY <1>1, <3>1, <3>2, <3>3
  <2> QED BY <2>1
<1>6. MaxDepth > 1 => /\ t[2] = t[1] + (a[2] - a[1]) * 20 /\ u[2] = u[1] + (b[2] - b[1]) * 20
                      /\ a[2] \in Nat /\ b[2] \in Nat /\ a[2] >= b[2]
  <2>1. ASSUME MaxDepth > 1
        PROVE  /\ t[2] = t[1] + (a[2] - a[1]) * 20 /\ u[2] = u[1] + (b[2] - b[1]) * 20
               /\ a[2] \in Nat /\ b[2] \in Nat /\ a[2] >= b[2]
    <3>1. 2 \in 1 .. MaxDepth /\ 2 \in 0 .. MaxDepth /\ 2 - 1 = 1
      BY <2>1
    <3>2. /\ t[2] = t[2 - 1] + (a[2] - a[2 - 1]) * (Weight \div (1 + 2))
          /\ u[2] = u[2 - 1] + (b[2] - b[2 - 1]) * (Weight \div (1 + 2))
      BY <3>1 DEF Weighed
    <3>3. a[2] \in Nat /\ b[2] \in Nat /\ a[2] >= b[2]
      BY <3>1
    <3> QED BY <1>1, <3>1, <3>2, <3>3
  <2> QED BY <2>1
<1>7. MaxDepth > 2 => /\ t[3] = t[2] + (a[3] - a[2]) * 15 /\ u[3] = u[2] + (b[3] - b[2]) * 15
                      /\ a[3] \in Nat /\ b[3] \in Nat /\ a[3] >= b[3]
  <2>1. ASSUME MaxDepth > 2
        PROVE  /\ t[3] = t[2] + (a[3] - a[2]) * 15 /\ u[3] = u[2] + (b[3] - b[2]) * 15
               /\ a[3] \in Nat /\ b[3] \in Nat /\ a[3] >= b[3]
    <3>1. 3 \in 1 .. MaxDepth /\ 3 \in 0 .. MaxDepth /\ 3 - 1 = 2
      BY <2>1
    <3>2. /\ t[3] = t[3 - 1] + (a[3] - a[3 - 1]) * (Weight \div (1 + 3))
          /\ u[3] = u[3 - 1] + (b[3] - b[3 - 1]) * (Weight \div (1 + 3))
      BY <3>1 DEF Weighed
    <3>3. a[3] \in Nat /\ b[3] \in Nat /\ a[3] >= b[3]
      BY <3>1
    <3> QED BY <1>1, <3>1, <3>2, <3>3
  <2> QED BY <2>1
<1>8. MaxDepth > 3 => /\ t[4] = t[3] + (a[4] - a[3]) * 12 /\ u[4] = u[3] + (b[4] - b[3]) * 12
                      /\ a[4] \in Nat /\ b[4] \in Nat /\ a[4] >= b[4]
  <2>1. ASSUME MaxDepth > 3
        PROVE  /\ t[4] = t[3] + (a[4] - a[3]) * 12 /\ u[4] = u[3] + (b[4] - b[3]) * 12
               /\ a[4] \in Nat /\ b[4] \in Nat /\ a[4] >= b[4]
    <3>1. 4 \in 1 .. MaxDepth /\ 4 \in 0 .. MaxDepth /\ 4 - 1 = 3
      BY <2>1
    <3>2. /\ t[4] = t[4 - 1] + (a[4] - a[4 - 1]) * (Weight \div (1 + 4))
          /\ u[4] = u[4 - 1] + (b[4] - b[4 - 1]) * (Weight \div (1 + 4))
      BY <3>1 DEF Weighed
    <3>3. a[4] \in Nat /\ b[4] \in Nat /\ a[4] >= b[4]
      BY <3>1
    <3> QED BY <1>1, <3>1, <3>2, <3>3
  <2> QED BY <2>1
<1>9. CASE MaxDepth = 1
  <2>1. a # b => a[0] # b[0] \/ a[1] # b[1]
    BY <1>2, <1>9
  <2>2. a[0] \in Nat /\ b[0] \in Nat /\ a[0] >= b[0] /\ a[1] \in Nat /\ b[1] \in Nat /\ a[1] >= b[1]
    BY <1>3, <1>5, <1>9
  <2>3. t[1] = a[0] * 30 + a[1] * 30 /\ u[1] = b[0] * 30 + b[1] * 30
    BY <1>4, <1>5, <2>2, <1>9
  <2> QED BY <1>9, <2>1, <2>2, <2>3
<1>10. CASE MaxDepth = 2
  <2>1. a # b => a[0] # b[0] \/ a[1] # b[1] \/ a[2] # b[2]
    BY <1>2, <1>10
  <2>2. a[0] \in Nat /\ b[0] \in Nat /\ a[0] >= b[0] /\ a[1] \in Nat /\ b[1] \in Nat /\ a[1] >= b[1] /\ a[2] \in Nat /\ b[2] \in Nat /\ a[2] >= b[2]
    BY <1>3, <1>5, <1>6, <1>10
  <2>3. t[1] = a[0] * 30 + a[1] * 30 /\ u[1] = b[0] * 30 + b[1] * 30
    BY <1>4, <1>5, <2>2, <1>10
  <2>4. t[2] = a[0] * 30 + a[1] * 10 + a[2] * 20 /\ u[2] = b[0] * 30 + b[1] * 10 + b[2] * 20
    BY <2>3, <1>6, <2>2, <1>10
  <2>5. CASE a = b
    BY <1>10, <2>4, <2>5
  <2>6. CASE a # b
    <3> DEFINE f == a[0] * 30
               g == b[0] * 30
               f1 == a[1] * 10
               g1 == b[1] * 10
               f2 == a[2] * 20
               g2 == b[2] * 20
    <3>1. f \in Nat /\ g \in Nat /\ f >= g /\ (a[0] # b[0] => f > g)
      BY <2>2
    <3>2. f1 \in Nat /\ g1 \in Nat /\ f1 >= g1 /\ (a[1] # b[1] => f1 > g1)
      BY <2>2
    <3>3. f2 \in Nat /\ g2 \in Nat /\ f2 >= g2 /\ (a[2] # b[2] => f2 > g2)
      BY <2>2
    <3>4. t[2] = f + f1 + f2 /\ u[2] = g + g1 + g2
      BY <2>4
    <3> HIDE DEF f, g, f1, g1, f2, g2
    <3>5. f > g \/ f1 > g1 \/ f2 > g2
      BY <2>1, <2>6, <3>1, <3>2, <3>3
    <3>6. t[2] > u[2]
      BY <3>1, <3>2, <3>3, <3>4, <3>5
    <3> QED BY <1>10, <2>6, <3>6
  <2> QED BY <2>5, <2>6
<1>11. CASE MaxDepth = 3
  <2>1. a # b => a[0] # b[0] \/ a[1] # b[1] \/ a[2] # b[2] \/ a[3] # b[3]
    BY <1>2, <1>11
  <2>2. a[0] \in Nat /\ b[0] \in Nat /\ a[0] >= b[0] /\ a[1] \in Nat /\ b[1] \in Nat /\ a[1] >= b[1] /\ a[2] \in Nat /\ b[2] \in Nat /\ a[2] >= b[2] /\ a[3] \in Nat /\ b[3] \in Nat /\ a[3] >= b[3]
    BY <1>3, <1>5, <1>6, <1>7, <1>11
  <2>3. t[1] = a[0] * 30 + a[1] * 30 /\ u[1] = b[0] * 30 + b[1] * 30
    BY <1>4, <1>5, <2>2, <1>11
  <2>4. t[2] = a[0] * 30 + a[1] * 10 + a[2] * 20 /\ u[2] = b[0] * 30 + b[1] * 10 + b[2] * 20
    BY <2>3, <1>6, <2>2, <1>11
  <2>5. t[3] = a[0] * 30 + a[1] * 10 + a[2] * 5 + a[3] * 15 /\ u[3] = b[0] * 30 + b[1] * 10 + b[2] * 5 + b[3] * 15
    BY <2>4, <1>7, <2>2, <1>11
  <2> QED BY <1>11, <2>1, <2>2, <2>5
<1>12. CASE MaxDepth = 4
  <2>1. a # b => a[0] # b[0] \/ a[1] # b[1] \/ a[2] # b[2] \/ a[3] # b[3] \/ a[4] # b[4]
    BY <1>2, <1>12
  <2>2. a[0] \in Nat /\ b[0] \in Nat /\ a[0] >= b[0] /\ a[1] \in Nat /\ b[1] \in Nat /\ a[1] >= b[1] /\ a[2] \in Nat /\ b[2] \in Nat /\ a[2] >= b[2] /\ a[3] \in Nat /\ b[3] \in Nat /\ a[3] >= b[3] /\ a[4] \in Nat /\ b[4] \in Nat /\ a[4] >= b[4]
    BY <1>3, <1>5, <1>6, <1>7, <1>8, <1>12
  <2>3. t[1] = a[0] * 30 + a[1] * 30 /\ u[1] = b[0] * 30 + b[1] * 30
    BY <1>4, <1>5, <2>2, <1>12
  <2>4. t[2] = a[0] * 30 + a[1] * 10 + a[2] * 20 /\ u[2] = b[0] * 30 + b[1] * 10 + b[2] * 20
    BY <2>3, <1>6, <2>2, <1>12
  <2>5. t[3] = a[0] * 30 + a[1] * 10 + a[2] * 5 + a[3] * 15 /\ u[3] = b[0] * 30 + b[1] * 10 + b[2] * 5 + b[3] * 15
    BY <2>4, <1>7, <2>2, <1>12
  <2>6. t[4] = a[0] * 30 + a[1] * 10 + a[2] * 5 + a[3] * 3 + a[4] * 12 /\ u[4] = b[0] * 30 + b[1] * 10 + b[2] * 5 + b[3] * 3 + b[4] * 12
    BY <2>5, <1>8, <2>2, <1>12
  <2> QED BY <1>12, <2>1, <2>2, <2>6
<1> QED BY <1>9, <1>10, <1>11, <1>12

NearIn(ball, p) == [n \in 0 .. MaxDepth |-> Cardinality(EntitiesOf(p) \cap ball[n])]

\* The score of a chunk that is hit.
LEMMA ScoreIs ==
  ASSUME GraphAssumption, GraphInv, NEW seeds \in Seq(Entities), IsInjective(seeds), NEW caller,
         NEW ball, Balls(ball, Related, Range(seeds)), NEW p \in DOMAIN Scores(seeds, MaxDepth, caller)
  PROVE  /\ p \in Built /\ MaySee(p, caller) /\ NearIn(ball, p) \in [0 .. MaxDepth -> Nat]
         /\ \E t : Weighed(t, NearIn(ball, p)) /\ t[MaxDepth] = Scores(seeds, MaxDepth, caller)[p]
<1> DEFINE hops == Searched(seeds, MaxDepth).hops
           hits == {q \in UNION {Range(linked[e]) : e \in DOMAIN hops} : MaySee(q, caller)}
           of(q) == {e \in DOMAIN hops : q \in Range(linked[e])}
           f == [e \in of(p) |-> Weight \div (1 + hops[e])]
           A(m) == EntitiesOf(p) \cap ball[m]
           t == [m \in 0 .. MaxDepth |-> Total(f, A(m))]
           all == Scores(seeds, MaxDepth, caller)
<1>1. all = [q \in hits |-> Total([e \in of(q) |-> Weight \div (1 + hops[e])], of(q))]
  BY DEF Scores
<1>2. p \in hits /\ all[p] = Total(f, of(p))
  <2> HIDE DEF hits
  <2> QED BY <1>1
<1>3. MaxDepth \in 1 .. 4 /\ MaxDepth \in Nat /\ MaxDepth \in 0 .. MaxDepth
  BY DEF GraphAssumption
<1>4. /\ DOMAIN hops = ball[MaxDepth] /\ ball[MaxDepth] \subseteq Entities
      /\ \A e \in ball[MaxDepth] : hops[e] = Distance(ball, e) /\ Distance(ball, e) \in 0 .. MaxDepth
      /\ \A m \in 0 .. MaxDepth : ball[m] = {e \in ball[MaxDepth] : Distance(ball, e) <= m}
  BY <1>3, SearchedRight
<1> HIDE DEF hops, all
<1>5. \A e \in Entities : Range(linked[e]) = {q \in Built : e \in EntitiesOf(q)}
  BY GraphParts
<1>6. p \in Built /\ MaySee(p, caller)
  BY <1>2, <1>4, <1>5
<1>7. of(p) = A(MaxDepth)
  BY <1>4, <1>5, <1>6
<1>8. IsFiniteSet(Entities)
  BY GraphParts
<1>9. \A m \in 0 .. MaxDepth : A(m) \in SUBSET of(p) /\ A(m) \in SUBSET Entities
  BY <1>4, <1>7
<1>10. \A m \in 0 .. MaxDepth : IsFiniteSet(A(m)) /\ Cardinality(A(m)) \in Nat
  <2>1. ASSUME NEW m \in 0 .. MaxDepth PROVE IsFiniteSet(A(m)) /\ Cardinality(A(m)) \in Nat
    <3>1. A(m) \in SUBSET Entities
      BY <1>9
    <3> HIDE DEF A
    <3>2. IsFiniteSet(A(m))
      BY <1>8, <3>1, FS_Subset
    <3> QED BY <3>2, FS_CardinalityType
  <2> QED BY <2>1
<1>11. \A e \in of(p) : Weight \div (1 + hops[e]) \in Nat /\ hops[e] = Distance(ball, e) /\ hops[e] \in 0 .. MaxDepth
  <2>1. ASSUME NEW e \in of(p) PROVE Weight \div (1 + hops[e]) \in Nat /\ hops[e] = Distance(ball, e) /\ hops[e] \in 0 .. MaxDepth
    <3>1. hops[e] \in 0 .. MaxDepth /\ hops[e] = Distance(ball, e)
      BY <1>4
    <3>2. 1 + hops[e] \in Nat \ {0} /\ Weight \in Nat
      BY <1>3, <3>1 DEF Weight
    <3> QED BY <3>1, <3>2
  <2> QED BY <2>1
<1>12. f \in [of(p) -> Nat] /\ \A e \in of(p) : f[e] = Weight \div (1 + hops[e])
  BY <1>11
<1> HIDE DEF f
<1>13. NearIn(ball, p) = [m \in 0 .. MaxDepth |-> Cardinality(A(m))]
  BY DEF NearIn
<1>14. NearIn(ball, p) \in [0 .. MaxDepth -> Nat] /\ \A m \in 0 .. MaxDepth : NearIn(ball, p)[m] = Cardinality(A(m))
  BY <1>10, <1>13
<1>15. \A m \in 1 .. MaxDepth : A(m - 1) \subseteq A(m) /\ \A e \in A(m) \ A(m - 1) : e \in of(p) /\ hops[e] = m
  <2>1. ASSUME NEW m \in 1 .. MaxDepth
        PROVE  A(m - 1) \subseteq A(m) /\ \A e \in A(m) \ A(m - 1) : e \in of(p) /\ hops[e] = m
    <3>1. m \in 0 .. MaxDepth /\ m - 1 \in 0 .. MaxDepth /\ m \in Nat
      BY <1>3
    <3>2. /\ ball[m] = {e \in ball[MaxDepth] : Distance(ball, e) <= m}
          /\ ball[m - 1] = {e \in ball[MaxDepth] : Distance(ball, e) <= m - 1}
      BY <1>4, <3>1
    <3>3. \A e \in ball[MaxDepth] : Distance(ball, e) \in Nat /\ hops[e] = Distance(ball, e)
      BY <1>4
    <3>4. A(m - 1) \subseteq A(m)
      BY <3>1, <3>2, <3>3
    <3>5. ASSUME NEW e \in A(m) \ A(m - 1) PROVE e \in of(p) /\ hops[e] = m
      <4>1. e \in of(p) /\ e \in ball[MaxDepth] /\ Distance(ball, e) <= m /\ ~(Distance(ball, e) <= m - 1)
        BY <1>9, <3>1, <3>2
      <4> QED BY <3>1, <3>3, <4>1
    <3> QED BY <3>4, <3>5
  <2> QED BY <2>1
<1>16. A(0) \subseteq of(p) /\ \A e \in A(0) : f[e] = Weight
  <2>1. 0 \in 0 .. MaxDepth /\ Weight \div (1 + 0) = Weight
    BY <1>3 DEF Weight
  <2>2. A(0) \subseteq of(p)
    BY <1>9, <2>1
  <2>3. ASSUME NEW e \in A(0) PROVE f[e] = Weight
    <3>1. e \in ball[MaxDepth] /\ Distance(ball, e) <= 0 /\ Distance(ball, e) \in Nat
      BY <1>4, <2>1
    <3>2. hops[e] = 0
      BY <1>4, <3>1
    <3> QED BY <1>12, <2>1, <2>2, <3>2
  <2> QED BY <2>2, <2>3
<1> HIDE DEF of, A
<1>17. t[0] = Cardinality(A(0)) * Weight
  <2>1. 0 \in 0 .. MaxDepth /\ Weight \in Nat
    BY <1>3 DEF Weight
  <2>2. A(0) \in SUBSET of(p) /\ IsFiniteSet(A(0)) /\ {} \in SUBSET of(p) /\ IsFiniteSet({}) /\ {} \cap A(0) = {}
    BY <1>10, <1>16, <2>1, FS_EmptySet
  <2>3. Total(f, {} \cup A(0)) = Total(f, {}) + Cardinality(A(0)) * Weight
    BY <1>12, <1>16, <2>1, <2>2, TotalLevel
  <2>4. Total(f, {}) = 0 /\ {} \cup A(0) = A(0)
    BY TotalEmpty
  <2>5. Cardinality(A(0)) * Weight \in Nat
    BY <1>10, <2>1
  <2> QED BY <2>1, <2>3, <2>4, <2>5
<1>18. \A m \in 1 .. MaxDepth :
         t[m] = t[m - 1] + (Cardinality(A(m)) - Cardinality(A(m - 1))) * (Weight \div (1 + m))
  <2>1. ASSUME NEW m \in 1 .. MaxDepth
        PROVE  t[m] = t[m - 1] + (Cardinality(A(m)) - Cardinality(A(m - 1))) * (Weight \div (1 + m))
    <3> DEFINE S == A(m - 1)
               T == A(m) \ A(m - 1)
               c == Weight \div (1 + m)
    <3>1. m \in 0 .. MaxDepth /\ m - 1 \in 0 .. MaxDepth
      BY <1>3
    <3>2. S \in SUBSET of(p) /\ A(m) \in SUBSET of(p) /\ IsFiniteSet(S) /\ IsFiniteSet(A(m))
          /\ Cardinality(A(m)) \in Nat /\ Cardinality(S) \in Nat
      BY <1>9, <1>10, <3>1
    <3>3. T \in SUBSET of(p) /\ T \in SUBSET A(m) /\ S \cap T = {}
      BY <3>2
    <3>4. S \cup T = A(m)
      BY <1>15
    <3>5. IsFiniteSet(T)
      BY <3>2, <3>3, FS_Subset
    <3>6. c \in Nat
      BY <1>3 DEF Weight
    <3>7. \A x \in T : f[x] = c
      BY <1>12, <1>15
    <3> HIDE DEF S, T, c
    <3>8. Total(f, S \cup T) = Total(f, S) + Cardinality(T) * c
      BY <1>12, <3>2, <3>3, <3>5, <3>6, <3>7, TotalLevel
    <3>9. Cardinality(S \cup T) = Cardinality(S) + Cardinality(T) - Cardinality({})
      BY <3>2, <3>3, <3>5, FS_Union
    <3>10. Cardinality({}) = 0 /\ Cardinality(T) \in Nat
      BY <3>5, FS_EmptySet, FS_CardinalityType
    <3>11. Cardinality(T) = Cardinality(A(m)) - Cardinality(S)
      <4>1. Cardinality(A(m)) = Cardinality(S) + Cardinality(T) - 0
        BY <3>4, <3>9, <3>10
      <4> QED BY <3>2, <3>10, <4>1
    <3>12. t[m] = Total(f, A(m)) /\ t[m - 1] = Total(f, S)
      BY <3>1 DEF S
    <3> HIDE DEF t
    <3>13. t[m] = t[m - 1] + (Cardinality(A(m)) - Cardinality(S)) * c
      BY <3>4, <3>8, <3>11, <3>12
    <3> QED BY <3>13 DEF S, c
  <2> QED BY <2>1
<1>19. t[MaxDepth] = all[p]
  BY <1>2, <1>3, <1>7
<1> HIDE DEF t
<1>20. Weighed(t, NearIn(ball, p))
  <2>1. 0 \in 0 .. MaxDepth /\ \A m \in 1 .. MaxDepth : m \in 0 .. MaxDepth /\ m - 1 \in 0 .. MaxDepth
    BY <1>3
  <2> QED BY <1>14, <1>17, <1>18, <2>1 DEF Weighed
<1> QED BY <1>6, <1>14, <1>19, <1>20 DEF all

LEMMA ScoresRight == GraphAssumption /\ GraphInv => CloserScoresHigher
<1> SUFFICES ASSUME GraphAssumption, GraphInv, NEW seeds \in SeedSets, NEW caller \in Callers
             PROVE  LET ball == Within(Related, seeds)
                        score == Scores(Ascending(seeds), MaxDepth, caller)
                        near == [p \in Built |-> [n \in DOMAIN ball |-> Cardinality(EntitiesOf(p) \cap ball[n])]]
                    IN  \A p, q \in DOMAIN score :
                          /\ MaySee(p, caller)
                          /\ (\A n \in DOMAIN ball : near[p][n] >= near[q][n])
                               => IF near[p] = near[q] THEN score[p] = score[q] ELSE score[p] > score[q]
  BY DEF CloserScoresHigher
<1> DEFINE ball == Within(Related, seeds)
           first == Ascending(seeds)
           score == Scores(first, MaxDepth, caller)
           near == [p \in Built |-> [n \in DOMAIN ball |-> Cardinality(EntitiesOf(p) \cap ball[n])]]
<1>1. first \in Seq(Entities) /\ Range(first) = seeds /\ IsInjective(first)
  BY SeedsInOrder DEF SeedSets
<1>2. MaxDepth \in Nat /\ MaxDepth \in 1 .. 4
  BY DEF GraphAssumption
<1>3. Balls(ball, Related, Range(first)) /\ DOMAIN ball = 0 .. MaxDepth
  BY <1>1, <1>2, WithinIs DEF Balls
<1>4. \A p \in Built : near[p] = NearIn(ball, p)
  BY <1>3 DEF NearIn
<1> HIDE DEF ball, first, score, near
<1>5. ASSUME NEW p \in DOMAIN score
      PROVE  /\ p \in Built /\ MaySee(p, caller) /\ near[p] \in [0 .. MaxDepth -> Nat]
             /\ \E t : Weighed(t, near[p]) /\ t[MaxDepth] = score[p]
  <2>1. /\ p \in Built /\ MaySee(p, caller) /\ NearIn(ball, p) \in [0 .. MaxDepth -> Nat]
        /\ \E t : Weighed(t, NearIn(ball, p)) /\ t[MaxDepth] = score[p]
    BY <1>1, <1>3, ScoreIs DEF score
  <2> QED BY <1>4, <2>1
<1>6. ASSUME NEW p \in DOMAIN score, NEW q \in DOMAIN score, \A n \in DOMAIN ball : near[p][n] >= near[q][n]
      PROVE  IF near[p] = near[q] THEN score[p] = score[q] ELSE score[p] > score[q]
  <2>1. PICK t : Weighed(t, near[p]) /\ t[MaxDepth] = score[p]
    BY <1>5
  <2>2. PICK u : Weighed(u, near[q]) /\ u[MaxDepth] = score[q]
    BY <1>5
  <2>3. near[p] \in [0 .. MaxDepth -> Nat] /\ near[q] \in [0 .. MaxDepth -> Nat]
    BY <1>5
  <2>4. IF near[p] = near[q] THEN t[MaxDepth] = u[MaxDepth] ELSE t[MaxDepth] > u[MaxDepth]
    BY <1>2, <1>3, <1>6, <2>1, <2>2, <2>3, MoreNearerWeighsMore
  <2> QED BY <2>1, <2>2, <2>4
<1>7. \A p, q \in DOMAIN score :
        /\ MaySee(p, caller)
        /\ (\A n \in DOMAIN ball : near[p][n] >= near[q][n])
             => IF near[p] = near[q] THEN score[p] = score[q] ELSE score[p] > score[q]
  BY <1>5, <1>6
<1> QED BY <1>7 DEF ball, first, score, near

-----------------------------------------------------------------------------
\* Neighbours.  What was met after n chunks, in the order of their distances: each
\* chunk that fits is taken at its least distance, or there are enough that are no farther.
FoundMaps == UNION {[D -> Nat] : D \in SUBSET Passages}
Fits(q, from, caller) == q # from /\ MaySee(q, caller)

Taken(F, n, c, h, from, caller) ==
  /\ F \in FoundMaps
  /\ IsFiniteSet(DOMAIN F) /\ Cardinality(DOMAIN F) <= MaxResults
  /\ \A q \in DOMAIN F : Fits(q, from, caller) /\ \E m \in 1 .. n : c[m] = q /\ F[q] = h[m]
  /\ \A m \in 1 .. n : c[m] \in DOMAIN F => F[c[m]] <= h[m]
  /\ \A m \in 1 .. n : Fits(c[m], from, caller) /\ c[m] \notin DOMAIN F =>
       Cardinality(DOMAIN F) = MaxResults /\ \A q \in DOMAIN F : F[q] <= h[m]

LEMMA FoundParts ==
  ASSUME NEW F \in FoundMaps
  PROVE  DOMAIN F \subseteq Passages /\ \A q \in DOMAIN F : F[q] \in Nat
<1>1. PICK D \in SUBSET Passages : F \in [D -> Nat]
  BY DEF FoundMaps
<1> QED BY <1>1

LEMMA TakeTurns ==
  ASSUME NEW F \in FoundMaps, NEW p \in Passages, NEW k \in Nat, NEW from, NEW caller
  PROVE  TakeChunk(F, p, k, from, caller) \in FoundMaps
<1> DEFINE G == [q \in DOMAIN F \cup {p} |-> IF q = p THEN k ELSE F[q]]
<1>1. DOMAIN F \cup {p} \in SUBSET Passages /\ \A q \in DOMAIN F : F[q] \in Nat
  BY FoundParts
<1>2. G \in [DOMAIN F \cup {p} -> Nat]
  BY <1>1
<1>3. G \in FoundMaps
  <2> HIDE DEF G
  <2> QED BY <1>1, <1>2 DEF FoundMaps
<1>4. TakeChunk(F, p, k, from, caller) = F \/ TakeChunk(F, p, k, from, caller) = G
  BY DEF TakeChunk
<1> QED BY <1>3, <1>4

LEMMA TakeGoesOn ==
  ASSUME MaxResults \in Nat, NEW N \in Nat, NEW c \in [1 .. N -> Passages], NEW h \in [1 .. N -> Nat],
         \A m, k \in 1 .. N : m <= k => h[m] <= h[k], NEW from, NEW caller,
         NEW n \in 0 .. N - 1, NEW F, Taken(F, n, c, h, from, caller)
  PROVE  Taken(TakeChunk(F, c[n + 1], h[n + 1], from, caller), n + 1, c, h, from, caller)
<1> DEFINE p == c[n + 1]
           k == h[n + 1]
           G == TakeChunk(F, p, k, from, caller)
<1>1. /\ n + 1 \in 1 .. N /\ n + 1 \in 1 .. n + 1 /\ n \in Nat
      /\ \A m \in 1 .. n + 1 : m \in 1 .. N /\ (m \in 1 .. n \/ m = n + 1)
      /\ \A m \in 1 .. n : m \in 1 .. n + 1 /\ m \in 1 .. N /\ m <= n + 1
  OBVIOUS
<1>2. p \in Passages /\ k \in Nat
  BY <1>1
<1>3. \A m \in 1 .. n : h[m] <= k
  BY <1>1
<1> HIDE DEF p, k
<1>4. /\ F \in FoundMaps
      /\ IsFiniteSet(DOMAIN F) /\ Cardinality(DOMAIN F) <= MaxResults
      /\ \A q \in DOMAIN F : Fits(q, from, caller) /\ \E m \in 1 .. n : c[m] = q /\ F[q] = h[m]
      /\ \A m \in 1 .. n : c[m] \in DOMAIN F => F[c[m]] <= h[m]
      /\ \A m \in 1 .. n : Fits(c[m], from, caller) /\ c[m] \notin DOMAIN F =>
           Cardinality(DOMAIN F) = MaxResults /\ \A q \in DOMAIN F : F[q] <= h[m]
  BY DEF Taken
<1>5. \A q \in DOMAIN F : F[q] <= k
  BY <1>3, <1>4
<1>6. Cardinality(DOMAIN F) \in Nat
  BY <1>4, FS_CardinalityType
<1>7. CASE p = from \/ ~MaySee(p, caller) \/ Cardinality(DOMAIN F) >= MaxResults \/ p \in DOMAIN F
  <2>1. G = F
    BY <1>5, <1>7 DEF TakeChunk
  <2>2. \A q \in DOMAIN F : Fits(q, from, caller) /\ \E m \in 1 .. n + 1 : c[m] = q /\ F[q] = h[m]
    BY <1>1, <1>4
  <2>3. ASSUME NEW m \in 1 .. n + 1, c[m] \in DOMAIN F PROVE F[c[m]] <= h[m]
    <3>1. CASE m \in 1 .. n
      BY <1>4, <2>3, <3>1
    <3>2. CASE m = n + 1
      BY <1>5, <2>3, <3>2 DEF k
    <3> QED BY <1>1, <3>1, <3>2
  <2>4. ASSUME NEW m \in 1 .. n + 1, Fits(c[m], from, caller), c[m] \notin DOMAIN F
        PROVE  Cardinality(DOMAIN F) = MaxResults /\ \A q \in DOMAIN F : F[q] <= h[m]
    <3>1. CASE m \in 1 .. n
      BY <1>4, <2>4, <3>1
    <3>2. CASE m = n + 1
      <4>1. Fits(p, from, caller) /\ p \notin DOMAIN F
        BY <2>4, <3>2 DEF p
      <4>2. Cardinality(DOMAIN F) >= MaxResults
        BY <1>7, <4>1 DEF Fits
      <4>3. Cardinality(DOMAIN F) = MaxResults
        BY <1>4, <1>6, <4>2
      <4> QED BY <1>5, <3>2, <4>3 DEF k
    <3> QED BY <1>1, <3>1, <3>2
  <2>5. Taken(F, n + 1, c, h, from, caller)
    BY <1>4, <2>2, <2>3, <2>4 DEF Taken
  <2> QED BY <2>1, <2>5 DEF G, p, k
<1>8. CASE ~(p = from \/ ~MaySee(p, caller) \/ Cardinality(DOMAIN F) >= MaxResults \/ p \in DOMAIN F)
  <2>1. Fits(p, from, caller) /\ Cardinality(DOMAIN F) < MaxResults /\ p \notin DOMAIN F
    BY <1>6, <1>8 DEF Fits
  <2>2. \A m \in 1 .. n : Fits(c[m], from, caller) => c[m] \in DOMAIN F
    BY <1>4, <1>6, <2>1
  <2>3. /\ DOMAIN G = DOMAIN F \cup {p} /\ G[p] = k
        /\ \A q \in DOMAIN F : q # p /\ G[q] = F[q]
    BY <1>8 DEF TakeChunk
  <2>4. G \in FoundMaps
    BY <1>2, <1>4, TakeTurns
  <2> HIDE DEF G
  <2>5. IsFiniteSet(DOMAIN G) /\ Cardinality(DOMAIN G) = Cardinality(DOMAIN F) + 1
    BY <1>4, <2>1, <2>3, FS_AddElement
  <2>6. Cardinality(DOMAIN G) <= MaxResults
    BY <1>6, <2>1, <2>5
  <2>7. ASSUME NEW q \in DOMAIN G
        PROVE  Fits(q, from, caller) /\ \E m \in 1 .. n + 1 : c[m] = q /\ G[q] = h[m]
    <3>1. CASE q \in DOMAIN F
      BY <1>1, <1>4, <2>3, <3>1
    <3>2. CASE q = p
      BY <1>1, <2>1, <2>3, <3>2 DEF p, k
    <3> QED BY <2>3, <3>1, <3>2
  <2>8. ASSUME NEW m \in 1 .. n + 1, c[m] \in DOMAIN G PROVE G[c[m]] <= h[m]
    <3>1. CASE m = n + 1
      BY <1>2, <2>3, <3>1 DEF p, k
    <3>2. CASE m \in 1 .. n
      <4>1. Fits(c[m], from, caller)
        BY <2>7, <2>8
      <4>2. c[m] \in DOMAIN F
        BY <2>2, <3>2, <4>1
      <4> QED BY <1>4, <2>3, <3>2, <4>2
    <3> QED BY <1>1, <3>1, <3>2
  <2>9. ASSUME NEW m \in 1 .. n + 1, Fits(c[m], from, caller) PROVE c[m] \in DOMAIN G
    <3>1. CASE m = n + 1
      BY <2>3, <3>1 DEF p
    <3>2. CASE m \in 1 .. n
      BY <2>2, <2>3, <2>9, <3>2
    <3> QED BY <1>1, <3>1, <3>2
  <2>10. Taken(G, n + 1, c, h, from, caller)
    BY <2>4, <2>5, <2>6, <2>7, <2>8, <2>9 DEF Taken
  <2> QED BY <2>10 DEF G, p, k
<1> QED BY <1>7, <1>8

\* The chunks on the walk: those of each entity reached, at its distance.
OnWalk(N, c, h, hops) ==
  /\ c \in [1 .. N -> Passages] /\ h \in [1 .. N -> Nat]
  /\ \A m, k \in 1 .. N : m <= k => h[m] <= h[k]
  /\ \A n \in 1 .. N : \E e \in DOMAIN hops : c[n] \in Range(linked[e]) /\ h[n] = hops[e]
  /\ \A e \in DOMAIN hops : \A q \in Range(linked[e]) : \E n \in 1 .. N : c[n] = q /\ h[n] = hops[e]

LEMMA NeighborsTaken ==
  ASSUME GraphAssumption, GraphInv, NEW from, NEW depth, NEW caller, NEW search \in SearchSet,
         search = Searched(Ascending({e \in Entities : from \in Range(linked[e])}), depth),
         \A i, j \in DOMAIN search.order : i <= j => Nearer(search, i, j)
  PROVE  \E N \in Nat : \E c, h : /\ OnWalk(N, c, h, search.hops)
                                  /\ Taken(NeighborsOf(from, depth, caller), N, c, h, from, caller)
<1> DEFINE chunksOf(k) == linked[search.order[k]]
           steps == UNION {{k} \X DOMAIN chunksOf(k) : k \in DOMAIN search.order}
           walk == Lexicographic(steps)
           N == Len(walk)
           c == [n \in 1 .. N |-> chunksOf(walk[n][1])[walk[n][2]]]
           h == [n \in 1 .. N |-> search.hops[search.order[walk[n][1]]]]
           none == << >>
           Turn(d, n) == TakeChunk(d, chunksOf(walk[n][1])[walk[n][2]], search.hops[search.order[walk[n][1]]], from, caller)
<1>1. /\ search.order \in Seq(Entities)
      /\ Len(search.order) \in Nat /\ DOMAIN search.order = 1 .. Len(search.order)
      /\ DOMAIN search.hops = Range(search.order)
      /\ \A e \in DOMAIN search.hops : search.hops[e] \in Nat
      /\ \A i \in DOMAIN search.order : search.order[i] \in Entities /\ search.order[i] \in DOMAIN search.hops
  BY SearchParts
<1>2. \A k \in DOMAIN search.order : /\ chunksOf(k) \in Seq(Passages)
                                     /\ Len(chunksOf(k)) \in Nat /\ DOMAIN chunksOf(k) = 1 .. Len(chunksOf(k))
                                     /\ \A i \in DOMAIN chunksOf(k) : chunksOf(k)[i] \in Passages
  <2>1. ASSUME NEW k \in DOMAIN search.order
        PROVE  /\ chunksOf(k) \in Seq(Passages)
               /\ Len(chunksOf(k)) \in Nat /\ DOMAIN chunksOf(k) = 1 .. Len(chunksOf(k))
               /\ \A i \in DOMAIN chunksOf(k) : chunksOf(k)[i] \in Passages
    <3>1. chunksOf(k) \in Seq(Passages)
      BY <1>1, GraphParts
    <3> HIDE DEF chunksOf
    <3> QED BY <3>1, ElementOfSeq
  <2> QED BY <2>1
<1>3. \A k \in DOMAIN search.order : \A q :
         q \in Range(linked[search.order[k]]) <=> \E i \in DOMAIN chunksOf(k) : chunksOf(k)[i] = q
  BY DEF Range
<1>4. \A s : s \in steps <=> \E k \in DOMAIN search.order : \E i \in DOMAIN chunksOf(k) : s = <<k, i>>
  <2> HIDE DEF chunksOf
  <2> QED OBVIOUS
<1> HIDE DEF chunksOf
<1>5. steps \in SUBSET (Nat \X Nat)
  <2>1. ASSUME NEW s \in steps PROVE s \in Nat \X Nat
    <3>1. PICK k \in DOMAIN search.order : \E i \in DOMAIN chunksOf(k) : s = <<k, i>>
      BY <1>4
    <3>2. PICK i \in DOMAIN chunksOf(k) : s = <<k, i>>
      BY <3>1
    <3>3. k \in Nat /\ i \in Nat
      BY <1>1, <1>2
    <3> QED BY <3>2, <3>3
  <2> QED BY <2>1
<1>6. IsFiniteSet(steps)
  <2> DEFINE all == {{k} \X DOMAIN chunksOf(k) : k \in DOMAIN search.order}
             each == [k \in DOMAIN search.order |-> {k} \X DOMAIN chunksOf(k)]
  <2>1. IsFiniteSet(DOMAIN search.order)
    <3>1. 1 \in Int /\ Len(search.order) \in Int
      BY <1>1
    <3> QED BY <1>1, <3>1, FS_Interval
  <2>2. each \in Surjection(DOMAIN search.order, all)
    BY DEF Surjection
  <2>3. IsFiniteSet(all)
    <3> HIDE DEF all, each
    <3> QED BY <2>1, <2>2, FS_Surjection
  <2>4. ASSUME NEW k \in DOMAIN search.order PROVE IsFiniteSet({k} \X DOMAIN chunksOf(k))
    <3>1. 1 \in Int /\ Len(chunksOf(k)) \in Int
      BY <1>2
    <3>2. IsFiniteSet(DOMAIN chunksOf(k))
      BY <1>2, <3>1, FS_Interval
    <3>3. IsFiniteSet({k})
      BY FS_Singleton
    <3> QED BY <3>2, <3>3, FS_Product
  <2>5. \A x \in all : IsFiniteSet(x)
    BY <2>4
  <2> HIDE DEF all, each
  <2>6. IsFiniteSet(UNION all)
    BY <2>3, <2>5, FS_UNION
  <2> QED BY <2>6 DEF all
<1> HIDE DEF steps
<1>7. Enumerates(walk, steps, {x \in steps \X steps : Precedes(x[1], x[2])})
  BY <1>5, <1>6, PairsInOrder
<1>8. walk \in Seq(steps) /\ Range(walk) = steps
  BY <1>7, Enumerated
<1>9. \A m, k \in DOMAIN walk : m < k => Precedes(walk[m], walk[k])
  BY <1>7 DEF Enumerates
<1> HIDE DEF walk
<1>10. N \in Nat /\ DOMAIN walk = 1 .. N /\ \A n \in 1 .. N : walk[n] \in steps
  BY <1>8, ElementOfSeq
<1>11. \A s \in steps : \E n \in 1 .. N : walk[n] = s
  BY <1>8, <1>10 DEF Range
<1> HIDE DEF N
<1>12. ASSUME NEW n \in 1 .. N
       PROVE  /\ walk[n][1] \in DOMAIN search.order /\ walk[n][1] \in Nat /\ walk[n][2] \in Nat
              /\ walk[n][2] \in DOMAIN chunksOf(walk[n][1])
  <2>1. walk[n] \in steps
    BY <1>10
  <2>2. PICK k \in DOMAIN search.order : \E i \in DOMAIN chunksOf(k) : walk[n] = <<k, i>>
    BY <1>4, <2>1
  <2>3. PICK i \in DOMAIN chunksOf(k) : walk[n] = <<k, i>>
    BY <2>2
  <2>4. walk[n][1] = k /\ walk[n][2] = i
    BY <2>3
  <2>5. k \in Nat /\ i \in Nat
    BY <1>1, <1>2
  <2> QED BY <2>4, <2>5
<1>13. \A n \in 1 .. N : /\ c[n] = chunksOf(walk[n][1])[walk[n][2]] /\ c[n] \in Passages
                         /\ h[n] = search.hops[search.order[walk[n][1]]] /\ h[n] \in Nat
  BY <1>1, <1>2, <1>12
<1>14. c \in [1 .. N -> Passages] /\ h \in [1 .. N -> Nat]
  BY <1>13
<1> HIDE DEF c, h
<1>15. ASSUME NEW m \in 1 .. N, NEW k \in 1 .. N, m <= k PROVE h[m] <= h[k]
  <2>1. CASE m = k
    BY <1>13, <2>1
  <2>2. CASE m # k
    <3>1. m < k
      BY <1>15, <2>2
    <3>2. Precedes(walk[m], walk[k])
      BY <1>9, <1>10, <3>1
    <3>3. walk[m][1] <= walk[k][1]
      BY <1>12, <3>2 DEF Precedes
    <3>4. Nearer(search, walk[m][1], walk[k][1])
      BY <1>12, <3>3
    <3> QED BY <1>13, <3>4 DEF Nearer
  <2> QED BY <2>1, <2>2
<1>16. ASSUME NEW n \in 1 .. N
       PROVE  \E e \in DOMAIN search.hops : c[n] \in Range(linked[e]) /\ h[n] = search.hops[e]
  <2>1. walk[n][1] \in DOMAIN search.order /\ walk[n][2] \in DOMAIN chunksOf(walk[n][1])
    BY <1>12
  <2>2. search.order[walk[n][1]] \in DOMAIN search.hops
    BY <1>1, <2>1
  <2>3. c[n] \in Range(linked[search.order[walk[n][1]]])
    BY <1>3, <1>13, <2>1
  <2> QED BY <1>13, <2>2, <2>3
<1>17. ASSUME NEW e \in DOMAIN search.hops, NEW q \in Range(linked[e])
       PROVE  \E n \in 1 .. N : c[n] = q /\ h[n] = search.hops[e]
  <2>1. PICK k \in DOMAIN search.order : search.order[k] = e
    BY <1>1 DEF Range
  <2>2. PICK i \in DOMAIN chunksOf(k) : chunksOf(k)[i] = q
    BY <1>3, <2>1
  <2>3. <<k, i>> \in steps
    BY <1>4
  <2>4. PICK n \in 1 .. N : walk[n] = <<k, i>>
    BY <1>11, <2>3
  <2>5. walk[n][1] = k /\ walk[n][2] = i
    BY <2>4
  <2> QED BY <1>13, <2>1, <2>2, <2>5
<1>18. OnWalk(N, c, h, search.hops)
  BY <1>14, <1>15, <1>16, <1>17 DEF OnWalk
<1>19. MaxResults \in Nat /\ MaxResults >= 0
  BY DEF GraphAssumption
<1>20. N \in Nat /\ none \in FoundMaps
  <2>1. none \in [{} -> Nat] /\ {} \in SUBSET Passages
    OBVIOUS
  <2> HIDE DEF none
  <2> QED BY <1>10, <2>1 DEF FoundMaps
<1>21. ASSUME NEW n \in 1 .. N, NEW d \in FoundMaps PROVE Turn(d, n) \in FoundMaps
  <2>1. Turn(d, n) = TakeChunk(d, c[n], h[n], from, caller)
    BY <1>13
  <2>2. c[n] \in Passages /\ h[n] \in Nat
    BY <1>13
  <2> HIDE DEF Turn
  <2> QED BY <2>1, <2>2, TakeTurns
<1> DEFINE step == [n \in 1 .. N |-> [d \in FoundMaps |-> Turn(d, n)]]
           Fun(g) == [n \in 0 .. N |-> IF n = 0 THEN none ELSE Turn(g[n - 1], n)]
           found == CHOOSE g : g = Fun(g)
<1> HIDE DEF Turn
<1>27. step \in [1 .. N -> [FoundMaps -> FoundMaps]] /\ \A n \in 1 .. N, d \in FoundMaps : step[n][d] = Turn(d, n)
  BY <1>21
<1> HIDE DEF step
<1>28. \E g : g = Fun(g)
  <2>1. PICK g : Iterated(g, N, FoundMaps, none, step)
    BY <1>20, <1>27, Iterates
  <2>2. g \in [0 .. N -> FoundMaps] /\ g[0] = none /\ \A n \in 1 .. N : g[n] = step[n][g[n - 1]]
    BY <2>1 DEF Iterated
  <2>3. ASSUME NEW n \in 0 .. N PROVE g[n] = IF n = 0 THEN none ELSE Turn(g[n - 1], n)
    <3>1. CASE n = 0
      BY <2>2, <3>1
    <3>2. CASE n # 0
      <4>1. n \in 1 .. N /\ n - 1 \in 0 .. N
        BY <1>20, <3>2
      <4>2. g[n - 1] \in FoundMaps
        BY <2>2, <4>1
      <4> QED BY <1>27, <2>2, <3>2, <4>1, <4>2
    <3> QED BY <3>1, <3>2
  <2>4. g = Fun(g)
    BY <2>2, <2>3
  <2> QED BY <2>4
<1>29. found = Fun(found)
  <2> HIDE DEF Fun
  <2> QED BY <1>28
<1> HIDE DEF found
<1>30. found[0] = none /\ \A n \in 1 .. N : found[n] = Turn(found[n - 1], n)
  <2>1. \A n \in 0 .. N : found[n] = IF n = 0 THEN none ELSE Turn(found[n - 1], n)
    BY <1>29
  <2>2. 0 \in 0 .. N /\ \A n \in 1 .. N : n \in 0 .. N /\ n # 0
    BY <1>20
  <2> HIDE DEF Fun
  <2> QED BY <2>1, <2>2
<1> HIDE DEF Fun
<1> DEFINE S == {n \in 0 .. N : Taken(found[n], n, c, h, from, caller)}
<1>22. 0 \in S
  <2>1. found[0] = none /\ 0 \in 0 .. N
    BY <1>30, <1>20
  <2>2. DOMAIN none = {}
    OBVIOUS
  <2>3. IsFiniteSet({}) /\ Cardinality({}) = 0
    BY FS_EmptySet
  <2> HIDE DEF none
  <2>4. Taken(none, 0, c, h, from, caller)
    BY <1>19, <1>20, <2>2, <2>3 DEF Taken
  <2> QED BY <2>1, <2>4
<1>23. ASSUME NEW n \in 0 .. N - 1, n \in S PROVE n + 1 \in S
  <2>1. n + 1 \in 1 .. N /\ n + 1 \in 0 .. N /\ (n + 1) - 1 = n
    BY <1>20
  <2>2. found[n + 1] = TakeChunk(found[n], c[n + 1], h[n + 1], from, caller)
    BY <1>30, <1>13, <2>1 DEF Turn
  <2>3. Taken(found[n], n, c, h, from, caller)
    BY <1>23
  <2>4. Taken(TakeChunk(found[n], c[n + 1], h[n + 1], from, caller), n + 1, c, h, from, caller)
    BY <1>14, <1>15, <1>19, <1>20, <2>3, TakeGoesOn
  <2> QED BY <2>1, <2>2, <2>4
<1>24. Taken(found[N], N, c, h, from, caller)
  <2> HIDE DEF S
  <2>1. 0 .. N \subseteq S
    BY <1>20, <1>22, <1>23, UpTo
  <2> QED BY <1>20, <2>1 DEF S
<1>25. NeighborsOf(from, depth, caller) = found[N]
  BY DEF NeighborsOf, found, Fun, Turn, none, N, walk, steps, chunksOf
<1>26. OnWalk(N, c, h, search.hops) /\ Taken(NeighborsOf(from, depth, caller), N, c, h, from, caller)
  BY <1>18, <1>24, <1>25
<1> QED BY <1>20, <1>26

\* All of which a chunk of the walk that fits is one that should be near.
LEMMA NeighborsRight == GraphAssumption /\ GraphInv => NeighborsAreNearest
<1> SUFFICES ASSUME GraphAssumption, GraphInv,
                    NEW p \in Built, NEW caller \in Callers, NEW depth \in 0 .. MaxDepth
             PROVE  LET ball == Within(Related, EntitiesOf(p))
                        there(q) == EntitiesOf(q) \cap ball[depth]
                        near == [q \in {x \in Built \ {p} : MaySee(x, caller) /\ there(x) # {}} |->
                                   Min({Distance(ball, e) : e \in there(q)})]
                        shown == NeighborsOf(p, depth, caller)
                    IN  EntitiesOf(p) # {} =>
                          /\ \A q \in DOMAIN shown : q \in DOMAIN near /\ shown[q] = near[q]
                          /\ Cardinality(DOMAIN shown) = Min({MaxResults, Cardinality(DOMAIN near)})
                          /\ \A q \in DOMAIN shown, r \in DOMAIN near \ DOMAIN shown : near[q] <= near[r]
  BY DEF NeighborsAreNearest
<1> DEFINE ball == Within(Related, EntitiesOf(p))
           there(q) == EntitiesOf(q) \cap ball[depth]
           near == [q \in {x \in Built \ {p} : MaySee(x, caller) /\ there(x) # {}} |->
                      Min({Distance(ball, e) : e \in there(q)})]
           shown == NeighborsOf(p, depth, caller)
           seeds == Ascending({e \in Entities : p \in Range(linked[e])})
           search == Searched(seeds, depth)
<1>1. /\ MaxDepth \in Nat /\ MaxResults \in Nat
      /\ EntitiesOf(p) \subseteq Entities
      /\ \A e \in Entities : Range(linked[e]) = {q \in Built : e \in EntitiesOf(q)}
  BY GraphParts DEF GraphAssumption
<1>2. {e \in Entities : p \in Range(linked[e])} = EntitiesOf(p)
  BY <1>1
<1>3. seeds \in Seq(Entities) /\ Range(seeds) = EntitiesOf(p) /\ IsInjective(seeds)
  BY <1>1, <1>2, SeedsInOrder
<1> HIDE DEF seeds
<1>4. Balls(ball, Related, Range(seeds))
  BY <1>1, <1>3, WithinIs
<1> HIDE DEF ball
<1>5. /\ search \in SearchSet
      /\ DOMAIN search.hops = ball[depth] /\ ball[depth] \subseteq Entities
      /\ \A e \in ball[depth] : search.hops[e] = Distance(ball, e) /\ Distance(ball, e) \in 0 .. depth
      /\ \A i, j \in DOMAIN search.order : i <= j => Nearer(search, i, j)
  BY <1>3, <1>4, SearchedRight
<1>6. \E N \in Nat : \E c, h : OnWalk(N, c, h, search.hops) /\ Taken(shown, N, c, h, p, caller)
  BY <1>5, NeighborsTaken DEF seeds
<1> HIDE DEF search, shown
<1>7. PICK N \in Nat : \E c, h : OnWalk(N, c, h, search.hops) /\ Taken(shown, N, c, h, p, caller)
  BY <1>6
<1>8. PICK c, h : OnWalk(N, c, h, search.hops) /\ Taken(shown, N, c, h, p, caller)
  BY <1>7
<1>9. /\ c \in [1 .. N -> Passages] /\ h \in [1 .. N -> Nat]
      /\ \A n \in 1 .. N : \E e \in ball[depth] : c[n] \in Range(linked[e]) /\ h[n] = Distance(ball, e)
      /\ \A e \in ball[depth] : \A q \in Range(linked[e]) : \E n \in 1 .. N : c[n] = q /\ h[n] = Distance(ball, e)
  <2>1. /\ c \in [1 .. N -> Passages] /\ h \in [1 .. N -> Nat]
        /\ \A n \in 1 .. N : \E e \in DOMAIN search.hops : c[n] \in Range(linked[e]) /\ h[n] = search.hops[e]
        /\ \A e \in DOMAIN search.hops : \A q \in Range(linked[e]) :
             \E n \in 1 .. N : c[n] = q /\ h[n] = search.hops[e]
    BY <1>8 DEF OnWalk
  <2>2. ASSUME NEW n \in 1 .. N PROVE \E e \in ball[depth] : c[n] \in Range(linked[e]) /\ h[n] = Distance(ball, e)
    BY <1>5, <2>1
  <2>3. ASSUME NEW e \in ball[depth], NEW q \in Range(linked[e])
        PROVE  \E n \in 1 .. N : c[n] = q /\ h[n] = Distance(ball, e)
    <3>1. e \in DOMAIN search.hops /\ search.hops[e] = Distance(ball, e)
      BY <1>5
    <3>2. q \in Range(linked[e])
      OBVIOUS
    <3>3. \E n \in 1 .. N : c[n] = q /\ h[n] = search.hops[e]
      BY <2>1, <3>1, <3>2
    <3> QED BY <3>1, <3>3
  <2> QED BY <2>1, <2>2, <2>3
<1>10. /\ IsFiniteSet(DOMAIN shown) /\ Cardinality(DOMAIN shown) <= MaxResults
       /\ \A q \in DOMAIN shown : Fits(q, p, caller) /\ \E m \in 1 .. N : c[m] = q /\ shown[q] = h[m]
       /\ \A m \in 1 .. N : c[m] \in DOMAIN shown => shown[c[m]] <= h[m]
       /\ \A m \in 1 .. N : Fits(c[m], p, caller) /\ c[m] \notin DOMAIN shown =>
            Cardinality(DOMAIN shown) = MaxResults /\ \A q \in DOMAIN shown : shown[q] <= h[m]
  BY <1>8 DEF Taken
<1>11. ASSUME NEW n \in 1 .. N
       PROVE  c[n] \in Built /\ \E e \in there(c[n]) : h[n] = Distance(ball, e)
  <2>1. PICK e \in ball[depth] : c[n] \in Range(linked[e]) /\ h[n] = Distance(ball, e)
    BY <1>9
  <2> QED BY <1>1, <1>5, <2>1
<1>12. ASSUME NEW q \in Built, NEW e \in there(q)
       PROVE  \E n \in 1 .. N : c[n] = q /\ h[n] = Distance(ball, e)
  <2>1. e \in ball[depth] /\ q \in Range(linked[e])
    BY <1>1, <1>5
  <2> QED BY <1>9, <2>1
<1> DEFINE Spans(q) == {Distance(ball, e) : e \in there(q)}
<1>13. \A q : Spans(q) \in SUBSET Int /\ (there(q) # {} => Spans(q) # {}) /\ IsFiniteSet(Spans(q))
  <2>1. ASSUME NEW q PROVE Spans(q) \in SUBSET (0 .. depth) /\ (there(q) # {} => Spans(q) # {})
    BY <1>5
  <2>2. IsFiniteSet(0 .. depth) /\ 0 .. depth \in SUBSET Int
    <3>1. 0 \in Int /\ depth \in Int
      BY <1>1
    <3>2. IsFiniteSet(0 .. depth)
      BY <3>1, FS_Interval
    <3>3. 0 .. depth \in SUBSET Int
      BY <3>1
    <3> QED BY <3>2, <3>3
  <2> HIDE DEF Spans, there
  <2> QED BY <2>1, <2>2, FS_Subset
<1>14. DOMAIN near = {x \in Built \ {p} : MaySee(x, caller) /\ there(x) # {}}
       /\ \A q \in DOMAIN near : near[q] = Min(Spans(q))
  OBVIOUS
<1>15. \A q \in DOMAIN near : q \in Built /\ Fits(q, p, caller) /\ there(q) # {}
  BY <1>14 DEF Fits
<1>16. \A q \in Built : Fits(q, p, caller) /\ there(q) # {} => q \in DOMAIN near
  BY <1>14 DEF Fits
<1> HIDE DEF near
<1>17. ASSUME NEW r \in DOMAIN near PROVE \E n \in 1 .. N : c[n] = r /\ near[r] = h[n]
  <2>1. Min(Spans(r)) \in Spans(r)
    <3> HIDE DEF Spans, there
    <3> QED BY <1>13, <1>15, FiniteMin
  <2>2. PICK e \in there(r) : near[r] = Distance(ball, e)
    BY <1>14, <2>1
  <2> HIDE DEF there
  <2> QED BY <1>12, <1>15, <2>2
<1>18. ASSUME NEW q \in DOMAIN shown PROVE q \in DOMAIN near /\ shown[q] = near[q]
  <2>1. PICK m \in 1 .. N : c[m] = q /\ shown[q] = h[m]
    BY <1>10
  <2>2. q \in Built /\ \E e \in there(q) : h[m] = Distance(ball, e)
    BY <1>11, <2>1
  <2>3. shown[q] \in Spans(q) /\ there(q) # {}
    BY <2>1, <2>2
  <2>4. ASSUME NEW e \in there(q) PROVE shown[q] <= Distance(ball, e)
    <3>1. PICK n \in 1 .. N : c[n] = q /\ h[n] = Distance(ball, e)
      BY <1>12, <2>2, <2>4
    <3> QED BY <1>10, <3>1
  <2>5. \A x \in Spans(q) : shown[q] <= x
    BY <2>4
  <2>6. q \in DOMAIN near
    BY <1>10, <1>16, <2>2, <2>3
  <2> HIDE DEF Spans, there
  <2>7. Min(Spans(q)) = shown[q]
    BY <1>13, <2>3, <2>5, IsMin
  <2> QED BY <1>14, <2>6, <2>7
<1>19. ASSUME NEW r \in DOMAIN near \ DOMAIN shown
       PROVE  Cardinality(DOMAIN shown) = MaxResults /\ \A q \in DOMAIN shown : shown[q] <= near[r]
  <2>1. PICK n \in 1 .. N : c[n] = r /\ near[r] = h[n]
    BY <1>17
  <2> QED BY <1>10, <1>15, <2>1
<1>20. Cardinality(DOMAIN shown) = Min({MaxResults, Cardinality(DOMAIN near)})
  <2>1. IsFiniteSet(DOMAIN near)
    <3> DEFINE met == {c[n] : n \in 1 .. N}
    <3>1. c \in Surjection(1 .. N, met)
      BY <1>9 DEF Surjection
    <3>2. IsFiniteSet(1 .. N)
      <4>1. 1 \in Int /\ N \in Int
        OBVIOUS
      <4> QED BY <4>1, FS_Interval
    <3>3. DOMAIN near \in SUBSET met
      BY <1>17
    <3> HIDE DEF met
    <3>4. IsFiniteSet(met)
      BY <3>1, <3>2, FS_Surjection
    <3> QED BY <3>3, <3>4, FS_Subset
  <2>2. DOMAIN shown \in SUBSET DOMAIN near
    BY <1>18
  <2>3. Cardinality(DOMAIN near) \in Nat /\ Cardinality(DOMAIN shown) \in Nat
        /\ Cardinality(DOMAIN shown) <= Cardinality(DOMAIN near)
    BY <1>10, <2>1, <2>2, FS_Subset, FS_CardinalityType
  <2>4. Min({MaxResults, Cardinality(DOMAIN near)}) =
          IF MaxResults <= Cardinality(DOMAIN near) THEN MaxResults ELSE Cardinality(DOMAIN near)
    BY <1>1, <2>3, MinOfTwo
  <2>5. CASE DOMAIN near = DOMAIN shown
    BY <1>1, <1>10, <2>3, <2>4, <2>5
  <2>6. CASE DOMAIN near # DOMAIN shown
    <3>1. PICK r \in DOMAIN near : r \notin DOMAIN shown
      BY <2>2, <2>6
    <3>2. Cardinality(DOMAIN shown) = MaxResults
      BY <1>19, <3>1
    <3> QED BY <2>3, <2>4, <3>2
  <2> QED BY <2>5, <2>6
<1>21. \A q \in DOMAIN shown, r \in DOMAIN near \ DOMAIN shown : near[q] <= near[r]
  BY <1>18, <1>19
<1>22. /\ \A q \in DOMAIN shown : q \in DOMAIN near /\ shown[q] = near[q]
       /\ Cardinality(DOMAIN shown) = Min({MaxResults, Cardinality(DOMAIN near)})
       /\ \A q \in DOMAIN shown, r \in DOMAIN near \ DOMAIN shown : near[q] <= near[r]
  BY <1>18, <1>20, <1>21
<1> QED BY <1>22 DEF near, shown, ball

\* In every state of the graph, for all chunks, callers and depths: edges and links are
\* as many on both ends, a search finds what is near at its distance, and scores and
\* neighbours follow the distances (InMemoryGraphStore, GraphRetriever, corpus_neighbors).
THEOREM GraphHolds == GraphSpec => []GraphSound
<1>1. ASSUME GraphAssumption, GraphInv PROVE GraphSound
  BY <1>1, GraphTyped, HopsRight, ScoresRight, NeighborsRight DEF GraphSound
<1>2. GraphSpec => []GraphInv
  BY GraphAssumption, GraphInductive
<1> QED BY GraphAssumption, <1>1, <1>2, PTL

=============================================================================
