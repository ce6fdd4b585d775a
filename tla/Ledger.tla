-------------------------------- MODULE Ledger --------------------------------
(***************************************************************************)
(* The experiment ledger (src/self_improvement/ledger/ledger.py): append-  *)
(* only files, one per generation, whose reader folds all lines by id, the *)
(* last one winning.  One process writes; append and update_status run     *)
(* from their read to their write without an await.  A process may die at  *)
(* any time, in the middle of a line too, and another one takes over.      *)
(*                                                                         *)
(* What a record says of its experiment is a version: every write of the   *)
(* id brings the next one.                                                 *)
(***************************************************************************)
EXTENDS Totals, SequencesExt

CONSTANTS
  Experiments,    \* experiment ids
  LastGeneration, \* bound: generations
  MaxVersion,     \* bound: writes of one experiment
  MaxDeaths       \* bound: processes that die

ASSUME LedgerAssumption ==
  /\ {LastGeneration, MaxDeaths} \subseteq Nat /\ MaxVersion \in Nat \ {0}
  /\ "none" \notin Experiments

VARIABLES
  files,    \* the lines of every generation's file
  writing,  \* a process is there
  mine,     \* what it has appended: id to generation
  acked,    \* history: the version whose write has returned
  glimpsed, \* history: the version a reader could have seen
  deaths    \* history

ledgerVars == <<files, writing, mine, acked, glimpsed, deaths>>

Files == 0 .. LastGeneration
Records ==
  [id : Experiments, parents : Seq(Experiments), version : 1 .. MaxVersion]
NoRecord == [id |-> "none"]

\* A line holds a record, or the remains of some that do not parse; the last
\* one may still lack its newline.
Lines == [record : Records \cup {NoRecord}, closed : BOOLEAN]
Line(record, closed) == [record |-> record, closed |-> closed]
Garbled(line) == line.record = NoRecord

-----------------------------------------------------------------------------
\* Reading

\* _read_all raises on a line that does not parse, wherever it stands.
Readable(fs) == \A f \in Files : \A i \in DOMAIN fs[f] : ~Garbled(fs[f][i])

\* The reader goes file by file, and each from top to bottom.
Places(fs) == UNION {{f} \X DOMAIN fs[f] : f \in Files}
LineAt(fs, p) == fs[p[1]][p[2]]
NotBefore(p, q) == p[1] > q[1] \/ (p[1] = q[1] /\ p[2] >= q[2])

Known(fs) == {LineAt(fs, p).record.id : p \in Places(fs)}
On(fs, e) == {p \in Places(fs) : LineAt(fs, p).record.id = e}

\* Mutant: the first occurrence wins.
ReadFirst(fs) ==
  [e \in Known(fs) |->
     LineAt(fs, CHOOSE p \in On(fs, e) : \A q \in On(fs, e) : NotBefore(q, p)).record]

\* The fold: of all lines on an experiment the last one counts.
ReadAll(fs) ==
  [e \in Known(fs) |->
     LineAt(fs, CHOOSE p \in On(fs, e) : \A q \in On(fs, e) : NotBefore(p, q)).record]

VersionOf(fs, e) == IF e \in Known(fs) THEN ReadAll(fs)[e].version ELSE 0

\* The visits of walk() at one experiment: place n of the chain of its k-th parent is
\* visited as <<k, n>>; a parent nothing is known of has no chain.
Visits(known, walk, parents) ==
  UNION {{k} \X DOMAIN walk[parents[k]] : k \in {j \in DOMAIN parents : parents[j] \in DOMAIN known}}
Visited(walk, parents, v) == walk[parents[v[1]]][v[2]]
Sooner(v, w) == v[1] < w[1] \/ (v[1] = w[1] /\ v[2] < w[2])
InTurn(visits) == InOrder(visits, {p \in visits \X visits : Sooner(p[1], p[2])})
FirstMet(walk, parents, visits) ==
  {v \in visits : \A w \in visits : Sooner(w, v) => Visited(walk, parents, w) # Visited(walk, parents, v)}

\* Depth first, and each ancestor where it is first met, the experiment itself last.
Chain(known, walk, x) ==
  LET parents == known[x].parents
      order == InTurn(FirstMet(walk, parents, Visits(known, walk, parents)))
  IN  Append([n \in DOMAIN order |-> Visited(walk, parents, order[n])], x)

\* lineage(e)
Lineages(known) == LET walk[x \in DOMAIN known] == Chain(known, walk, x) IN walk
Ancestry(known, e) == Lineages(known)[e]

-----------------------------------------------------------------------------
\* Writing

\* write() in mode "a": a line without a newline before it runs into this one.
Written(f, line) ==
  IF files[f] # << >> /\ ~files[f][Len(files[f])].closed
  THEN [files EXCEPT ![f][Len(files[f])] = Line(NoRecord, line.closed)]
  ELSE [files EXCEPT ![f] = Append(@, line)]

\* What a reader sees from now on.
Glimpse ==
  IF ~Readable(files') THEN UNCHANGED glimpsed
  ELSE glimpsed' = [e \in Experiments |-> Max({glimpsed[e], VersionOf(files', e)})]

\* The records append may be given: a new experiment, under an id nobody has
\* used, bred from earlier generations of the process.
NewRecords(g) ==
  LET used == DOMAIN mine \cup Known(files)
  IN  {[id |-> e, parents |-> ps, version |-> 1] :
         e \in {x \in Experiments : acked[x] = 0} \ used,
         ps \in SeqOf({x \in DOMAIN mine : mine[x] < g}, 2)}

LedgerInit ==
  /\ files = [f \in Files |-> << >>]
  /\ writing = TRUE
  /\ mine = << >>
  /\ acked = [e \in Experiments |-> 0]
  /\ glimpsed = acked
  /\ deaths = 0

AppendRecord(g, record) ==
  /\ writing
  /\ record \in NewRecords(g)
  /\ files' = Written(g, Line(record, TRUE))
  /\ mine' = [x \in DOMAIN mine \cup {record.id} |->
                IF x = record.id THEN g ELSE mine[x]]
  /\ acked' = [acked EXCEPT ![record.id] = 1]
  /\ Glimpse
  /\ UNCHANGED <<writing, deaths>>

\* The file an experiment is in, which is that of its generation.
FileOf(e) ==
  CHOOSE f \in Files : \E i \in DOMAIN files[f] : files[f][i].record.id = e

NextVersion(e) == [ReadAll(files)[e] EXCEPT !.version = @ + 1]

Updatable(e) == Readable(files) /\ e \in Known(files) /\ VersionOf(files, e) < MaxVersion

\* It reads everything first, and so raises where nothing can be read.
UpdateStatus(e) ==
  /\ writing /\ Updatable(e)
  /\ files' = Written(FileOf(e), Line(NextVersion(e), TRUE))
  /\ acked' = [acked EXCEPT ![e] = NextVersion(e).version]
  /\ Glimpse
  /\ UNCHANGED <<writing, mine, deaths>>

\* The process dies between two operations, or inside a write that has got
\* part of a line to the file: part of the record, or all but the newline.
Die(f, line) ==
  /\ writing /\ deaths < MaxDeaths
  /\ files' = Written(f, line)
  /\ writing' = FALSE /\ mine' = << >>
  /\ deaths' = deaths + 1
  /\ Glimpse
  /\ UNCHANGED acked

DieIdle ==
  /\ writing /\ deaths < MaxDeaths
  /\ writing' = FALSE /\ mine' = << >>
  /\ deaths' = deaths + 1
  /\ UNCHANGED <<files, acked, glimpsed>>

DieAppending(g, record) ==
  /\ record \in NewRecords(g)
  /\ \E r \in {record, NoRecord} : Die(g, Line(r, FALSE))

DieUpdating(e) ==
  /\ Updatable(e)
  /\ \E r \in {NextVersion(e), NoRecord} : Die(FileOf(e), Line(r, FALSE))

\* Another process opens the same root.
Reopen ==
  /\ ~writing
  /\ writing' = TRUE
  /\ UNCHANGED <<files, mine, acked, glimpsed, deaths>>

LedgerNext ==
  \/ \E g \in Files : \E record \in NewRecords(g) :
       AppendRecord(g, record) \/ DieAppending(g, record)
  \/ \E e \in Experiments : UpdateStatus(e) \/ DieUpdating(e)
  \/ DieIdle \/ Reopen

LedgerSpec == LedgerInit /\ [][LedgerNext]_ledgerVars

-----------------------------------------------------------------------------
\* Properties

\* All lines of an experiment are in one file, and only a last line can lack its
\* newline.
LedgerTypeOK ==
  /\ \A f, g \in Files : \A i \in DOMAIN files[f], j \in DOMAIN files[g] :
       /\ ~Garbled(files[f][i]) /\ files[f][i].record.id = files[g][j].record.id => f = g
       /\ i # Len(files[f]) => files[f][i].closed
  /\ files \in [Files -> Seq(Lines)]
  /\ writing \in BOOLEAN
  /\ DOMAIN mine \subseteq Experiments
  /\ \A e \in DOMAIN mine : mine[e] \in Files
  /\ {acked, glimpsed} \subseteq [Experiments -> 0 .. MaxVersion]
  /\ deaths \in 0 .. MaxDeaths

\* Whoever can read the ledger finds every write that has returned, by this
\* process or one before, and nothing older than what a reader has found.
WritesKept ==
  Readable(files) =>
    \A e \in Experiments : VersionOf(files, e) >= acked[e] /\ VersionOf(files, e) >= glimpsed[e]

\* lineage() lists every ancestor, each once and before its descendants; no
\* death between two generations leaves a child without its parents.
LineageInOrder ==
  Readable(files) =>
    LET known == ReadAll(files) IN
    \A e \in DOMAIN known :
      LET chain == Ancestry(known, e)
          Before(i) == {chain[j] : j \in 1 .. i - 1}
      IN  /\ Last(chain) = e
          /\ IsInjective(chain)
          /\ \A i \in DOMAIN chain : ToSet(known[chain[i]].parents) \subseteq Before(i)

\* Every later read sees what was appended, in its last version and with its
\* lineage, however often a status is updated and a process dies in a line.
LedgerSound == LedgerTypeOK /\ WritesKept /\ LineageInOrder

=============================================================================
