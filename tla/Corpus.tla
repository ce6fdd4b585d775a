--------------------------------- MODULE Corpus ---------------------------------
(***************************************************************************)
(* Direct corpus interaction (src/knowledge_index/dci): documents put back *)
(* together from their chunks, and the tools that list, read and search    *)
(* them for a caller with principals.  A text is a sequence of letters and *)
(* line breaks; offsets count the characters before a place, as in Python. *)
(***************************************************************************)
EXTENDS Totals, Integers, SequencesExt

CONSTANTS
  PaperIds,      \* ids of documents
  ChunkTexts,   \* texts of chunks
  Places,       \* collection and source of a document: the parts of its path
  Readers,      \* principals
  MaxBytes,     \* ceiling of one read
  MaxHits,      \* ceiling of one search
  MaxChunks     \* bound: chunks added

Newline == "nl"
FormFeed == "ff"
Unnamed == ""   \* a blank part of a path; no document's id
ASSUME CorpusAssumption ==
  /\ Unnamed \notin PaperIds
  /\ \A t \in ChunkTexts : t \in Seq(Range(t)) /\ t # << >>
  /\ \A p \in Places : p \in Seq(Range(p))
  /\ {MaxBytes, MaxHits, MaxChunks} \subseteq Nat

VARIABLE corpus  \* the documents, in the order they came in

Ids == {corpus[i].id : i \in DOMAIN corpus}
DocOf(id) == corpus[CHOOSE i \in DOMAIN corpus : corpus[i].id = id]
Slice(text, start, end) == SubSeq(text, start + 1, Min({end, Len(text)}))
ChunkCount == Total([i \in DOMAIN corpus |-> Len(corpus[i].chunks)], DOMAIN corpus)

-----------------------------------------------------------------------------
\* Every chunk starts on a line of its own.
AppendChunk(d, text, acl) ==
  LET gap == IF d.text # << >> /\ Last(d.text) # Newline THEN <<Newline>> ELSE << >>
      start == Len(d.text \o gap)
  IN  [d EXCEPT !.text = @ \o gap \o text, !.acl = @ \cup acl,
         !.chunks = Append(@, [text |-> text, start |-> start, end |-> start + Len(text)])]

CorpusInit == corpus = << >>

\* add_chunks, for the chunks of one document: its place is that of the last
\* batch, its access list the union.
AddChunks(id, place, acl, texts) ==
  LET old == IF id \in Ids THEN DocOf(id)
             ELSE [id |-> id, path |-> << >>, text |-> << >>, acl |-> {}, chunks |-> << >>]
      joined[n \in 0 .. Len(texts)] ==
        IF n = 0 THEN old ELSE AppendChunk(joined[n - 1], texts[n], acl)
      new == [joined[Len(texts)] EXCEPT !.path = Append(place, id)]
  IN
  /\ ChunkCount + Len(texts) <= MaxChunks
  /\ corpus' = IF id \in Ids THEN [i \in DOMAIN corpus |-> IF corpus[i].id = id THEN new ELSE corpus[i]]
               ELSE Append(corpus, new)

CorpusNext ==
  \E id \in PaperIds, place \in Places, acl \in SUBSET Readers, texts \in SeqOf(ChunkTexts, MaxChunks) :
    texts # << >> /\ AddChunks(id, place, acl, texts)

CorpusSpec == CorpusInit /\ [][CorpusNext]_corpus

-----------------------------------------------------------------------------
AclVisible(acl, principals) == acl = {} \/ acl \cap principals # {}
VisibleAt(principals) == {i \in DOMAIN corpus : AclVisible(corpus[i].acl, principals)}

ChunkForOffset(d, offset) ==
  LET at == {i \in DOMAIN d.chunks : d.chunks[i].start <= offset /\ offset < d.chunks[i].end}
  IN  d.chunks[IF at = {} THEN Len(d.chunks) ELSE Min(at)]

\* Where a line starts; the end when there are not so many.
LineToChar(text, line) ==
  LET breaks == Ascending({i \in DOMAIN text : text[i] = Newline})
  IN  IF line <= 1 THEN 0 ELSE IF line - 1 \in DOMAIN breaks THEN breaks[line - 1] ELSE Len(text)

\* Mutant: a line keeps its break.
SplitLinesWithEnds(text) ==
  LET Break(i) == text[i] \in {Newline, FormFeed}
      starts == {i \in DOMAIN text : i = 1 \/ Break(i - 1)}
      Rest(s) == {i \in DOMAIN text : i >= s /\ Break(i)}
      Line(s) == SubSeq(text, s, IF Rest(s) = {} THEN Len(text) ELSE Min(Rest(s)))
      order == Ascending(starts)
  IN  [k \in DOMAIN order |-> Line(order[k])]

\* str.splitlines: what stands before a break of either kind or the end.
SplitLines(text) ==
  LET Break(i) == text[i] \in {Newline, FormFeed}
      starts == {i \in DOMAIN text : i = 1 \/ Break(i - 1)}
      Rest(s) == {i \in DOMAIN text : i >= s /\ Break(i)}
      Line(s) == SubSeq(text, s, IF Rest(s) = {} THEN Len(text) ELSE Min(Rest(s)) - 1)
      order == Ascending(starts)
  IN  [k \in DOMAIN order |-> Line(order[k])]

Hidden == [content |-> << >>, hidden |-> TRUE, truncated |-> FALSE, span |-> <<0, 0>>, cites |-> << >>]

\* read: last is 0 for no last line.
Read(id, first, last, bytes, principals) ==
  IF id \notin Ids \/ ~AclVisible(DocOf(id).acl, principals) THEN Hidden
  ELSE LET d == DocOf(id)
           start == LineToChar(d.text, first)
           whole == IF last = 0 THEN Len(d.text) ELSE LineToChar(d.text, last + 1)
           truncated == whole > start + bytes
           end == IF truncated THEN start + bytes ELSE whole
       IN  [content |-> Slice(d.text, start, end), hidden |-> FALSE, truncated |-> truncated,
            span |-> <<start, end>>, cites |-> ChunkForOffset(d, start)]

\* corpus_read: a caller can shrink the window, never widen it.
CorpusRead(id, first, last, bytes, principals) == Read(id, first, last, Min({bytes, MaxBytes}), principals)

\* corpus_describe: existence is not given away.
Describe(id, principals) ==
  IF id \notin Ids \/ ~AclVisible(DocOf(id).acl, principals) THEN [id |-> id, hidden |-> TRUE, length |-> 0]
  ELSE [id |-> id, hidden |-> FALSE, length |-> Len(DocOf(id).text)]

\* corpus_glob: the visible documents whose path and type match (the filters are the
\* set of ids they let through), cut after the limit is reached, so that one is
\* returned for a limit of none.
Glob(matching, limit, principals) ==
  LET all == Ascending({i \in VisibleAt(principals) : corpus[i].id \in matching})
  IN  [k \in 1 .. Min({Len(all), Max({1, limit})}) |-> corpus[all[k]]]

\* grep: line by line, the pattern a letter here.
Grep(letter, matching, limit, principals) ==
  LET Line(i, n) == SplitLines(corpus[i].text)[n]
      found == UNION {{i} \X {n \in DOMAIN SplitLines(corpus[i].text) : letter \in Range(Line(i, n))} :
                        i \in {j \in VisibleAt(principals) : corpus[j].id \in matching}}
      before(p, q) == p[1] < q[1] \/ (p[1] = q[1] /\ p[2] < q[2])
      all == InOrder(found, {c \in found \X found : before(c[1], c[2])})
      Hit(i, n) == LET offset == LineToChar(corpus[i].text, n) IN
        [id |-> corpus[i].id, line |-> n, snippet |-> Line(i, n),
         span |-> <<offset, offset + Len(Line(i, n))>>, cites |-> ChunkForOffset(corpus[i], offset)]
  IN  [k \in 1 .. Min({Len(all), Max({1, limit})}) |-> Hit(all[k][1], all[k][2])]

\* corpus_grep.
CorpusGrep(letter, matching, limit, principals) == Grep(letter, matching, Min({limit, MaxHits}), principals)

\* One entry for every name under a path; a document replaces a directory of its
\* name, and a directory replaces nothing.
EntriesUnder(at, principals) ==
  LET under == {i \in VisibleAt(principals) : Len(corpus[i].path) > Len(at) /\ IsPrefix(at, corpus[i].path)}
      IsDoc(i) == Len(corpus[i].path) = Len(at) + 1
      Named(name) == {i \in under : corpus[i].path[Len(at) + 1] = name}
      Entry(name) ==
        LET leaves == {i \in Named(name) : IsDoc(i)}
        IN  [path |-> Append(at, name), doc |-> IF leaves = {} THEN Unnamed ELSE corpus[Max(leaves)].id]
  IN  {Entry(name) : name \in {corpus[i].path[Len(at) + 1] : i \in under}}

\* corpus_ls: a path may end in a separator.
Ls(path, principals) ==
  EntriesUnder(IF path # << >> /\ Last(path) = Unnamed THEN Front(path) ELSE path, principals)

-----------------------------------------------------------------------------
\* Properties

\* Every chunk is where its offsets say, in the text of a document that is the
\* chunks in their order, each on a line of its own.
CorpusTypeOK ==
  \A i \in DOMAIN corpus :
    LET d == corpus[i] IN
    /\ d.id \in PaperIds /\ d.acl \subseteq Readers /\ Front(d.path) \in Places
    /\ \A k \in DOMAIN d.chunks :
         /\ Slice(d.text, d.chunks[k].start, d.chunks[k].end) = d.chunks[k].text
         /\ d.chunks[k].start = 0 \/ d.text[d.chunks[k].start] = Newline
         /\ k > 1 => d.chunks[k - 1].end <= d.chunks[k].start

\* Windows of lines read one after the other make up the whole text; a read is
\* the slice its span names, no longer than asked for or allowed, and cites the chunk it
\* begins in; and a document a caller may not see reads as one that is not there.
WindowsMakeTheText ==
  \A id \in Ids, principals \in SUBSET Readers :
    LET d == DocOf(id)
        lines == Cardinality({i \in DOMAIN d.text : d.text[i] = Newline}) + 1
        Window(a, b) == CorpusRead(id, a, b, MaxBytes, principals)
    IN  IF ~AclVisible(d.acl, principals)
        THEN Window(1, 0) = Hidden /\ Describe(id, principals).hidden
        ELSE /\ \A n \in 1 .. lines : Len(d.text) <= MaxBytes =>
                  Window(1, n).content \o Window(n + 1, 0).content = d.text
             /\ \A first \in 1 .. lines + 1, last \in 0 .. lines + 1, bytes \in 0 .. MaxBytes + 1 :
                  LET r == CorpusRead(id, first, last, bytes, principals) IN
                  /\ Len(r.content) <= Min({bytes, MaxBytes})
                  /\ r.truncated => Len(r.content) = Min({bytes, MaxBytes})
                  /\ r.content # << >> =>
                       /\ Slice(d.text, r.span[1], r.span[2]) = r.content
                       /\ r.cites.start <= r.span[1] /\ r.span[1] < r.cites.end

\* A hit cites the chunk its line is in and the place the line has in the text.
CitesItsLine(d, hit) ==
  /\ Slice(d.text, hit.span[1], hit.span[2]) = hit.snippet
  /\ hit.cites.start <= hit.span[1] /\ hit.span[2] <= hit.cites.end
Hits(letter) == CorpusGrep(letter, Ids, MaxHits + 1, Readers)
Searchable == UNION {Range(t) : t \in ChunkTexts} \ {Newline, FormFeed}

\* So does every hit in a text that has no line break but the newline.
GrepCitesItsLines ==
  \A letter \in Searchable :
    LET hits == Hits(letter) IN
    \A k \in DOMAIN hits :
      FormFeed \notin Range(DocOf(hits[k].id).text) => CitesItsLine(DocOf(hits[k].id), hits[k])

\* What can be reached with ls from the root.
Deepest == Max({0} \cup {Len(corpus[i].path) : i \in DOMAIN corpus})
Walk(principals) ==
  LET level[n \in 0 .. Deepest] ==
        IF n = 0 THEN Ls(<< >>, principals)
        ELSE UNION {Ls(e.path, principals) : e \in {x \in level[n - 1] : x.doc = Unnamed}}
  IN  {e.doc : e \in {x \in UNION {level[n] : n \in 0 .. Deepest} : x.doc # Unnamed}}

\* Walking down the tree finds the documents glob lists, those a caller may
\* see, unless a part of a path is blank (an absolute source path) or two
\* documents' paths are in each other's way.
WalkFindsAll ==
  \A principals \in SUBSET Readers :
    LET seen == VisibleAt(principals)
        listed == Glob(Ids, Len(corpus), principals)
    IN  (/\ \A i \in seen : Unnamed \notin Range(corpus[i].path)
         /\ \A i, j \in seen : i # j => ~IsPrefix(corpus[i].path, corpus[j].path))
          => Walk(principals) = {listed[k].id : k \in DOMAIN listed}

\* However the chunks of documents come in, the tools read the text back window by
\* window, cite the lines they show and find every document the caller may see.
CorpusSound ==
  /\ CorpusTypeOK
  /\ WindowsMakeTheText
  /\ GrepCitesItsLines
  /\ WalkFindsAll

=============================================================================
