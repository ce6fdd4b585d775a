------------------------------- MODULE Chunking -------------------------------
(***************************************************************************)
(* Chunks of a document (src/knowledge_index/chunking): the pieces a       *)
(* splitter has cut its text into become chunks with an ordinal, metadata  *)
(* and a span that is searched for in the text.  A text is a sequence of   *)
(* letters; a blank is one of them.                                        *)
(***************************************************************************)
EXTENDS Totals, Integers, SequencesExt

CONSTANTS
  Letters,       \* letters, a blank among them
  MaxText,       \* bound: length of a text
  MaxWindow      \* bound: neighbours of a sentence

Blank == "_"
ASSUME ChunkingAssumption == Blank \in Letters /\ {MaxText, MaxWindow} \subseteq Nat

VARIABLE cut  \* a text and where its pieces begin and end

Rising(k, n) == {f \in [1 .. k -> 1 .. n] : \A i \in 1 .. k : i > 1 => f[i - 1] < f[i]}

\* What a splitter does: it leaves nothing out, and every piece begins and ends after
\* the one before it.  It may begin within that one, as the pieces of the recursive
\* and of the header chunker do by chunk_overlap.
Covers(c) ==
  LET pieces == DOMAIN c.begin IN
  /\ pieces = {} => c.text = << >>
  /\ \A i \in pieces :
       /\ c.begin[i] <= c.end[i]
       /\ IF i = 1 THEN c.begin[i] = 1 ELSE c.begin[i] <= c.end[i - 1] + 1
       /\ i + 1 \notin pieces => c.end[i] = Len(c.text)

Piece(c, i) == SubSeq(c.text, c.begin[i], c.end[i])

\* str.strip
Strip(text) ==
  LET solid == {i \in DOMAIN text : text[i] # Blank}
  IN  IF solid = {} THEN << >> ELSE SubSeq(text, Min(solid), Max(solid))

\* text.find(piece, from): the first place, 0 for none.
FindIn(text, piece, from) ==
  LET at == {s \in from .. Len(text) + 1 - Len(piece) :
               SubSeq(text, s, s + Len(piece) - 1) = piece}
  IN  IF at = {} THEN 0 ELSE Min(at)

\* Mutant: every piece is looked for from the beginning of the text.
AddPieceAnywhere(built, text, piece, meta, i) ==
  LET stripped == Strip(piece)
  IN  IF stripped = << >> THEN built
      ELSE [chunks |-> Append(built.chunks, [text |-> stripped, meta |-> meta, index |-> i, start |-> FindIn(text, stripped, 1)]),
            cursor |-> 1]

\* What the i-th piece adds to the chunks; a blank one is dropped but counted.
AddPiece(built, text, piece, meta, i) ==
  LET stripped == Strip(piece)
      start == FindIn(text, stripped, built.cursor)
  IN  IF stripped = << >> THEN built
      ELSE [chunks |-> Append(built.chunks, [text |-> stripped, meta |-> meta, index |-> i, start |-> start]),
            cursor |-> IF start = 0 THEN built.cursor ELSE start + Len(stripped)]

\* build_chunks: piece by piece, each looked for from where the last one ended.
BuildChunks(text, pieces, extra) ==
  LET built[n \in 0 .. Len(pieces)] ==
        IF n = 0 THEN [chunks |-> << >>, cursor |-> 1]
        ELSE AddPiece(built[n - 1], text, pieces[n], extra[n], n)
  IN  built[Len(pieces)].chunks

\* SentenceWindowChunker: every sentence with its neighbours.
Windows(sentences, width) ==
  [i \in DOMAIN sentences |->
     SubSeq(sentences, Max({1, i - width}), Min({Len(sentences), i + width}))]

\* LateChunkingChunker: so many sentences to a group.
Groups(sentences, size) ==
  [g \in 1 .. (Len(sentences) + size - 1) \div size |->
     SubSeq(sentences, (g - 1) * size + 1, Min({g * size, Len(sentences)}))]

-----------------------------------------------------------------------------
\* Properties

\* A document does not change while it is cut.
ChunkingInit ==
  \E n \in 0 .. MaxText : \E k \in 0 .. n :
    /\ cut \in [text : [1 .. n -> Letters], begin : Rising(k, n), end : Rising(k, n)]
    /\ Covers(cut)
ChunkingSpec == ChunkingInit /\ [][UNCHANGED cut]_cut

Pieces(c) == [i \in DOMAIN c.begin |-> Piece(c, i)]
Chunks(c) == BuildChunks(c.text, Pieces(c), Pieces(c))

\* The place a chunk was cut from, and where it ends if it is there.
Lead(piece) == Min({i \in DOMAIN piece : piece[i] # Blank}) - 1
OwnPlace(c, chunk) == c.begin[chunk.index] + Lead(Piece(c, chunk.index))
EndOf(chunk) == chunk.start + Len(chunk.text)

\* However often a text repeats itself and however its pieces overlap: a chunk has the
\* metadata of its own piece; a span is a place where the chunk's text stands; spans
\* lie one after the other, in the order of the chunks.
SpansTrue ==
  LET chunks == Chunks(cut) IN
  /\ \A k \in DOMAIN chunks :
       /\ Strip(chunks[k].meta) = chunks[k].text
       /\ chunks[k].start # 0 => SubSeq(cut.text, chunks[k].start, EndOf(chunks[k]) - 1) = chunks[k].text
  /\ \A j, k \in DOMAIN chunks :
       j < k /\ chunks[j].start # 0 /\ chunks[k].start # 0 => EndOf(chunks[j]) <= chunks[k].start

\* What an overlap does to them.  The first chunk cites its own place, and after one
\* that does the next does exactly if it begins where that one has ended: blank pieces
\* in between do no harm, a single letter in common does.
SpansOwn ==
  LET chunks == Chunks(cut) IN
  \A k \in DOMAIN chunks :
    IF k = 1 THEN chunks[k].start = OwnPlace(cut, chunks[k])
    ELSE chunks[k - 1].start = OwnPlace(cut, chunks[k - 1]) =>
           (chunks[k].start = OwnPlace(cut, chunks[k]) <=> EndOf(chunks[k - 1]) <= OwnPlace(cut, chunks[k]))

\* base.py:60, "a char span within the parent document text when locatable": a chunk
\* that is a piece of the text has one.
LocatableHasSpan == \A chunk \in ToSet(Chunks(cut)) : chunk.start # 0

\* Windows and groups lose and repeat no sentence: a window has its own in the
\* place its width says, short of the edges; a group is no longer than allowed, and
\* the groups one after the other are all the sentences.
WindowsComplete ==
  LET sentences == cut.text IN
  \A n \in 0 .. MaxWindow :
    /\ \A i \in DOMAIN sentences :
         LET w == Windows(sentences, n)[i] at == Min({i, n + 1}) IN
         /\ w[at] = sentences[i]
         /\ Len(w) = Cardinality({j \in DOMAIN sentences : j + n >= i /\ j <= i + n})
    /\ LET groups == Groups(sentences, n + 1)
           Place(g, k) == (g - 1) * (n + 1) + k
       IN  /\ \A g \in DOMAIN groups : Len(groups[g]) <= n + 1 /\ \A k \in DOMAIN groups[g] :
                 Place(g, k) \in DOMAIN sentences /\ groups[g][k] = sentences[Place(g, k)]
           /\ \A i \in DOMAIN sentences : \E g \in DOMAIN groups : \E k \in DOMAIN groups[g] : Place(g, k) = i

\* Whatever repeats, overlaps or is blank in a text, chunks cite a place where they
\* stand, their own as long as nothing overlaps, and windows and groups leave no
\* sentence out.
ChunksSound == SpansTrue /\ SpansOwn /\ WindowsComplete

=============================================================================
