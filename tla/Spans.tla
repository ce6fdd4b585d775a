-------------------------------- MODULE Spans --------------------------------
(***************************************************************************)
(* Sentences and their places: the span extractor that trims a chunk to    *)
(* its best sentences (src/knowledge_index/retrieval/post/span.py), and    *)
(* the recall of citations, which looks every sentence of an answer up in  *)
(* its text again (src/evaluation/metrics/e2e.py).  A text is a sequence   *)
(* of words, stops and blanks; between two words the blank is not shown.   *)
(***************************************************************************)
EXTENDS Naturals, SequencesExt, FiniteSets

CONSTANTS
  Words,
  Sought,      \* words of the query, and of the evidence
  MaxTokens,   \* bound: length of a text
  Width        \* max_sentences of the extractor

Stop == "."
Gap == "_"
ASSUME SpansAssumption ==
  /\ Sought \subseteq Words /\ {Stop, Gap} \cap Words = {}
  /\ MaxTokens \in Nat /\ Width \in Nat \ {0}

\* A text, and the place of one citation in it, from its first token to before its last.
VARIABLE passage

Extent(first, last) == [first |-> first, last |-> last]
Taken(text, e) == SubSeq(text, e.first, e.last)
WordsOf(tokens) == ToSet(tokens) \cap Words

-----------------------------------------------------------------------------
\* Citation recall

\* The pieces between blanks that follow a stop, without the blanks at their ends;
\* a piece with nothing in it is none.
Sentences(text) ==
  LET solid == {i \in DOMAIN text : text[i] # Gap}
      before(i) == {j \in solid : j < i}
      starts(i) == i \in solid /\ \/ before(i) = {}
                                  \/ Max(before(i)) < i - 1 /\ text[Max(before(i))] = Stop
      firsts == SetToSortSeq({i \in DOMAIN text : starts(i)}, <)
      last(n) == Max({j \in solid : n = Len(firsts) \/ j < firsts[n + 1]})
  IN [n \in DOMAIN firsts |-> SubSeq(text, firsts[n], last(n))]

\* text.find(sentence, cursor), the cursor a place before the first to look at.
Find(text, sentence, cursor) ==
  Min({i \in cursor + 1 .. Len(text) + 1 - Len(sentence) : SubSeq(text, i, i + Len(sentence) - 1) = sentence})

\* Mutant: every sentence is looked up from the beginning.
PlacesFromStart(text) ==
  [n \in DOMAIN Sentences(text) |->
     LET first == Find(text, Sentences(text)[n], 0) IN Extent(first, first + Len(Sentences(text)[n]) - 1)]

Places(text) ==
  FoldLeft(LAMBDA places, sentence :
             LET first == Find(text, sentence, IF places = << >> THEN 0 ELSE Last(places).last)
             IN Append(places, Extent(first, first + Len(sentence) - 1)),
           << >>, Sentences(text))

\* LexicalOverlapJudge: three tenths of the claim's words are in the evidence.
Supportable(claim) ==
  WordsOf(claim) # {} /\ 10 * Cardinality(WordsOf(claim) \cap Sought) >= 3 * Cardinality(WordsOf(claim))

\* The sentences that count, and those of them a citation touches.
CitationRecall(text, cite) ==
  LET claims == SelectSeq(Places(text), LAMBDA e : Supportable(Taken(text, e)))
  IN [supportable |-> Len(claims),
      cited |-> Len(SelectSeq(claims, LAMBDA e : cite.first < e.last + 1 /\ e.first < cite.last))]

-----------------------------------------------------------------------------
\* Span extractor

\* One token read: words and blanks open a sentence and go on with it, stops close
\* it, and the blanks after those are still its own; stops with nothing before
\* them belong to no sentence.
ReadToken(scan, token) ==
  LET at == scan.at + 1
      grown == [scan.es EXCEPT ![Len(scan.es)].last = at]
      opened == Append(scan.es, Extent(at, at))
  IN CASE token = Stop /\ scan.phase \in {"body", "stops"} -> [at |-> at, phase |-> "stops", es |-> grown]
       [] token = Stop /\ scan.phase \in {"none", "blanks"} -> [at |-> at, phase |-> "none", es |-> scan.es]
       [] token = Gap /\ scan.phase \in {"stops", "blanks"} -> [at |-> at, phase |-> "blanks", es |-> grown]
       [] token # Stop /\ scan.phase = "body" -> [at |-> at, phase |-> "body", es |-> grown]
       [] OTHER -> [at |-> at, phase |-> "body", es |-> opened]

Matches(text) == FoldLeft(ReadToken, [at |-> 0, phase |-> "none", es |-> << >>], text).es

SpanScore(text, es) == FoldLeft(LAMBDA sum, e : sum + Cardinality(WordsOf(Taken(text, e)) \cap Sought), 0, es)
Window(es, i) == SubSeq(es, i, i + (IF Width < Len(es) THEN Width ELSE Len(es)) - 1)
Starts(es) == 1 .. Len(es) + 1 - (IF Width < Len(es) THEN Width ELSE Len(es))

\* The first of the best among these windows.
BestOfWindows(text, es, starts) ==
  LET worth(i) == SpanScore(text, Window(es, i))
      best == Min({i \in starts : \A j \in starts : worth(j) <= worth(i)})
  IN Extent(es[best].first, Last(Window(es, best)).last)

\* The first window with the most words of the query, or the whole text.
BestSpan(text) ==
  LET es == Matches(text)
  IN IF Len(es) <= 1 \/ SpanScore(text, es) = 0 THEN Extent(1, Len(text))
     ELSE BestOfWindows(text, es, Starts(es))

Strip(tokens) ==
  LET solid == {i \in DOMAIN tokens : tokens[i] # Gap}
  IN IF solid = {} THEN << >> ELSE SubSeq(tokens, Min(solid), Max(solid))

\* The text a chunk goes on with; when that is all there was, the chunk is left alone.
Trimmed(text) ==
  LET extracted == Strip(Taken(text, BestSpan(text)))
  IN IF extracted \in {<< >>, Strip(text)} THEN text ELSE extracted

-----------------------------------------------------------------------------
SpansInit ==
  \E text \in SeqOf(Words \cup {Stop, Gap}, MaxTokens) : \E first \in 1 .. Len(text) + 1 : \E last \in first .. Len(text) + 1 :
    passage = [text |-> text, cite |-> Extent(first, last)]

\* Where a sentence of the answer really stands: it begins with the text, or after
\* a stop and a blank, and ends before the next.
Begins(i) ==
  LET text == passage.text
  IN text[i] # Gap /\ \/ \A j \in 1 .. i - 1 : text[j] = Gap
                      \/ \E j \in 1 .. i - 2 : text[j] = Stop /\ \A k \in j + 1 .. i - 1 : text[k] = Gap

\* However often an answer repeats a sentence, recall credits each of them by the
\* citations on its own place: a citation inside one sentence counts for that one
\* only, and the sentences to be cited are counted one by one.
RecallByPlace ==
  LET text == passage.text places == Places(text) got == CitationRecall(text, passage.cite)
      within(e) == e.first <= passage.cite.first /\ passage.cite.last <= e.last + 1 /\ passage.cite.first < passage.cite.last
  IN /\ {places[n].first : n \in DOMAIN places} = {i \in DOMAIN text : Begins(i)}
     /\ \A n \in DOMAIN places : within(places[n]) =>
          got.cited = (IF Supportable(Taken(text, places[n])) THEN 1 ELSE 0)
     /\ got.cited <= got.supportable

\* A trimmed chunk is a run of its own sentences, as long as allowed, with as many
\* words of the query as any such run, the last included; without any such word
\* the chunk stays whole.
BestWindowKept ==
  LET text == passage.text es == Matches(text) kept == Trimmed(text)
      hits(e) == Cardinality(WordsOf(Taken(text, e)) \cap Sought)
      runs == {<<i, j>> \in (DOMAIN es) \X (DOMAIN es) : i <= j /\ j - i < Width}
      worth(r) == FoldLeft(LAMBDA sum, k : sum + hits(es[k]), 0, [k \in 1 .. r[2] + 1 - r[1] |-> r[1] + k - 1])
  IN /\ WordsOf(text) = UNION {WordsOf(Taken(text, es[n])) : n \in DOMAIN es}
     /\ IF WordsOf(text) \cap Sought = {} THEN kept = text
        ELSE Len(es) > 1 => \E r \in runs : /\ Strip(kept) = Strip(Taken(text, Extent(es[r[1]].first, es[r[2]].last)))
                                            /\ \A other \in runs : worth(other) <= worth(r)

\* Citations count for the place they are at, and a trimmed chunk keeps the best run
\* of its sentences.
SpansSound == RecallByPlace /\ BestWindowKept

=============================================================================
