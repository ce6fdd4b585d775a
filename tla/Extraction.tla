------------------------------ MODULE Extraction ------------------------------
(***************************************************************************)
(* What the graph is built from: HeuristicExtractor, which finds names and *)
(* relations by regular expressions, and LLMExtractor, which asks a model  *)
(* and falls back on the first (src/knowledge_index/graph/extraction.py).  *)
(* A text is a sequence of words, stops and line breaks.                   *)
(***************************************************************************)
EXTENDS Naturals, SequencesExt, FiniteSets

CONSTANTS
  Capitals,      \* capitalised words
  Pronouns,      \* those of them that name nothing: _STOPWORDS and single letters
  Linkers,       \* words that may join two capitalised ones
  SmallWords,    \* other words
  KeyOf,         \* word to its casefolded form
  Replies,       \* lists of [subject, object] a model answers with, an empty name for a blank one
  MaxWords       \* bound: length of a text

FullStop == "."
LineBreak == "/"
ASSUME ExtractionAssumption ==
  /\ Pronouns \subseteq Capitals /\ MaxWords \in Nat
  /\ DOMAIN KeyOf = Capitals \cup Linkers \cup SmallWords

\* A text with the reply of the model to it.
VARIABLE excerpt

TextsOf(n) == SeqOf(DOMAIN KeyOf \cup {FullStop, LineBreak}, n)

\* normalize_entity
Key(name) == [n \in DOMAIN name |-> KeyOf[name[n]]]

-----------------------------------------------------------------------------
\* One word read: capitalised words go on with the name before them, also over one
\* linker, and anything else closes it.
ReadName(scan, word) ==
  CASE word \in Capitals /\ scan.open ->
         [open |-> TRUE, link |-> << >>, names |-> Front(scan.names) \o <<Last(scan.names) \o scan.link \o <<word>> >>]
    [] word \in Capitals /\ ~scan.open -> [open |-> TRUE, link |-> << >>, names |-> Append(scan.names, <<word>>)]
    [] word \in Linkers /\ scan.open /\ scan.link = << >> -> [scan EXCEPT !.link = <<word>>]
    [] OTHER -> [open |-> FALSE, link |-> << >>, names |-> scan.names]

Names(words) == FoldLeft(ReadName, [open |-> FALSE, link |-> << >>, names |-> << >>], words).names

\* extract_entities: a line break is a blank like any other; a pronoun alone is dropped.
EntityNames(text) ==
  {name \in ToSet(Names(SelectSeq(text, LAMBDA w : w # LineBreak))) : \A p \in Pronouns : name # <<p>>}

\* extract_triples works clause by clause, and a line break ends one.
Clauses(text) ==
  FoldLeft(LAMBDA clauses, w : IF w \in {FullStop, LineBreak} THEN Append(clauses, << >>)
                               ELSE Append(Front(clauses), Append(Last(clauses), w)),
           << << >> >>, text)

\* Three of the ten patterns, the others being of their form: what may stand between
\* the operands, the longest first, in any case.
RelationPatterns ==
  << << <<"was", "acquired", "by">>, <<"was", "acquired">>, <<"acquired", "by">>, <<"acquired">> >>,
     << <<"was", "founded", "by">>, <<"founded", "by">> >>,
     << <<"founded">> >> >>

\* Where in a clause a pattern matches, with something on either side.
Matching(clause, pattern) ==
  {m \in (2 .. Len(clause)) \X DOMAIN pattern :
     LET after == m[1] + Len(pattern[m[2]])
     IN after <= Len(clause) /\ Key(SubSeq(clause, m[1], after - 1)) = pattern[m[2]]}

\* re.match: the shortest left operand, then the longest phrase; each operand stands
\* for the first name in it, be that a pronoun.
Operands(clause, pattern) ==
  LET found == Matching(clause, pattern)
      m == CHOOSE m \in found : \A o \in found : m[1] < o[1] \/ (m[1] = o[1] /\ m[2] <= o[2])
      left == Names(SubSeq(clause, 1, m[1] - 1))
      right == Names(SubSeq(clause, m[1] + Len(pattern[m[2]]), Len(clause)))
  IN IF left = << >> \/ right = << >> THEN << >> ELSE << [subject |-> Head(left), object |-> Head(right)] >>

\* Mutant: the names are compared as they are written.
ApartAsWritten(triple) == triple.subject # << >> /\ triple.object # << >> /\ triple.subject # triple.object

\* Both named, and not the same node.
Apart(triple) == triple.subject # << >> /\ triple.object # << >> /\ Key(triple.subject) # Key(triple.object)

\* The first pattern that matches a clause decides, whatever comes of it.
TriplesIn(text) ==
  LET matched(clause) == {p \in DOMAIN RelationPatterns : Matching(clause, RelationPatterns[p]) # {}}
      triple(clause) == IF matched(clause) = {} THEN << >>
                        ELSE Operands(clause, RelationPatterns[Min(matched(clause))])
  IN FoldLeft(LAMBDA list, clause : list \o SelectSeq(triple(clause), Apart), << >>, Clauses(text))

\* LLMExtractor.extract_triples: what is usable of the reply, or else the heuristic.
ExtractTriples(text, reply) ==
  LET usable == SelectSeq(reply, Apart) IN IF usable # << >> THEN usable ELSE TriplesIn(text)

-----------------------------------------------------------------------------
ExtractionInit == \E text \in TextsOf(MaxWords), reply \in Replies : excerpt = [text |-> text, reply |-> reply]

\* Whoever finds it, no relation leads from a node to itself, however differently
\* its name is written; and one that was read off the text joins two names that
\* stand in it in that order and belong to entities found there, pronouns apart,
\* though names are told apart on the whole text and relations within a clause,
\* and a capitalised verb is part of a name to the one and none to the other.
RelationsGrounded ==
  LET text == excerpt.text
      triples == ExtractTriples(text, excerpt.reply)
      run(words, name, i) == i + Len(name) - 1 <= Len(words) /\ SubSeq(words, i, i + Len(name) - 1) = name
      known(name) == \/ \E p \in Pronouns : name = <<p>>
                     \/ \E e \in EntityNames(text) : \E i \in DOMAIN e : run(e, name, i)
  IN /\ \A n \in DOMAIN triples : Key(triples[n].subject) # Key(triples[n].object)
     /\ triples = << >> => \A n \in DOMAIN excerpt.reply : ~Apart(excerpt.reply[n])
     /\ \A n \in DOMAIN triples : triples[n] \notin ToSet(excerpt.reply) =>
          /\ known(triples[n].subject) /\ known(triples[n].object)
          /\ \E i, j \in DOMAIN text : /\ run(text, triples[n].subject, i) /\ run(text, triples[n].object, j)
                                       /\ i + Len(triples[n].subject) < j
                                       /\ \A k \in i .. j : text[k] \notin {FullStop, LineBreak}

=============================================================================
