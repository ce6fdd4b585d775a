------------------------------ MODULE Answering ------------------------------
(***************************************************************************)
(* From evidence to a cited answer: the packer trims and orders the        *)
(* evidence (src/harness/context/packer.py), the enforcer checks a draft   *)
(* against it (src/harness/citation/enforcer.py).  Sizes and lengths are   *)
(* in characters; a segment's text is its own number, once for each.       *)
(***************************************************************************)
EXTENDS Totals, Integers, SequencesExt

CONSTANTS
  Sizes,       \* of a rendered candidate
  Budgets,     \* in tokens, four characters each
  MaxRanked,   \* bound: candidates
  Segments,    \* segments of a draft: [length, cites], cites a sequence of ranks
  MaxSegments  \* bound: segments of a draft

Modes == {"strict", "loose", "off"}
Invented == 0    \* an id that was not retrieved
Join == 0        \* the character between two segments
Mark == -1       \* a character of "[uncited]", with the blank before it
MarkLength == 10
ASSUME AnsweringAssumption ==
  /\ {MaxRanked, MaxSegments} \subseteq Nat /\ Sizes \subseteq Nat /\ Budgets \subseteq Nat
  /\ Segments \subseteq [length : Nat, cites : Seq(Nat)]

\* What is to be answered: candidates' sizes, best first, a budget, a draft.
Cases ==
  [sizes : SeqOf(Sizes, MaxRanked), budget : Budgets, draft : {<< >>}, mode : {"strict"}]
  \cup [sizes : {[i \in 1 .. n |-> 4] : n \in 0 .. MaxRanked}, budget : {2 * Max(Budgets)},
        draft : SeqOf(Segments, MaxSegments), mode : Modes]

VARIABLE answering

-----------------------------------------------------------------------------
\* estimate_tokens of the candidates rendered, two line breaks between.
Tokens(sizes) ==
  Max({1, (Total(sizes, DOMAIN sizes) + 2 * (Len(sizes) - 1)) \div 4})

\* fit_candidates: the worst is dropped until the rest fits.
Fit(sizes, budget) ==
  LET fitting == {n \in 1 .. Len(sizes) : Tokens(SubSeq(sizes, 1, n)) <= budget}
  IN  [i \in 1 .. Max(fitting \cup {0}) |-> i]

\* reorder_for_lost_in_middle.
Reorder(ranked) ==
  LET half == (Len(ranked) + 1) \div 2
  IN  [i \in 1 .. half |-> ranked[2 * i - 1]] \o Reverse([i \in 1 .. Len(ranked) \div 2 |-> ranked[2 * i]])

Evidence(case) == Reorder(Fit(case.sizes, case.budget))

Chars(n, length) == [i \in 1 .. length |-> n]
\* The ids a segment cites that were retrieved, in its order.
Supports(segment, evidence) ==
  LET valid == {k \in DOMAIN segment.cites : segment.cites[k] \in Range(evidence)}
      places == InOrder(valid, {p \in valid \X valid : p[1] < p[2]})
  IN  [n \in DOMAIN places |-> segment.cites[places[n]]]

\* A segment with nothing in it is left out, and so is an unsupported one of a strict answer.
LeftOut(segment, evidence, mode) ==
  segment.length = 0 \/ (mode = "strict" /\ Supports(segment, evidence) = << >>)

\* A segment as it is written, the i-th: a loose answer marks it when unsupported.
Rendered(segment, i, evidence, mode) ==
  Chars(i, segment.length)
    \o (IF mode = "loose" /\ Supports(segment, evidence) = << >> THEN Chars(Mark, MarkLength) ELSE << >>)

Nothing == [text |-> << >>, cursor |-> 0, kept |-> {}, citations |-> << >>]

\* What the i-th segment adds to the answer, at the cursor.
Write(out, segment, i, evidence, mode) ==
  LET cites == Supports(segment, evidence)
      text == Rendered(segment, i, evidence, mode)
      start == out.cursor + (IF out.kept = {} THEN 0 ELSE 1)
      span == <<start, start + Len(text)>>
  IN  IF LeftOut(segment, evidence, mode) THEN out
      ELSE [text |-> out.text \o (IF out.kept = {} THEN << >> ELSE <<Join>>) \o text,
            cursor |-> start + Len(text), kept |-> out.kept \cup {i},
            citations |-> out.citations \o [k \in DOMAIN cites |-> [id |-> cites[k], of |-> i, span |-> span]]]

\* Mutant: the blank between segments is not counted.
EnforceTight(draft, evidence, mode) ==
  LET tight(out) == [out EXCEPT !.cursor = @ - (IF out.kept = {} THEN 0 ELSE 1)]
      written[n \in 0 .. Len(draft)] ==
        IF n = 0 THEN Nothing ELSE Write(tight(written[n - 1]), draft[n], n, evidence, mode)
  IN  written[Len(draft)]

\* enforce: segment by segment, a cursor over the text as it will be joined.
Enforce(draft, evidence, mode) ==
  LET written[n \in 0 .. Len(draft)] ==
        IF n = 0 THEN Nothing ELSE Write(written[n - 1], draft[n], n, evidence, mode)
  IN  written[Len(draft)]

AnsweringInit == answering \in Cases

\* A case does not change while it is answered.
AnsweringSpec == AnsweringInit /\ [][UNCHANGED answering]_answering

-----------------------------------------------------------------------------
\* Properties

\* The evidence fits the budget and no candidate dropped was better than one
\* kept, nor would it have fitted; the better a candidate, the nearer it is to
\* an end of the list, the best of all in front.
EvidenceEndLoaded ==
  LET case == answering
      evidence == Evidence(case)
      n == Len(evidence)
      FromEnd(i) == Min({i - 1, n - i})
  IN
  /\ Range(evidence) = 1 .. n
  /\ n > 0 => Tokens(SubSeq(case.sizes, 1, n)) <= case.budget /\ evidence[1] = 1
  /\ n < Len(case.sizes) => ~(Tokens(SubSeq(case.sizes, 1, n + 1)) <= case.budget)
  /\ \A i, j \in 1 .. n : FromEnd(i) < FromEnd(j) => evidence[i] < evidence[j]

\* The span of a citation holds the segment it supports, all of it, in the text
\* as joined; what is cited was retrieved; a strict answer has no segment
\* without support, a loose one marks it, and no other segment is left out.
SpansHoldTheirClaims ==
  LET case == answering
      evidence == Evidence(case)
      out == Enforce(case.draft, evidence, case.mode)
      Held(i) == {p \in DOMAIN out.text : out.text[p] = i}
      Supported(i) == Range(case.draft[i].cites) \cap Range(evidence) # {}
  IN
  /\ \A c \in Range(out.citations) :
       /\ c.id \in Range(evidence)
       /\ SubSeq(out.text, c.span[1] + 1, c.span[2]) = Chars(c.of, case.draft[c.of].length)
  /\ \A i \in DOMAIN case.draft :
       /\ Cardinality(Held(i)) = IF case.mode = "strict" /\ ~Supported(i) THEN 0 ELSE case.draft[i].length
       /\ Supported(i) /\ case.draft[i].length > 0 =>
            \A id \in Range(case.draft[i].cites) \cap Range(evidence) : \E c \in Range(out.citations) : c.of = i /\ c.id = id
  /\ Cardinality(Held(Mark)) = MarkLength * (IF case.mode = "loose"
       THEN Cardinality({i \in DOMAIN case.draft : ~Supported(i) /\ case.draft[i].length > 0}) ELSE 0)

\* The best evidence that fits stands at the ends of the prompt, and what is cited of
\* it stands at the place of its claim.
AnswerSound == EvidenceEndLoaded /\ SpansHoldTheirClaims

=============================================================================
