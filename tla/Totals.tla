------------------------------- MODULE Totals -------------------------------
(***************************************************************************)
(* Sums and orders over finite sets, by counting, which keeps them free of *)
(* recursion: the facts the proofs need follow from the theorems about     *)
(* finite sets.                                                            *)
(***************************************************************************)
EXTENDS Naturals, FiniteSets

\* The sum of f over S, unit by unit: x contributes <<x, 1>>, ..., <<x, f[x]>>.
Units(f, S) == UNION { {x} \X (1 .. f[x]) : x \in S }

Total(f, S) == Cardinality(Units(f, S))

\* The elements of S as a sequence, in the strict order given by the pairs of R.
InOrder(S, R) ==
  [n \in 1 .. Cardinality(S) |->
     CHOOSE x \in S : Cardinality({y \in S : <<y, x>> \in R}) = n - 1]

\* A set of numbers as a sequence, the least first.
Ascending(S) == InOrder(S, {p \in S \X S : p[1] < p[2]})

\* A set of pairs of numbers as a sequence, the first numbers counting first.
Precedes(p, q) == p[1] < q[1] \/ (p[1] = q[1] /\ p[2] < q[2])
Lexicographic(S) == InOrder(S, {c \in S \X S : Precedes(c[1], c[2])})

\* The elements of a sequence that are not known yet, each where it is first met.
FirstPlaces(s, known) ==
  {i \in DOMAIN s : s[i] \notin known /\ \A j \in 1 .. i - 1 : s[j] # s[i]}
NewOf(s, known) ==
  LET firsts == FirstPlaces(s, known)
      places == InOrder(firsts, {p \in firsts \X firsts : p[1] < p[2]})
  IN  [n \in DOMAIN places |-> s[places[n]]]

=============================================================================
