------------------------------- MODULE Reviewer -------------------------------
(***************************************************************************)
(* The adversarial reviewer (src/self_improvement/reviewer/reviewer.py):   *)
(* four checks of a candidate's evaluation against its lineage, and a      *)
(* language model that may have a word.                                    *)
(*                                                                         *)
(* A report holds the metric of every query in whole units, and the mean   *)
(* latency (cost is checked the same way).  Means are compared on one      *)
(* scale, and deviations by their squares.                                 *)
(***************************************************************************)
EXTENDS Integers, SequencesExt, Totals

CONSTANTS
  Reports,        \* evaluations: [metric : query |-> Nat, latency : Nat]
  Scale,          \* a common multiple of their numbers of queries
  MaxLineage,     \* bound: ancestors
  Sigmas,         \* noise_band_sigmas
  BroadPercent,   \* min_improved_fraction
  SlowdownPercent \* latency_regression_pct

\* How many queries a report has the metric of.
Count(report) == Cardinality(DOMAIN report.metric)

ASSUME ReviewerAssumption ==
  /\ {Scale, MaxLineage, Sigmas, BroadPercent, SlowdownPercent} \subseteq Nat
  /\ \A r \in Reports :
       /\ r.metric \in [DOMAIN r.metric -> Nat] /\ r.latency \in Nat
       /\ IsFiniteSet(DOMAIN r.metric) /\ DOMAIN r.metric # {}
       /\ Scale % Count(r) = 0

VARIABLE review  \* a review: its candidate, lineage and training queries

\* The ancestors of a candidate, and which of them are seeds.
Entries == [report : Reports, isSeed : BOOLEAN]
Reviews ==
  [candidate : Reports, lineage : SeqOf(Entries, MaxLineage),
   train : SUBSET UNION {DOMAIN r.metric : r \in Reports}]

-----------------------------------------------------------------------------
\* The primary metric, the mean of a report's metric, on the scale of Scale to one.
Primary(report) == (Total(report.metric, DOMAIN report.metric) * Scale) \div Count(report)

\* derive_baseline_and_seeds: the strongest ancestor, the first of equals.
Baseline(lineage) ==
  LET best == Max({Primary(lineage[i].report) : i \in DOMAIN lineage})
      at == Min({i \in DOMAIN lineage : Primary(lineage[i].report) = best})
  IN  lineage[at].report

\* The scores of the seeds, each at its place in the lineage.
SeedScores(lineage) ==
  [i \in {j \in DOMAIN lineage : lineage[j].isSeed} |-> Primary(lineage[i].report)]

\* Checks: a failure is critical, or asks for more evidence.
Leaks(candidate, train) == DOMAIN candidate.metric \cap train # {}

Narrow(candidate, baseline) ==
  LET shared == DOMAIN candidate.metric \cap DOMAIN baseline.metric
      improved == {q \in shared : candidate.metric[q] > baseline.metric[q]}
  IN  /\ Primary(candidate) > Primary(baseline)
      /\ shared = {} \/ 100 * Cardinality(improved) < BroadPercent * Cardinality(shared)

\* n (n - 1) times the sample variance of n seeds.
Spread(seeds) ==
  LET places == DOMAIN seeds
      total == Total(seeds, places)
      squares == Total([i \in places |-> seeds[i] * seeds[i]], places)
  IN  Cardinality(places) * squares - total * total

\* Mutant: the deviation of the seeds as if they were all there are.
WithinPopulationBand(candidate, baseline, seeds) ==
  LET n == Cardinality(DOMAIN seeds)
      gain == Primary(candidate) - Primary(baseline)
  IN  gain <= 0 \/ gain * gain * (n * n) <= Sigmas * Sigmas * Spread(seeds)

\* gain > Sigmas * stdev(seeds), squared and times n (n - 1).
WithinBand(candidate, baseline, seeds) ==
  LET n == Cardinality(DOMAIN seeds)
      gain == Primary(candidate) - Primary(baseline)
  IN  gain <= 0 \/ gain * gain * (n * (n - 1)) <= Sigmas * Sigmas * Spread(seeds)

Slower(candidate, baseline) ==
  /\ baseline.latency > 0
  /\ 100 * (candidate.latency - baseline.latency) > SlowdownPercent * baseline.latency

Severity(verdict) ==
  CASE verdict = "accept" -> 0 [] verdict = "needs_more_evidence" -> 1 [] verdict = "reject" -> 2

\* run_checks and _derive_verdict.
MachineVerdict(r) ==
  LET baseline == Baseline(r.lineage)
      seeds == SeedScores(r.lineage)
      known == r.lineage # << >>
      sampled == Cardinality(DOMAIN seeds) > 1
      critical == \/ Leaks(r.candidate, r.train)
                  \/ known /\ sampled /\ WithinBand(r.candidate, baseline, seeds)
                  \/ known /\ Slower(r.candidate, baseline)
      open == ~known \/ ~sampled \/ Narrow(r.candidate, baseline)
  IN  CASE critical -> "reject"
        [] ~critical /\ open -> "needs_more_evidence"
        [] OTHER -> "accept"

\* review: an answer that is not a verdict counts as the machine's.
Verdict(r, answer) ==
  LET machine == MachineVerdict(r)
  IN  IF answer = "unparseable" \/ Severity(answer) < Severity(machine)
      THEN machine ELSE answer

Answers == {"accept", "needs_more_evidence", "reject", "unparseable"}

\* A review leaves what it reviews as it is.
ReviewSpec == review \in Reviews /\ [][UNCHANGED review]_review

-----------------------------------------------------------------------------
\* Properties

\* Whatever the language model says, what is accepted has ancestors, gains
\* more on every one of them than any two of up to three seeds differ, has
\* seen none of its queries in training, and is no slower than the best of
\* its ancestors beyond the tolerance.
AcceptMeansProven ==
  LET c == review.candidate
      seeds == SeedScores(review.lineage)
  IN  (\E answer \in Answers : Verdict(review, answer) = "accept") =>
        /\ Cardinality(DOMAIN seeds) >= 2
        /\ \A i \in DOMAIN review.lineage :
             LET gain == Primary(c) - Primary(review.lineage[i].report) IN
             /\ gain > 0
             /\ Cardinality(DOMAIN seeds) <= 3 /\ Sigmas >= 2 =>
                  \A j, k \in DOMAIN seeds : gain > seeds[j] - seeds[k]
        /\ DOMAIN c.metric \cap review.train = {}
        /\ \E i \in DOMAIN review.lineage :
             LET a == review.lineage[i].report IN
             /\ \A j \in DOMAIN review.lineage : Primary(review.lineage[j].report) <= Primary(a)
             /\ a.latency > 0 => 100 * c.latency <= (100 + SlowdownPercent) * a.latency

=============================================================================
