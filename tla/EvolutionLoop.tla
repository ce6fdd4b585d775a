----------------------------- MODULE EvolutionLoop -----------------------------
(***************************************************************************)
(* self_improvement: EvolutionaryLoop.run (evolutionary/loop.py) as        *)
(* build_loop wires it (integration.py), with the BudgetGuard behind its   *)
(* adapter and the set of candidates the ledger has on file.               *)
(*                                                                         *)
(* A candidate is named by its generation and its place in the batch; what *)
(* evaluator and reviewer say of it is drawn when the loop reaches it.     *)
(* A run has a guard of its own, as build_loop makes it; the calendar day  *)
(* may turn at any time.                                                   *)
(***************************************************************************)
EXTENDS Integers, Sequences, FiniteSetsExt, Totals

CONSTANTS
  PopulationSize,  \* population_size of run()
  Requests,        \* what run() may be asked for: its generations
  MaxGenerations,  \* the ceilings of BudgetConfig
  ComputeLimit,
  RunLimit,
  DailyLimit,
  MaxScore,        \* bounds: scores, one candidate's cost and compute
  MaxCost,
  MaxCompute

ASSUME LoopAssumption ==
  /\ PopulationSize \in Nat \ {0} /\ Requests \subseteq Nat \ {0}
  /\ {MaxGenerations, ComputeLimit, RunLimit, DailyLimit} \subseteq Nat
  /\ {MaxScore, MaxCost, MaxCompute} \subseteq Nat

VARIABLES
  requested,   \* generations of run()
  pc,          \* where run() stands
  gen,         \* the generation under way
  batch,       \* the candidates of it still to be assessed
  assessed,    \* the candidates of it assessed
  population,
  baseline,    \* the best score of generation 0
  trip,        \* the guard's trip_reason: the ceiling that was breached
  started,     \* the guard's _generations, which is the adapter's _current_gen
  runSpend,    \* the guard's _run_spend
  daySpend,    \* the guard's _daily_spend of today
  genCompute,  \* the guard's _gen_compute_s
  recorded,    \* the candidates on the run's ledger
  spent,       \* history: what the run has really spent
  finest       \* history: the best score of a candidate not rejected

loop == <<requested, pc, gen, batch, assessed, population, baseline>>
guard == <<trip, started, runSpend, daySpend, genCompute>>
history == <<spent, finest>>
vars == <<loop, guard, recorded, history>>

\* The loop tells "reject" from the two other verdicts and no further.
Verdicts == {"not_rejected", "reject"}

Ceilings ==
  {"max_generations", "max_compute_hours_per_gen", "max_usd_per_run",
   "daily_usd_ceiling"}

Outcomes ==
  [score : 0 .. MaxScore, verdict : Verdicts,
   cost : 0 .. MaxCost, compute : {0, MaxCompute}]

Generations == UNION {0 .. n : n \in Requests}

CandidateNames == [gen : Generations, place : 1 .. PopulationSize]

Over == {"completed", "budget_exhausted", "raised"}

-----------------------------------------------------------------------------

(* BudgetGuardAdapter.charge: the spend is recorded, then the compute, under *)
(* the generation last ticked.  A breach trips the guard, and a tripped one  *)
(* records no more; both raise BudgetExceeded, which charge swallows.        *)
Charge(cost, compute) ==
  LET overspent == cost > 0 /\ runSpend + cost > RunLimit
      overday == cost > 0 /\ daySpend + cost > DailyLimit
      overworked == compute > 0 /\ genCompute[started] + compute > ComputeLimit
  IN  IF trip # "none"
      THEN UNCHANGED guard
      ELSE /\ runSpend' = runSpend + cost
           /\ daySpend' = daySpend + cost
           /\ genCompute' = IF overspent \/ overday
                            THEN genCompute
                            ELSE [genCompute EXCEPT ![started] = @ + compute]
           /\ trip' = IF overspent THEN "max_usd_per_run"
                      ELSE IF overday THEN "daily_usd_ceiling"
                      ELSE IF overworked THEN "max_compute_hours_per_gen"
                      ELSE "none"
           /\ UNCHANGED started

(* BudgetGuardAdapter.tick_generation, over start_generation. *)
TickGeneration ==
  /\ started' = IF trip = "none" /\ started < MaxGenerations
                THEN started + 1 ELSE started
  /\ trip' = IF trip = "none" /\ started = MaxGenerations
             THEN "max_generations" ELSE trip
  /\ UNCHANGED <<runSpend, daySpend, genCompute>>

(* select: the k best that were not rejected; sort() is stable, so of equals *)
(* the one that came first.                                                  *)
Survivors(candidates) == {i \in DOMAIN candidates : candidates[i].verdict # "reject"}

Better(candidates) ==
  {p \in Survivors(candidates) \X Survivors(candidates) :
     \/ candidates[p[1]].score > candidates[p[2]].score
     \/ candidates[p[1]].score = candidates[p[2]].score /\ p[1] < p[2]}

Best(candidates, k) ==
  LET ranked == InOrder(Survivors(candidates), Better(candidates))
  IN  [n \in 1 .. Min({k, Len(ranked)}) |-> candidates[ranked[n]]]

(* seed_population: the anchor and random draws, without parents. *)
Seeds ==
  [i \in 1 .. PopulationSize |-> [id |-> [gen |-> 0, place |-> i], parents |-> {}]]

(* mutate_and_cross: a child of each member, by itself or with a mate. *)
Offspring(next) ==
  LET members == DOMAIN population
      ids == {population[i].id : i \in members}
      Parents(i) == {{population[i].id, mate} : mate \in ids}
      Matings == {p \in [members -> SUBSET ids] : \A i \in members : p[i] \in Parents(i)}
  IN  {[i \in members |-> [id |-> [gen |-> next, place |-> i], parents |-> mating[i]]] :
         mating \in Matings}

-----------------------------------------------------------------------------

(* build_loop and the call of run(), with a guard that has seen nothing. *)
Init ==
  /\ requested \in Requests
  /\ pc = "assess" /\ gen = 0 /\ batch = Seeds
  /\ assessed = <<>> /\ population = <<>> /\ baseline = 0
  /\ trip = "none" /\ started = 0 /\ runSpend = 0 /\ daySpend = 0
  /\ genCompute = [g \in 0 .. MaxGenerations |-> 0]
  /\ recorded = {}
  /\ spent = 0 /\ finest = -1

(* One turn of the loop in _assess: score and charge the next candidate.  *)
(* The outcome is what evaluate_batch and review_batch made of it.        *)
ScoreNext(o) ==
  /\ pc = "assess" /\ batch # <<>>
  /\ assessed' = Append(assessed, [id |-> Head(batch).id, score |-> o.score,
                                   verdict |-> o.verdict])
  /\ Charge(o.cost, o.compute)
  /\ spent' = spent + o.cost
  /\ finest' = IF o.verdict = "reject" THEN finest ELSE Max({finest, o.score})
  /\ UNCHANGED <<requested, gen, population, baseline>>

(* The candidate goes on the ledger. *)
Assess(o) ==
  /\ ScoreNext(o)
  /\ recorded' = recorded \cup {Head(batch).id}
  /\ batch' = Tail(batch)
  /\ UNCHANGED pc

(* The ledger cannot be written: run() raises. *)
AppendFails(o) ==
  /\ ScoreNext(o)
  /\ pc' = "raised"
  /\ UNCHANGED <<batch, recorded>>

(* evaluate_batch or review_batch raises, before a candidate is scored. *)
BatchFails ==
  /\ pc = "assess" /\ assessed = <<>>
  /\ pc' = "raised"
  /\ UNCHANGED <<requested, gen, batch, assessed, population, baseline, guard, recorded,
                 history>>

(* Generation 0 is the population, rejected or not, and sets the baseline. *)
Seeded ==
  /\ pc = "assess" /\ batch = <<>> /\ gen = 0
  /\ population' = assessed
  /\ baseline' = Max({assessed[i].score : i \in DOMAIN assessed})
  /\ assessed' = <<>>
  /\ pc' = "poll"
  /\ UNCHANGED <<requested, gen, batch, guard, recorded, history>>

\* Mutant: the offspring replace their parents.
SelectOffspring ==
  /\ pc = "assess" /\ batch = <<>> /\ gen > 0
  /\ population' = Best(assessed, PopulationSize)
  /\ assessed' = <<>>
  /\ TickGeneration
  /\ pc' = "poll"
  /\ UNCHANGED <<requested, gen, batch, baseline, recorded, history>>

(* The end of a generation: select, then tick. *)
Select ==
  /\ pc = "assess" /\ batch = <<>> /\ gen > 0
  /\ population' = Best(population \o assessed, PopulationSize)
  /\ assessed' = <<>>
  /\ TickGeneration
  /\ pc' = "poll"
  /\ UNCHANGED <<requested, gen, batch, baseline, recorded, history>>

\* Mutant: without a population the run waits for one.
BreedAlive ==
  /\ pc = "poll" /\ trip = "none" /\ gen < requested /\ population # <<>>
  /\ gen' = gen + 1
  /\ batch' \in Offspring(gen + 1)
  /\ pc' = "assess"
  /\ UNCHANGED <<requested, assessed, population, baseline, guard, recorded, history>>

(* exhausted() is polled after a generation and before the next. *)
Breed ==
  /\ pc = "poll" /\ trip = "none" /\ gen < requested
  /\ gen' = gen + 1
  /\ batch' \in Offspring(gen + 1)
  /\ pc' = "assess"
  /\ UNCHANGED <<requested, assessed, population, baseline, guard, recorded, history>>

Finish ==
  /\ pc = "poll" /\ (trip # "none" \/ gen = requested)
  /\ pc' = IF trip # "none" THEN "budget_exhausted" ELSE "completed"
  /\ UNCHANGED <<requested, gen, batch, assessed, population, baseline, guard, recorded,
                 history>>

(* The calendar day turns: _daily_spend is kept by date. *)
Midnight ==
  /\ daySpend > 0
  /\ daySpend' = 0
  /\ UNCHANGED <<loop, trip, started, runSpend, genCompute, recorded, history>>

Step ==
  \/ \E o \in Outcomes : Assess(o)
  \/ Seeded \/ Select
  \/ Breed \/ Finish

Raise == BatchFails \/ \E o \in Outcomes : AppendFails(o)

Next == Step \/ Raise \/ Midnight

Spec == Init /\ [][Next]_vars

(* Evaluator, reviewer and ledger answer, or raise but need not. *)
FairSpec == Spec /\ WF_vars(Step)

-----------------------------------------------------------------------------

Assessed == [id : CandidateNames, score : 0 .. MaxScore, verdict : Verdicts]

\* The loop keeps a population of at most population_size, and every number
\* within its range.
TypeOK ==
  /\ pc \in {"assess", "poll"} \cup Over
  /\ requested \in Requests /\ gen \in 0 .. requested
  /\ \A i \in DOMAIN batch :
       batch[i].id \in CandidateNames /\ batch[i].parents \subseteq CandidateNames
  /\ Len(batch) + Len(assessed) <= PopulationSize + (IF pc = "raised" THEN 1 ELSE 0)
  /\ population \in Seq(Assessed) /\ Len(population) <= PopulationSize
  /\ assessed \in Seq(Assessed)
  /\ baseline \in 0 .. MaxScore
  /\ trip \in Ceilings \cup {"none"}
  /\ started \in 0 .. MaxGenerations
  /\ {runSpend, daySpend, spent} \subseteq Nat
  /\ genCompute \in [0 .. MaxGenerations -> Nat]
  /\ recorded \subseteq CandidateNames
  /\ finest \in -1 .. MaxScore

\* No step of the search loses ground: whenever a generation is complete, the
\* best candidate assessed in the run and not rejected is in the population.
EliteKept ==
  pc \in {"poll", "completed", "budget_exhausted"} =>
    finest = Max({-1} \cup {population[i].score : i \in Survivors(population)})

\* The guard stops a run within one batch of its ceiling: what a run really
\* spends exceeds max_usd_per_run by less than a batch can cost, although the
\* adapter swallows the breach and the guard records no spend after it.
OvershootBounded == spent <= RunLimit + PopulationSize * MaxCost

\* The kill switch fires at the first breach: until it has tripped, the guard's
\* books are the run's true spend and within every ceiling, today's included.
BooksAgree ==
  trip = "none" =>
    /\ runSpend = spent /\ spent <= RunLimit
    /\ daySpend <= Min({spent, DailyLimit})
    /\ \A g \in DOMAIN genCompute : genCompute[g] <= ComputeLimit

\* The ledger is closed under ancestry, so that lineage() finds every ancestor:
\* whatever is bred, in the population or awaiting its assessment, descends
\* from candidates on file, even when a run ends in the middle of a batch.
LineageOnFile ==
  /\ \A i \in DOMAIN batch : batch[i].parents \subseteq recorded
  /\ \A i \in DOMAIN population : population[i].id \in recorded

\* Every run returns its report or raises, whatever evaluator and reviewer say,
\* even when all candidates are rejected and the population dies out.
RunEnds == pc \in {"assess", "poll"} ~> pc \in Over

\* guard.py:3-6, the ceiling of max_generations: a run breeds one generation
\* more at most, since a generation is ticked when it is over.
GenerationsWithinCeiling == gen <= MaxGenerations + 1

\* However batches break off and breaches are noticed late: the best stays in the
\* population, guard and ledger agree, parents are on file, and spend and generations
\* pass their ceilings by no more than the batch under way.
EvolutionSound ==
  /\ TypeOK
  /\ EliteKept
  /\ OvershootBounded
  /\ BooksAgree
  /\ LineageOnFile
  /\ GenerationsWithinCeiling

=============================================================================
