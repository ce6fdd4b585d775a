---------------------------- MODULE TodoPlanner ----------------------------
(***************************************************************************)
(* The Plan-and-Execute planner (src/harness/planning/todo.py): a language *)
(* model writes a plan, execute() runs it as a DAG in waves of concurrent  *)
(* steps, adapt() replaces what is left of it after a failure.             *)
(*                                                                         *)
(* The coroutines of a wave run between each other's awaits in any order.  *)
(* The model is free in what it writes: any ids, any dependencies, on      *)
(* itself, on unknown steps and in cycles included.                        *)
(***************************************************************************)
EXTENDS Naturals, Sequences, FiniteSetsExt

CONSTANTS
  Ids,         \* step ids the language model may choose
  Unknown,     \* an id that names no step
  AnswerId,    \* the id "answer" of the fallback step
  MaxSteps,    \* bound: steps of the first plan
  MaxNewSteps, \* bound: steps of a plan that replaces one
  MaxReplans   \* bound: calls of adapt that replace the plan

ASSUME TodoAssumption ==
  /\ Unknown \notin Ids /\ AnswerId \in Ids
  /\ {MaxSteps, MaxNewSteps, MaxReplans} \subseteq Nat

VARIABLES
  steps,       \* Plan.steps: records of id, depends_on and status
  planStatus,  \* Plan.status
  pc,          \* idle, or in execute(): at its loop or awaiting a wave
  wave,        \* positions of the steps dispatched and not finished
  kept,        \* history: leading steps that came done out of a replan
  replans,     \* history: plans replaced so far
  executed     \* history: execute() has returned this plan

vars == <<steps, planStatus, pc, wave, kept, replans, executed>>

Statuses == {"pending", "running", "done", "failed", "skipped"}

IsPending(s) == s.status = "pending"
IsDone(s) == s.status = "done"
HasStatus(ss, statuses) == {i \in DOMAIN ss : ss[i].status \in statuses}

-----------------------------------------------------------------------------
\* Plans out of the model's answers

\* What _parse_steps lets through: distinct ids, any dependencies; it raises
\* on everything else and the caller has no plan.
RawPlans(maxSteps) ==
  LET Raw(n) == [1 .. n -> [id : Ids, depends_on : SUBSET (Ids \cup {Unknown})]]
  IN  { raw \in UNION { Raw(n) : n \in 0 .. maxSteps } :
          \A i, j \in DOMAIN raw : raw[i].id = raw[j].id => i = j }

\* Dependencies on itself and on steps the answer does not contain are dropped.
ParseSteps(raw) ==
  LET seen == {raw[i].id : i \in DOMAIN raw}
  IN  [i \in DOMAIN raw |->
         [id |-> raw[i].id,
          depends_on |-> (raw[i].depends_on \cap seen) \ {raw[i].id},
          status |-> "pending"]]

ParsedPlans(maxSteps) == {ParseSteps(raw) : raw \in RawPlans(maxSteps)}

\* A plan without steps becomes a single step of its own.
FallbackPlan == <<[id |-> AnswerId, depends_on |-> {}, status |-> "pending"]>>

-----------------------------------------------------------------------------
\* The DAG as execute() reads it

\* by_id: a later step with the same id shadows an earlier one.
Named(ss, id) == {i \in DOMAIN ss : ss[i].id = id}
ById(ss, id) == Max(Named(ss, id))
Needs(ss, i) == {ById(ss, id) : id \in ss[i].depends_on}

\* Mutant: finished steps are ready again.
ReadyAgain(ss, i) == \A d \in Needs(ss, i) : IsDone(ss[d])

Ready(ss, i) == IsPending(ss[i]) /\ \A d \in Needs(ss, i) : IsDone(ss[d])

\* Mutant: the step is found by its id.
MarkedById(ss, i, status) ==
  [j \in DOMAIN ss |->
     IF ss[j].id = ss[i].id THEN [ss[j] EXCEPT !.status = status] ELSE ss[j]]

Marked(ss, i, status) == [ss EXCEPT ![i].status = status]

\* Mutant: only failures cascade, not skips.
CascadeFailures(ss) ==
  [i \in DOMAIN ss |->
     IF IsPending(ss[i]) /\ \E d \in Needs(ss, i) : ss[d].status = "failed"
     THEN [ss[i] EXCEPT !.status = "skipped"] ELSE ss[i]]

\* A pending step whose dependency failed or was skipped, before this pass or,
\* above the step, in it.
SkippedAfter(ss, skips) ==
  {i \in DOMAIN ss :
     /\ IsPending(ss[i])
     /\ \E d \in Needs(ss, i) :
          ss[d].status \in {"failed", "skipped"} \/ (d < i /\ d \in skips)}

\* One pass down the list, each step seeing the skips above it.
SkippedInPass(ss) ==
  CHOOSE skips \in SUBSET DOMAIN ss : skips = SkippedAfter(ss, skips)

Cascade(ss) ==
  LET skipped == SkippedInPass(ss)
  IN  [i \in DOMAIN ss |->
         IF i \in skipped THEN [ss[i] EXCEPT !.status = "skipped"] ELSE ss[i]]

Verdict(ss) ==
  IF HasStatus(ss, {"failed"}) # {} THEN "failed"
  ELSE IF HasStatus(ss, {"done", "skipped"}) = DOMAIN ss THEN "completed"
  ELSE planStatus

-----------------------------------------------------------------------------

Init ==
  /\ \E plan \in ParsedPlans(MaxSteps) :
       steps = IF plan = << >> THEN FallbackPlan ELSE plan
  /\ planStatus = "executing"
  /\ pc = "idle" /\ wave = {}
  /\ kept = 0 /\ replans = 0 /\ executed = FALSE

\* A caller runs the plan, anew or once more.
Execute ==
  /\ pc = "idle"
  /\ pc' = "loop"
  /\ UNCHANGED <<steps, planStatus, wave, kept, replans, executed>>

Skips == Cascade(steps)
ReadyNow == {i \in DOMAIN steps : Ready(Skips, i)}

\* One round of the loop: cascade the skips, then dispatch what is ready.
Dispatch ==
  /\ pc = "loop" /\ ReadyNow # {}
  /\ steps' = Skips
  /\ wave' = ReadyNow
  /\ pc' = "gather"
  /\ UNCHANGED <<planStatus, kept, replans, executed>>

\* Nothing is ready, but the skips may cascade further.
CascadeOn ==
  /\ pc = "loop" /\ ReadyNow = {} /\ Skips # steps
  /\ steps' = Skips
  /\ UNCHANGED <<planStatus, pc, wave, kept, replans, executed>>

\* Nothing is ready and nothing changed: execute() returns.
Return ==
  /\ pc = "loop" /\ ReadyNow = {} /\ Skips = steps
  /\ planStatus' = Verdict(steps)
  /\ pc' = "idle"
  /\ executed' = TRUE
  /\ UNCHANGED <<steps, wave, kept, replans>>

Round == Dispatch \/ CascadeOn \/ Return

\* A dispatched coroutine gets to run, up to the await of run_step.
StartStep(i) ==
  /\ i \in wave /\ IsPending(steps[i])
  /\ steps' = Marked(steps, i, "running")
  /\ UNCHANGED <<planStatus, pc, wave, kept, replans, executed>>

\* run_step returns or raises; when the last one is in, gather returns.
FinishStep(i, outcome) ==
  /\ i \in wave /\ steps[i].status = "running"
  /\ steps' = Marked(steps, i, outcome)
  /\ wave' = wave \ {i}
  /\ pc' = IF wave' = {} THEN "loop" ELSE "gather"
  /\ UNCHANGED <<planStatus, kept, replans, executed>>

\* The steps that are done, in the order of the plan.
Histories(ss) ==
  LET done == HasStatus(ss, {"done"})
      Increasing(at) == \A j, k \in DOMAIN at : j < k => at[j] < at[k]
  IN  {[k \in DOMAIN at |-> ss[at[k]]] :
         at \in {f \in [1 .. Cardinality(done) -> done] : Increasing(f)}}

\* adapt(), and the caller goes on with the plan it returns.  An observation
\* that reports a failure always finds a step to blame (_failed_step), so any
\* plan at rest can be replaced; without one adapt changes nothing.
Adapt ==
  /\ pc = "idle" /\ replans < MaxReplans
  /\ \E newSteps \in ParsedPlans(MaxNewSteps) :
       IF newSteps = << >>
       THEN planStatus' = "failed" /\ UNCHANGED <<steps, kept, executed>>
       ELSE \E history \in Histories(steps) :
                /\ steps' = history \o newSteps
                /\ kept' = Len(history)
                /\ planStatus' = "executing"
                /\ executed' = FALSE
  /\ replans' = replans + 1
  /\ UNCHANGED <<pc, wave>>

RunStep ==
  \E i \in wave : StartStep(i) \/ \E o \in {"done", "failed"} : FinishStep(i, o)

Next ==
  \/ Execute
  \/ Round
  \/ RunStep
  \/ Adapt

Spec == Init /\ [][Next]_vars

\* The event loop runs what it can, and every run_step returns or raises.
FairSpec == Spec /\ WF_vars(Round \/ RunStep)

-----------------------------------------------------------------------------
\* Properties

Positions == DOMAIN steps
Fresh == {i \in Positions : i > kept}

\* Plans, waves and the part of a plan kept from before fit together over any
\* number of replans.
TypeOK ==
  /\ steps \in Seq([id : Ids, depends_on : SUBSET Ids,
                    status : Statuses])
  /\ planStatus \in {"executing", "failed", "completed"} /\ executed \in BOOLEAN
  /\ pc \in {"idle", "loop", "gather"}
  /\ wave \subseteq Positions
  /\ kept \in 0 .. Len(steps) /\ replans \in 0 .. MaxReplans

\* Every dependency of a step still to run names a step of the plan, replans
\* that drop steps included: by_id[d] never raises KeyError.
DependenciesResolve ==
  \A i \in Positions :
    IsPending(steps[i]) => \A d \in steps[i].depends_on : Named(steps, d) # {}

\* However the coroutines of the waves interleave, a step that has started had
\* all its predecessors done, and no predecessor changes afterwards.
StartsAfterPredecessors ==
  \A i \in Fresh : steps[i].status \in {"running", "done", "failed"} =>
    \A d \in Needs(steps, i) : IsDone(steps[d])

\* The steps downstream of a failure: in every set that holds the failed steps
\* and whatever depends on a step in it.
Reached(ss, first, set) ==
  /\ HasStatus(ss, {"failed"}) \subseteq set
  /\ \A i \in DOMAIN ss : i > first /\ Needs(ss, i) \cap set # {} => i \in set
Downstream ==
  {i \in Positions \ HasStatus(steps, {"failed"}) :
     \A set \in SUBSET Positions : Reached(steps, kept, set) => i \in set}

\* When execute() returns, the skipped steps are exactly those downstream of a
\* failure: a failure never stops an unrelated step, nor lets a dependent run.
ExactCasualties ==
  pc = "idle" /\ executed => HasStatus(steps, {"skipped"}) = Downstream

\* A finished step is never started again, and never changes its outcome.
FinishedStaysFinished ==
  [][replans' = replans =>
       \A i \in Positions : steps[i].status \in {"done", "failed", "skipped"} =>
         steps'[i] = steps[i]]_vars

\* execute() returns, whatever the plan, once its steps do.
ExecuteReturns == pc = "loop" ~> pc = "idle"

\* todo.py:104, with dangling and self dependencies dropped "the DAG is always
\* resolvable": what execute() leaves behind waits for what it leaves behind,
\* so that only plans with a cycle are not run to their end.
OnlyCyclesLeftBehind ==
  pc = "idle" /\ executed =>
    LET behind == HasStatus(steps, {"pending"})
    IN  \A i \in behind : Needs(steps, i) \cap behind # {}

\* In whatever order the steps of a wave end, and across a replan that reuses their
\* ids: no step starts too early, is skipped without cause, or is left behind off a cycle.
PlanSound ==
  /\ TypeOK
  /\ DependenciesResolve
  /\ StartsAfterPredecessors
  /\ ExactCasualties
  /\ OnlyCyclesLeftBehind

=============================================================================
