---------------------------- MODULE Harness_proofs ----------------------------
(***************************************************************************)
(* The safety properties of seven parts of the harness: the planner, for   *)
(* plans of any size, every interleaving of the coroutines of a wave and   *)
(* any number of replans; the caches, for any number of tasks, questions   *)
(* and entries; the permission gates, for any limits and actions; the      *)
(* compaction of conversations of any length; memory, for any owners and   *)
(* any calls that overlap; the skills, for any disk and any selections;    *)
(* the answer, for any evidence, budget and draft.                         *)
(***************************************************************************)
EXTENDS TodoPlanner, Caches, Permissions, Compaction, Memory, Skills, Answering, Totals_proofs, SequenceTheorems

Step == [id : Ids, depends_on : SUBSET Ids, status : Statuses]

-----------------------------------------------------------------------------
(***************************************************************************)
(* What execute() does to a plan is to change the status of some of its    *)
(* steps.  Who depends on whom stays as it is.                             *)
(***************************************************************************)

\* Steps get another status, and nothing else changes.
Relabelled(ss, changed, status) ==
  [i \in DOMAIN ss |->
     IF i \in changed THEN [ss[i] EXCEPT !.status = status] ELSE ss[i]]

\* Nobody's dependencies depend on a status.
LEMMA RelabelledSteps ==
  ASSUME NEW ss \in Seq(Step), NEW changed \in SUBSET DOMAIN ss, NEW status \in Statuses,
         NEW tt, tt = Relabelled(ss, changed, status)
  PROVE  /\ tt \in Seq(Step) /\ Len(tt) = Len(ss) /\ DOMAIN tt = DOMAIN ss
         /\ \A i \in DOMAIN ss :
              /\ tt[i].status = IF i \in changed THEN status ELSE ss[i].status
              /\ i \notin changed => tt[i] = ss[i]
              /\ tt[i].depends_on = ss[i].depends_on
              /\ Needs(tt, i) = Needs(ss, i)
         /\ \A id : Named(tt, id) = Named(ss, id)
<1>1. /\ DOMAIN ss = 1 .. Len(ss) /\ Len(ss) \in Nat
      /\ \A i \in DOMAIN ss : ss[i] \in Step
  OBVIOUS
<1>2. DOMAIN tt = DOMAIN ss
  BY DEF Relabelled
<1>3. \A i \in DOMAIN ss :
        tt[i] = IF i \in changed THEN [ss[i] EXCEPT !.status = status] ELSE ss[i]
  BY DEF Relabelled
<1>4. \A i \in DOMAIN ss :
        /\ tt[i] \in Step
        /\ tt[i].status = IF i \in changed THEN status ELSE ss[i].status
        /\ i \notin changed => tt[i] = ss[i]
        /\ tt[i].id = ss[i].id /\ tt[i].depends_on = ss[i].depends_on
  BY <1>1, <1>3 DEF Step
<1>5. tt \in Seq(Step) /\ Len(tt) = Len(ss)
  <2>1. tt = [i \in 1 .. Len(ss) |-> tt[i]]
    BY <1>1, <1>2 DEF Relabelled
  <2>2. tt \in [1 .. Len(ss) -> Step]
    BY <1>1, <1>4, <2>1
  <2> QED BY <1>1, <1>2, <2>2
<1>6. \A id : Named(tt, id) = Named(ss, id)
  BY <1>2, <1>4 DEF Named
<1>7. \A id : ById(tt, id) = ById(ss, id)
  BY <1>6 DEF ById
<1>8. \A i \in DOMAIN ss : Needs(tt, i) = Needs(ss, i)
  BY <1>4, <1>7 DEF Needs
<1> QED BY <1>2, <1>4, <1>5, <1>6, <1>8

\* Where a dependency names a step, it is one of the plan's.
LEMMA NeedsInPlan ==
  ASSUME NEW ss \in Seq(Step), NEW i \in DOMAIN ss,
         \A d \in ss[i].depends_on : Named(ss, d) # {}
  PROVE  Needs(ss, i) \subseteq DOMAIN ss
<1> SUFFICES ASSUME NEW d \in ss[i].depends_on PROVE ById(ss, d) \in DOMAIN ss
  BY DEF Needs
<1>1. Len(ss) \in Int /\ 1 \in Int /\ DOMAIN ss = 1 .. Len(ss)
  OBVIOUS
<1>2. Named(ss, d) \in SUBSET Int /\ Named(ss, d) \subseteq 1 .. Len(ss)
  BY <1>1 DEF Named
<1>3. IsFiniteSet(Named(ss, d))
  BY <1>1, <1>2, FS_Interval, FS_Subset
<1>4. Max(Named(ss, d)) \in Named(ss, d)
  BY <1>2, <1>3, FiniteMax
<1> QED BY <1>4 DEF ById, Named

\* A pass skips pending steps, each on account of a dependency, and leaves none
\* that depends on a failure or a skip.
LEMMA PassSkips ==
  ASSUME NEW ss
  PROVE  /\ SkippedInPass(ss) \in SUBSET DOMAIN ss
         /\ SkippedInPass(ss) = SkippedAfter(ss, SkippedInPass(ss))
<1> DEFINE Closed(skips) == SkippedAfter(ss, skips) \subseteq skips
           least == {i \in DOMAIN ss : \A skips \in SUBSET DOMAIN ss : Closed(skips) => i \in skips}
           after == SkippedAfter(ss, least)
<1>1. \A few, many \in SUBSET DOMAIN ss :
        few \subseteq many => SkippedAfter(ss, few) \subseteq SkippedAfter(ss, many)
  BY DEF SkippedAfter
<1>2. \A skips : SkippedAfter(ss, skips) \in SUBSET DOMAIN ss
  BY DEF SkippedAfter
<1>3. least \in SUBSET DOMAIN ss
  OBVIOUS
<1>4. after \subseteq least
  <2> SUFFICES ASSUME NEW i \in after, NEW skips \in SUBSET DOMAIN ss, Closed(skips)
               PROVE  i \in skips
    BY <1>2
  <2>1. least \subseteq skips
    OBVIOUS
  <2>2. after \subseteq SkippedAfter(ss, skips)
    BY <1>1, <1>3, <2>1
  <2> QED BY <2>2
<1>5. Closed(after)
  BY <1>1, <1>2, <1>3, <1>4
<1>6. least \subseteq after
  BY <1>2, <1>5
<1>7. least = SkippedAfter(ss, least)
  BY <1>4, <1>6
<1> HIDE DEF least
<1> QED BY <1>3, <1>7, Zenon DEF SkippedInPass

\* A pass over a plan relabels the steps it skips.
LEMMA CascadeRelabels ==
  ASSUME NEW ss
  PROVE  Cascade(ss) = Relabelled(ss, SkippedInPass(ss), "skipped")
BY DEF Cascade, Relabelled

\* So does a coroutine with its own step.
LEMMA MarkedRelabels ==
  ASSUME NEW ss \in Seq(Step), NEW i \in DOMAIN ss, NEW status \in Statuses
  PROVE  Marked(ss, i, status) = Relabelled(ss, {i}, status)
BY DEF Marked, Relabelled, Step

-----------------------------------------------------------------------------
(***************************************************************************)
(* The plans themselves.                                                   *)
(***************************************************************************)

\* What the parser lets through depends on its own steps only.
LEMMA ParsedPlansResolve ==
  ASSUME NEW most \in Nat, NEW plan \in ParsedPlans(most)
  PROVE  /\ plan \in Seq(Step)
         /\ \A i \in DOMAIN plan : /\ plan[i].status = "pending"
                                   /\ \A d \in plan[i].depends_on : Named(plan, d) # {}
<1>1. PICK raw \in RawPlans(most) : plan = ParseSteps(raw)
  BY DEF ParsedPlans
<1>2. PICK n \in 0 .. most :
        raw \in [1 .. n -> [id : Ids, depends_on : SUBSET (Ids \cup {Unknown})]]
  BY DEF RawPlans
<1> DEFINE seen == {raw[i].id : i \in DOMAIN raw}
<1>3. /\ n \in Nat /\ DOMAIN raw = 1 .. n /\ seen \subseteq Ids
      /\ \A i \in 1 .. n : raw[i].id \in Ids
  BY <1>2
<1>4. plan = [i \in 1 .. n |->
                [id |-> raw[i].id, depends_on |-> (raw[i].depends_on \cap seen) \ {raw[i].id},
                 status |-> "pending"]]
  BY <1>1, <1>3 DEF ParseSteps
<1>5. DOMAIN plan = 1 .. n
  BY <1>4
<1>6. \A i \in 1 .. n : /\ plan[i].id = raw[i].id /\ plan[i].status = "pending"
                        /\ plan[i].depends_on = (raw[i].depends_on \cap seen) \ {raw[i].id}
  BY <1>4
<1>7. plan \in Seq(Step)
  <2>1. \A i \in 1 .. n : /\ raw[i].id \in Ids
                          /\ (raw[i].depends_on \cap seen) \ {raw[i].id} \in SUBSET Ids
    BY <1>3
  <2> HIDE DEF seen
  <2>2. plan \in [1 .. n -> Step]
    BY <1>4, <2>1 DEF Step, Statuses
  <2> QED BY <1>3, <2>2
<1>8. ASSUME NEW i \in DOMAIN plan, NEW d \in plan[i].depends_on
      PROVE  Named(plan, d) # {}
  <2>1. PICK j \in 1 .. n : raw[j].id = d
    BY <1>3, <1>5, <1>6, <1>8
  <2>2. j \in Named(plan, d)
    BY <1>5, <1>6, <2>1 DEF Named
  <2> QED BY <2>2
<1> QED BY <1>5, <1>6, <1>7, <1>8

\* The plan of an empty answer depends on nothing.
LEMMA FallbackResolves ==
  /\ FallbackPlan \in Seq(Step)
  /\ \A i \in DOMAIN FallbackPlan : /\ FallbackPlan[i].status = "pending"
                                    /\ FallbackPlan[i].depends_on = {}
BY TodoAssumption DEF FallbackPlan, Step, Statuses

\* What is kept of a plan is done.
LEMMA HistoriesDone ==
  ASSUME NEW ss \in Seq(Step), NEW history \in Histories(ss)
  PROVE  history \in Seq(Step) /\ \A i \in DOMAIN history : IsDone(history[i])
<1> DEFINE done == HasStatus(ss, {"done"})
           n == Cardinality(done)
<1>1. PICK at \in [1 .. n -> done] : history = [k \in DOMAIN at |-> ss[at[k]]]
  BY DEF Histories
<1>2. n \in Nat
  <2>1. Len(ss) \in Int /\ 1 \in Int /\ DOMAIN ss = 1 .. Len(ss)
    OBVIOUS
  <2>2. IsFiniteSet(done)
    BY <2>1, FS_Interval, FS_Subset DEF HasStatus
  <2> QED BY <2>2, FS_CardinalityType
<1>3. \A i \in done : ss[i] \in Step /\ IsDone(ss[i])
  BY DEF HasStatus, IsDone
<1> HIDE DEF done, n
<1>4. history = [k \in 1 .. n |-> ss[at[k]]]
  BY <1>1
<1>5. \A k \in 1 .. n : history[k] \in Step /\ IsDone(history[k])
  BY <1>1, <1>3, <1>4
<1>6. DOMAIN history = 1 .. n
  BY <1>4
<1>7. history \in [1 .. n -> Step]
  BY <1>4, <1>5
<1> QED BY <1>2, <1>5, <1>6, <1>7

\* A plan begins with what is kept of another and goes on with an answer that
\* resolves in it.
Continues(ss, history, plan) ==
  /\ ss \in Seq(Step) /\ Len(history) \in 0 .. Len(ss)
  /\ \A i \in 1 .. Len(history) : ss[i] = history[i]
  /\ \A i \in DOMAIN ss : i > Len(history) =>
       /\ i - Len(history) \in DOMAIN plan /\ ss[i] = plan[i - Len(history)]
       /\ \A d \in ss[i].depends_on : Named(ss, d) # {}

LEMMA ReplannedResolves ==
  ASSUME NEW history \in Seq(Step), NEW plan \in Seq(Step),
         \A i \in DOMAIN plan : \A d \in plan[i].depends_on : Named(plan, d) # {}
  PROVE  Continues(history \o plan, history, plan)
<1> DEFINE ss == history \o plan
<1>1. /\ ss \in Seq(Step) /\ Len(ss) = Len(history) + Len(plan)
      /\ Len(history) \in Nat /\ Len(plan) \in Nat
      /\ DOMAIN ss = 1 .. Len(ss) /\ DOMAIN plan = 1 .. Len(plan)
      /\ DOMAIN history = 1 .. Len(history)
  OBVIOUS
<1>2. \A i \in 1 .. Len(history) : ss[i] = history[i]
  BY <1>1
<1>3. \A i \in DOMAIN plan : i + Len(history) \in DOMAIN ss /\ ss[i + Len(history)] = plan[i]
  BY <1>1
<1>4. ASSUME NEW i \in DOMAIN ss, i > Len(history)
      PROVE  /\ i - Len(history) \in DOMAIN plan /\ ss[i] = plan[i - Len(history)]
             /\ \A d \in ss[i].depends_on : Named(ss, d) # {}
  <2>1. i - Len(history) \in DOMAIN plan /\ ss[i] = plan[i - Len(history)]
    BY <1>1, <1>4
  <2>2. ASSUME NEW d \in ss[i].depends_on PROVE Named(ss, d) # {}
    <3>1. PICK j \in DOMAIN plan : plan[j].id = d
      BY <2>1, <2>2 DEF Named
    <3>2. j + Len(history) \in Named(ss, d)
      BY <1>3, <3>1 DEF Named
    <3> QED BY <3>2
  <2> QED BY <2>1, <2>2
<1>5. Len(history) \in 0 .. Len(ss)
  BY <1>1
<1> HIDE DEF ss
<1>6. Continues(ss, history, plan)
  BY <1>1, <1>2, <1>4, <1>5 DEF Continues
<1> QED BY <1>6 DEF ss

-----------------------------------------------------------------------------
(***************************************************************************)
(* The inductive invariant.  A step that has been dispatched is not yet    *)
(* running: that its predecessors are done has to last until its coroutine *)
(* gets to run, whatever the others of the wave do meanwhile.  And that a  *)
(* step was skipped with a cause has to last while more of them fail.      *)
(***************************************************************************)

\* The dependencies of what was planned last name steps of the plan.
PredecessorsKnown ==
  \A i \in Fresh : \A d \in steps[i].depends_on : Named(steps, d) # {}

KeptIsDone == \A i \in 1 .. kept : IsDone(steps[i])

\* What is running was dispatched, and what was dispatched may run.
WaveMayRun ==
  /\ pc # "gather" => wave = {}
  /\ \A i \in Positions : steps[i].status = "running" => i \in wave
  /\ \A i \in wave : /\ steps[i].status \in {"pending", "running"}
                     /\ \A d \in Needs(steps, i) : IsDone(steps[d])

SkippedWithCause ==
  \A set \in SUBSET Positions :
    Reached(steps, kept, set) => HasStatus(steps, {"skipped"}) \subseteq set

PlanInv ==
  /\ PlanSound
  /\ PredecessorsKnown /\ KeptIsDone /\ WaveMayRun /\ SkippedWithCause

\* Statuses change, of steps that are not done, and of steps that may start or
\* are skipped: no dependency is lost, and no step is ahead of its predecessors.
LEMMA RelabelledKeeps ==
  ASSUME PlanInv, NEW changed \in SUBSET Positions, NEW status \in Statuses,
         \A i \in changed : steps[i].status \in {"pending", "running"},
         \/ status = "skipped"
         \/ \A i \in changed : \A d \in Needs(steps, i) : IsDone(steps[d]),
         steps' = Relabelled(steps, changed, status), kept' = kept
  PROVE  /\ steps' \in Seq(Step) /\ Len(steps') = Len(steps)
         /\ Positions' = Positions /\ Fresh' = Fresh
         /\ \A i \in Positions :
              /\ steps'[i].status = IF i \in changed THEN status ELSE steps[i].status
              /\ i \notin changed => steps'[i] = steps[i]
              /\ IsDone(steps[i]) => IsDone(steps'[i])
              /\ Needs(steps', i) = Needs(steps, i)
         /\ \A i \in Fresh : Needs(steps, i) \subseteq Positions
         /\ (PredecessorsKnown /\ KeptIsDone)'
         /\ DependenciesResolve' /\ StartsAfterPredecessors'
<1> USE DEF PlanInv, PlanSound
<1>1. steps \in Seq(Step) /\ kept \in 0 .. Len(steps)
  BY DEF TypeOK, Step
<1>2. DOMAIN steps = 1 .. Len(steps) /\ Len(steps) \in Nat
  BY <1>1
<1>3. /\ steps' \in Seq(Step) /\ Len(steps') = Len(steps) /\ DOMAIN steps' = DOMAIN steps
      /\ \A i \in DOMAIN steps :
           /\ steps'[i].status = IF i \in changed THEN status ELSE steps[i].status
           /\ i \notin changed => steps'[i] = steps[i]
           /\ steps'[i].depends_on = steps[i].depends_on
           /\ Needs(steps', i) = Needs(steps, i)
      /\ \A id : Named(steps', id) = Named(steps, id)
  <2>1. changed \in SUBSET DOMAIN steps /\ steps' = Relabelled(steps, changed, status)
    BY DEF Positions
  <2> QED BY <1>1, <2>1, RelabelledSteps
<1>4. Positions' = Positions /\ Fresh' = Fresh
  BY <1>3 DEF Positions, Fresh
<1>5. \A i \in Positions : IsDone(steps[i]) => IsDone(steps'[i])
  BY <1>3 DEF Positions, IsDone
<1>6. PredecessorsKnown'
  BY <1>3, <1>4 DEF PredecessorsKnown, Fresh, Positions
<1>7. KeptIsDone'
  BY <1>1, <1>2, <1>5 DEF KeptIsDone, Positions
<1>8. DependenciesResolve'
  BY <1>1, <1>2, <1>3, <1>4, <1>6, <1>7 DEF DependenciesResolve, PredecessorsKnown, KeptIsDone, Fresh,
     Positions, IsPending, IsDone
<1>9. \A i \in Fresh : Needs(steps, i) \subseteq Positions
  BY <1>1, NeedsInPlan DEF PredecessorsKnown, Fresh, Positions
<1>10. StartsAfterPredecessors'
  <2> SUFFICES ASSUME NEW i \in Fresh, steps'[i].status \in {"running", "done", "failed"},
                      NEW d \in Needs(steps, i)
               PROVE  IsDone(steps'[d])
    BY <1>3, <1>4 DEF StartsAfterPredecessors, Fresh, Positions
  <2>1. IsDone(steps[d])
    BY <1>3 DEF StartsAfterPredecessors, Fresh, Positions
  <2> QED BY <1>5, <1>9, <2>1
<1> QED BY <1>3, <1>4, <1>5, <1>6, <1>7, <1>8, <1>9, <1>10 DEF Positions

\* Whatever is skipped in a pass is downstream of a failure: the first one that
\* was not would depend on nothing that failed or was skipped.
LEMMA PassSkipsWithCause ==
  ASSUME PlanInv, NEW set \in SUBSET Positions, Reached(steps, kept, set)
  PROVE  SkippedInPass(steps) \subseteq set
<1> USE DEF PlanInv, PlanSound
<1> DEFINE stray == SkippedInPass(steps) \ set
<1>1. /\ SkippedInPass(steps) \in SUBSET DOMAIN steps
      /\ SkippedInPass(steps) = SkippedAfter(steps, SkippedInPass(steps))
  BY PassSkips
<1>2. SUFFICES ASSUME stray # {} PROVE FALSE
  OBVIOUS
<1>3. steps \in Seq(Step) /\ kept \in 0 .. Len(steps)
  BY DEF TypeOK, Step
<1>4. DOMAIN steps = 1 .. Len(steps) /\ Len(steps) \in Int /\ 1 \in Int
  BY <1>3
<1>5. stray \in SUBSET Int /\ IsFiniteSet(stray)
  BY <1>1, <1>4, FS_Interval, FS_Subset
<1>6. PICK i \in stray : \A j \in stray : i <= j
  BY <1>2, <1>5, FiniteMin
<1>7. /\ i \in DOMAIN steps /\ i \notin set /\ IsPending(steps[i])
      /\ \E d \in Needs(steps, i) : \/ steps[d].status \in {"failed", "skipped"}
                                    \/ d < i /\ d \in SkippedInPass(steps)
  BY <1>1 DEF SkippedAfter
<1>8. i \in Fresh
  BY <1>3, <1>4, <1>7 DEF KeptIsDone, Fresh, Positions, IsPending, IsDone
<1>9. Needs(steps, i) \subseteq DOMAIN steps
  BY <1>3, <1>8, NeedsInPlan DEF PredecessorsKnown, Fresh, Positions
<1>10. PICK d \in Needs(steps, i) : \/ steps[d].status \in {"failed", "skipped"}
                                    \/ d < i /\ d \in SkippedInPass(steps)
  BY <1>7
<1>11. d \in set
  <2>1. CASE steps[d].status = "failed"
    BY <1>9, <2>1 DEF Reached, HasStatus
  <2>2. CASE steps[d].status = "skipped"
    BY <1>9, <2>2 DEF SkippedWithCause, HasStatus
  <2>3. CASE d < i /\ d \in SkippedInPass(steps)
    <3>1. d \notin stray
      BY <1>4, <1>6, <1>7, <1>9, <2>3
    <3> QED BY <2>3, <3>1
  <2> QED BY <1>10, <2>1, <2>2, <2>3
<1>12. i \in set
  BY <1>8, <1>11 DEF Reached, Fresh, Positions
<1> QED BY <1>7, <1>12

-----------------------------------------------------------------------------
(***************************************************************************)
(* Every action preserves it.                                              *)
(***************************************************************************)

\* A first plan resolves, and nothing of it has run.
LEMMA PlanInit == Init => PlanInv
<1> SUFFICES ASSUME Init PROVE PlanInv
  OBVIOUS
<1>1. /\ steps \in Seq(Step)
      /\ \A i \in Positions : /\ steps[i].status = "pending"
                              /\ \A d \in steps[i].depends_on : Named(steps, d) # {}
  <2>1. PICK plan \in ParsedPlans(MaxSteps) :
          steps = IF plan = << >> THEN FallbackPlan ELSE plan
    BY DEF Init
  <2>2. CASE plan = << >>
    BY <2>1, <2>2, FallbackResolves DEF Positions
  <2>3. CASE plan # << >>
    BY <2>1, <2>3, ParsedPlansResolve, TodoAssumption DEF Positions
  <2> QED BY <2>2, <2>3
<1>2. TypeOK
  <2>1. Len(steps) \in Nat /\ MaxReplans \in Nat
    BY <1>1, TodoAssumption
  <2>2. kept \in 0 .. Len(steps) /\ replans \in 0 .. MaxReplans
    BY <2>1 DEF Init
  <2> QED BY <1>1, <2>2 DEF Init, TypeOK, Step
<1>3. PredecessorsKnown /\ DependenciesResolve
  BY <1>1 DEF PredecessorsKnown, DependenciesResolve, Fresh
<1>4. KeptIsDone
  BY DEF Init, KeptIsDone
<1>5. StartsAfterPredecessors /\ WaveMayRun
  BY <1>1 DEF Init, StartsAfterPredecessors, WaveMayRun, Fresh
<1>6. SkippedWithCause
  BY <1>1 DEF SkippedWithCause, HasStatus, Positions
<1>7. ExactCasualties /\ OnlyCyclesLeftBehind
  BY DEF Init, ExactCasualties, OnlyCyclesLeftBehind
<1> QED BY <1>2, <1>3, <1>4, <1>5, <1>6, <1>7 DEF PlanInv, PlanSound

\* Running the plan changes nothing of it.
LEMMA PlanExecute == PlanInv /\ Execute => PlanInv'
BY DEF PlanInv, PlanSound, Execute, TypeOK, PredecessorsKnown, DependenciesResolve, KeptIsDone,
  StartsAfterPredecessors, WaveMayRun, SkippedWithCause, ExactCasualties, OnlyCyclesLeftBehind,
  Positions, Fresh

\* A round skips what depends on a failure, and nothing else.
LEMMA PlanCascade ==
  ASSUME PlanInv, pc = "loop", steps' = Skips, UNCHANGED <<planStatus, kept, replans, executed>>,
         pc' \in {"loop", "gather"}
  PROVE  /\ steps' \in Seq(Step) /\ Len(steps') = Len(steps) /\ Positions' = Positions
         /\ (PredecessorsKnown /\ KeptIsDone)'
         /\ DependenciesResolve' /\ StartsAfterPredecessors' /\ SkippedWithCause'
         /\ ExactCasualties' /\ OnlyCyclesLeftBehind'
         /\ \A i \in Positions : steps'[i].status # "running"
         /\ \A i \in Positions : steps[i].status # "pending" => steps'[i] = steps[i]
<1> DEFINE passed == SkippedInPass(steps)
<1>1. /\ passed \in SUBSET Positions /\ passed = SkippedAfter(steps, passed)
  BY PassSkips DEF Positions
<1>2. \A i \in passed : steps[i].status = "pending"
  BY <1>1 DEF SkippedAfter, IsPending
<1>3. steps' = Relabelled(steps, passed, "skipped") /\ "skipped" \in Statuses
  BY CascadeRelabels DEF Skips, Statuses
<1> HIDE DEF passed
<1>4. /\ steps' \in Seq(Step) /\ Len(steps') = Len(steps)
      /\ Positions' = Positions /\ Fresh' = Fresh
      /\ \A i \in Positions :
           /\ steps'[i].status = IF i \in passed THEN "skipped" ELSE steps[i].status
           /\ i \notin passed => steps'[i] = steps[i]
           /\ Needs(steps', i) = Needs(steps, i)
      /\ (PredecessorsKnown /\ KeptIsDone)'
      /\ DependenciesResolve' /\ StartsAfterPredecessors'
  <2>1. /\ passed \in SUBSET Positions /\ "skipped" \in Statuses /\ kept' = kept
        /\ \A i \in passed : steps[i].status \in {"pending", "running"}
        /\ steps' = Relabelled(steps, passed, "skipped")
        /\ \/ "skipped" = "skipped"
           \/ \A i \in passed : \A d \in Needs(steps, i) : IsDone(steps[d])
    BY <1>1, <1>2, <1>3
  <2> DEFINE status == "skipped"
  <2>2. /\ passed \in SUBSET Positions /\ status \in Statuses /\ kept' = kept
        /\ \A i \in passed : steps[i].status \in {"pending", "running"}
        /\ steps' = Relabelled(steps, passed, status)
        /\ \/ status = "skipped"
           \/ \A i \in passed : \A d \in Needs(steps, i) : IsDone(steps[d])
    BY <2>1
  <2> HIDE DEF status
  <2>3. /\ steps' \in Seq(Step) /\ Len(steps') = Len(steps)
        /\ Positions' = Positions /\ Fresh' = Fresh
        /\ \A i \in Positions :
             /\ steps'[i].status = IF i \in passed THEN status ELSE steps[i].status
             /\ i \notin passed => steps'[i] = steps[i]
             /\ IsDone(steps[i]) => IsDone(steps'[i])
             /\ Needs(steps', i) = Needs(steps, i)
        /\ (PredecessorsKnown /\ KeptIsDone)'
        /\ DependenciesResolve' /\ StartsAfterPredecessors'
    BY <2>2, RelabelledKeeps
  <2> QED BY <2>3 DEF status
<1>5. SkippedWithCause'
  <2> SUFFICES ASSUME NEW set \in SUBSET Positions, Reached(steps', kept, set),
                      NEW i \in Positions, steps'[i].status = "skipped"
               PROVE  i \in set
    BY <1>4 DEF SkippedWithCause, Reached, HasStatus, Positions
  <2>1. \A j \in Positions : steps[j].status = "failed" => steps'[j].status = "failed"
    BY <1>2, <1>4
  <2>2. Reached(steps, kept, set)
    BY <1>4, <2>1 DEF Reached, HasStatus, Positions
  <2>3. CASE i \in passed
    BY <2>2, <2>3, PassSkipsWithCause DEF passed
  <2>4. CASE i \notin passed
    BY <1>4, <2>2, <2>4 DEF PlanInv, SkippedWithCause, HasStatus, Positions
  <2> QED BY <2>3, <2>4
<1>6. \A i \in Positions : steps[i].status # "running"
  BY DEF PlanInv, WaveMayRun
<1>7. ExactCasualties' /\ OnlyCyclesLeftBehind'
  BY DEF ExactCasualties, OnlyCyclesLeftBehind
<1> QED BY <1>2, <1>4, <1>5, <1>6, <1>7

\* What is dispatched may run.
LEMMA PlanDispatch == PlanInv /\ Dispatch => PlanInv'
<1> SUFFICES ASSUME PlanInv, Dispatch PROVE PlanInv'
  OBVIOUS
<1>1. /\ pc = "loop" /\ steps' = Skips /\ wave' = ReadyNow /\ pc' = "gather"
      /\ UNCHANGED <<planStatus, kept, replans, executed>>
  BY DEF Dispatch
<1>2. /\ steps' \in Seq(Step) /\ Len(steps') = Len(steps) /\ Positions' = Positions
      /\ (PredecessorsKnown /\ KeptIsDone)'
      /\ DependenciesResolve' /\ StartsAfterPredecessors' /\ SkippedWithCause'
      /\ ExactCasualties' /\ OnlyCyclesLeftBehind'
      /\ \A i \in Positions : steps'[i].status # "running"
  BY <1>1, PlanCascade
<1>3. wave' = {i \in Positions : Ready(steps', i)}
  BY <1>1 DEF ReadyNow, Positions
<1>4. TypeOK'
  BY <1>1, <1>2, <1>3 DEF PlanInv, PlanSound, TypeOK, Step
<1>5. WaveMayRun'
  BY <1>1, <1>2, <1>3 DEF WaveMayRun, Ready, IsPending
<1> QED BY <1>2, <1>4, <1>5 DEF PlanInv, PlanSound

\* Or skips cascade further.
LEMMA PlanCascadeOn == PlanInv /\ CascadeOn => PlanInv'
<1> SUFFICES ASSUME PlanInv, CascadeOn PROVE PlanInv'
  OBVIOUS
<1>1. /\ pc = "loop" /\ steps' = Skips /\ wave' = wave /\ pc' = pc
      /\ UNCHANGED <<planStatus, kept, replans, executed>>
  BY DEF CascadeOn
<1>2. /\ steps' \in Seq(Step) /\ Len(steps') = Len(steps) /\ Positions' = Positions
      /\ (PredecessorsKnown /\ KeptIsDone)'
      /\ DependenciesResolve' /\ StartsAfterPredecessors' /\ SkippedWithCause'
      /\ ExactCasualties' /\ OnlyCyclesLeftBehind'
      /\ \A i \in Positions : steps'[i].status # "running"
  BY <1>1, PlanCascade
<1>3. wave = {}
  BY <1>1 DEF PlanInv, WaveMayRun
<1>4. TypeOK'
  BY <1>1, <1>2, <1>3 DEF PlanInv, PlanSound, TypeOK, Step
<1>5. WaveMayRun'
  BY <1>1, <1>2, <1>3 DEF WaveMayRun
<1> QED BY <1>2, <1>4, <1>5 DEF PlanInv, PlanSound

\* When nothing is ready and nothing is left to skip, every step is where it
\* should be: what failed or was skipped closes over its dependents, and what
\* is pending waits for something that is.
LEMMA PlanReturn == PlanInv /\ Return => PlanInv'
<1> SUFFICES ASSUME PlanInv, Return PROVE PlanInv'
  OBVIOUS
<1> USE DEF PlanInv, PlanSound
<1>1. /\ pc = "loop" /\ ReadyNow = {} /\ Skips = steps
      /\ planStatus' = Verdict(steps) /\ pc' = "idle" /\ executed'
      /\ UNCHANGED <<steps, wave, kept, replans>>
  BY DEF Return
<1>0. \A i \in Positions : steps[i] \in Step
  <2>1. steps \in Seq(Step)
    BY DEF TypeOK, Step
  <2> QED BY <2>1 DEF Positions
<1>2. /\ SkippedInPass(steps) \in SUBSET Positions
      /\ SkippedInPass(steps) = SkippedAfter(steps, SkippedInPass(steps))
  BY PassSkips DEF Positions
<1>3. SkippedInPass(steps) = {}
  <2> SUFFICES ASSUME NEW i \in SkippedInPass(steps) PROVE FALSE
    OBVIOUS
  <2>1. i \in Positions /\ steps[i] \in Step /\ steps[i].status = "pending"
    BY <1>0, <1>2 DEF SkippedAfter, IsPending, Positions
  <2>2. steps[i] = [steps[i] EXCEPT !.status = "skipped"]
    BY <1>1, <2>1 DEF Skips, Cascade, Positions
  <2> QED BY <2>1, <2>2 DEF Step
<1>4. \A i \in Positions : IsPending(steps[i]) =>
        \A d \in Needs(steps, i) : steps[d].status \notin {"failed", "skipped"}
  BY <1>2, <1>3 DEF SkippedAfter, Positions
<1>5. \A i \in Positions : steps[i].status # "running"
  BY <1>1 DEF WaveMayRun
<1>6. \A i \in Fresh : Needs(steps, i) \subseteq Positions
  BY NeedsInPlan DEF TypeOK, Step, PredecessorsKnown, Fresh, Positions
<1>7. \A i \in Positions : steps[i].status \in Statuses
  BY <1>0 DEF Step
<1>8. \A i \in Positions : i > kept \/ steps[i].status = "done"
  BY DEF TypeOK, Positions, KeptIsDone, IsDone
<1>9. Downstream = HasStatus(steps, {"skipped"})
  <2> DEFINE casualties == HasStatus(steps, {"failed", "skipped"})
  <2>1. casualties \in SUBSET Positions
    BY DEF HasStatus, Positions
  <2>2. Reached(steps, kept, casualties)
    <3>1. HasStatus(steps, {"failed"}) \subseteq casualties
      BY DEF HasStatus
    <3>2. ASSUME NEW i \in Positions, i > kept, NEW d \in Needs(steps, i), d \in casualties
          PROVE  i \in casualties
      <4>1. i \in Fresh /\ steps[d].status \in {"failed", "skipped"}
        BY <3>2 DEF Fresh, HasStatus
      <4>2. steps[i].status # "pending"
        BY <1>4, <4>1 DEF IsPending
      <4>3. steps[i].status \notin {"running", "done", "failed"}
        BY <4>1 DEF StartsAfterPredecessors, IsDone
      <4> QED BY <1>7, <4>2, <4>3 DEF HasStatus, Statuses, Positions
    <3> QED BY <3>1, <3>2 DEF Reached, Positions
  <2>3. Downstream \subseteq HasStatus(steps, {"skipped"})
    BY <2>1, <2>2 DEF Downstream, HasStatus
  <2>4. HasStatus(steps, {"skipped"}) \subseteq Downstream
    BY DEF SkippedWithCause, Downstream, HasStatus, Positions
  <2> QED BY <2>3, <2>4
<1>10. ASSUME NEW i \in HasStatus(steps, {"pending"})
       PROVE  Needs(steps, i) \cap HasStatus(steps, {"pending"}) # {}
  <2>1. i \in Positions /\ IsPending(steps[i]) /\ ~Ready(steps, i)
    BY <1>1 DEF ReadyNow, HasStatus, Positions, IsPending
  <2>2. PICK d \in Needs(steps, i) : ~IsDone(steps[d])
    BY <2>1 DEF Ready
  <2>3. d \in Positions
    BY <1>6, <1>8, <2>1 DEF Fresh, IsPending
  <2>4. steps[d].status = "pending"
    BY <1>4, <1>5, <1>7, <2>1, <2>2, <2>3 DEF Statuses, IsDone
  <2> QED BY <2>3, <2>4 DEF HasStatus, Positions
<1>11. ExactCasualties'
  BY <1>1, <1>9 DEF ExactCasualties, Downstream, Positions
<1>12. OnlyCyclesLeftBehind'
  BY <1>1, <1>10 DEF OnlyCyclesLeftBehind
<1>13. TypeOK'
  BY <1>1 DEF TypeOK, Verdict, Positions
<1>14. (PredecessorsKnown /\ KeptIsDone /\ DependenciesResolve /\ StartsAfterPredecessors
         /\ SkippedWithCause)'
  BY <1>1 DEF PredecessorsKnown, KeptIsDone, DependenciesResolve, StartsAfterPredecessors,
     SkippedWithCause, Positions, Fresh
<1>15. WaveMayRun'
  BY <1>1, <1>5 DEF WaveMayRun, Positions
<1> QED BY <1>11, <1>12, <1>13, <1>14, <1>15

\* A coroutine moves its own step, whose predecessors are done.
LEMMA PlanMarked ==
  ASSUME PlanInv, NEW i \in wave, NEW status \in {"running", "done", "failed"},
         steps' = Marked(steps, i, status), UNCHANGED <<planStatus, kept, replans, executed>>,
         pc' \in {"loop", "gather"}, wave' \subseteq wave,
         IF status = "running" THEN i \in wave' ELSE i \notin wave',
         wave \ {i} \subseteq wave', pc' # "gather" => wave' = {}
  PROVE  /\ PlanInv'
         /\ \A j \in Positions : steps[j].status \notin {"pending", "running"} =>
              steps'[j] = steps[j]
<1>1. /\ steps \in Seq(Step) /\ i \in Positions /\ wave \subseteq Positions
      /\ {i} \in SUBSET Positions /\ status \in Statuses
  BY DEF PlanInv, PlanSound, TypeOK, Step, Statuses
<1>2. steps' = Relabelled(steps, {i}, status) /\ kept' = kept
  BY <1>1, MarkedRelabels DEF Positions
<1>3. steps[i].status \in {"pending", "running"} /\ \A d \in Needs(steps, i) : IsDone(steps[d])
  BY DEF PlanInv, WaveMayRun
<1>4. /\ steps' \in Seq(Step) /\ Len(steps') = Len(steps)
      /\ Positions' = Positions /\ Fresh' = Fresh
      /\ \A j \in Positions :
           /\ steps'[j].status = IF j \in {i} THEN status ELSE steps[j].status
           /\ j \notin {i} => steps'[j] = steps[j]
           /\ IsDone(steps[j]) => IsDone(steps'[j])
           /\ Needs(steps', j) = Needs(steps, j)
      /\ \A j \in Fresh : Needs(steps, j) \subseteq Positions
      /\ (PredecessorsKnown /\ KeptIsDone)'
      /\ DependenciesResolve' /\ StartsAfterPredecessors'
  BY <1>1, <1>2, <1>3, RelabelledKeeps
<1>5. SkippedWithCause'
  <2> SUFFICES ASSUME NEW set \in SUBSET Positions, Reached(steps', kept, set),
                      NEW j \in Positions, steps'[j].status = "skipped"
               PROVE  j \in set
    BY <1>4 DEF SkippedWithCause, Reached, HasStatus, Positions
  <2>1. \A k \in Positions : steps[k].status = "failed" => steps'[k].status = "failed"
    BY <1>3, <1>4
  <2>2. Reached(steps, kept, set)
    BY <1>4, <2>1 DEF Reached, HasStatus, Positions
  <2>3. steps[j].status = "skipped"
    BY <1>4
  <2> QED BY <2>2, <2>3 DEF PlanInv, SkippedWithCause, HasStatus, Positions
<1>6. ExactCasualties' /\ OnlyCyclesLeftBehind'
  BY DEF ExactCasualties, OnlyCyclesLeftBehind
<1>7. TypeOK'
  BY <1>1, <1>4 DEF PlanInv, PlanSound, TypeOK, Step
<1>8. WaveMayRun'
  <2>1. \A j \in Positions : steps'[j].status = "running" => j \in wave'
    BY <1>1, <1>4 DEF PlanInv, WaveMayRun
  <2>2. ASSUME NEW j \in wave' PROVE steps'[j].status \in {"pending", "running"}
    BY <1>1, <1>4, <2>2 DEF PlanInv, WaveMayRun
  <2>3. ASSUME NEW j \in wave', NEW d \in Needs(steps', j) PROVE IsDone(steps'[d])
    <3>1. j \in wave /\ j \in Positions /\ d \in Needs(steps, j)
      BY <1>1, <1>4, <2>3
    <3>2. steps[j].status \in {"pending", "running"} /\ IsDone(steps[d])
      BY <3>1 DEF PlanInv, WaveMayRun
    <3>3. j \in Fresh
      BY <3>1, <3>2 DEF PlanInv, PlanSound, TypeOK, KeptIsDone, Fresh, Positions, IsDone
    <3> QED BY <1>4, <3>1, <3>2, <3>3
  <2> QED BY <1>4, <2>1, <2>2, <2>3 DEF WaveMayRun
<1>9. \A j \in Positions : steps[j].status \notin {"pending", "running"} => steps'[j] = steps[j]
  BY <1>3, <1>4
<1> QED BY <1>4, <1>5, <1>6, <1>7, <1>8, <1>9 DEF PlanInv, PlanSound

\* It gets to run, and its step ends.
LEMMA PlanRunStep ==
  ASSUME PlanInv, RunStep
  PROVE  /\ PlanInv'
         /\ \A j \in Positions : steps[j].status \notin {"pending", "running"} =>
              steps'[j] = steps[j]
<1>1. PICK i \in wave : StartStep(i) \/ \E o \in {"done", "failed"} : FinishStep(i, o)
  BY DEF RunStep
<1>2. pc = "gather"
  BY DEF PlanInv, PlanSound, TypeOK, WaveMayRun
<1>3. CASE StartStep(i)
  BY <1>2, <1>3, PlanMarked DEF StartStep
<1>4. ASSUME NEW o \in {"done", "failed"}, FinishStep(i, o)
      PROVE  /\ PlanInv'
             /\ \A j \in Positions : steps[j].status \notin {"pending", "running"} =>
                  steps'[j] = steps[j]
  <2>1. /\ o \in {"running", "done", "failed"} /\ o # "running"
        /\ steps' = Marked(steps, i, o) /\ UNCHANGED <<planStatus, kept, replans, executed>>
        /\ wave' = wave \ {i} /\ pc' \in {"loop", "gather"}
        /\ pc' # "gather" => wave' = {}
    BY <1>4 DEF FinishStep
  <2>2. IF o = "running" THEN i \in wave' ELSE i \notin wave'
    BY <2>1
  <2> QED BY <2>1, <2>2, PlanMarked
<1> QED BY <1>1, <1>3, <1>4

\* What is left of a plan is replaced: nothing of the new part has run, and all
\* of the old part is done.
LEMMA PlanAdapt == PlanInv /\ Adapt => PlanInv'
<1> SUFFICES ASSUME PlanInv, Adapt PROVE PlanInv'
  OBVIOUS
<1>1. /\ pc = "idle" /\ replans < MaxReplans /\ replans' = replans + 1
      /\ pc' = pc /\ wave' = wave
  BY DEF Adapt
<1>2. wave = {} /\ replans' \in 0 .. MaxReplans
  BY <1>1, TodoAssumption DEF PlanInv, PlanSound, TypeOK, WaveMayRun
<1>3. CASE planStatus' = "failed" /\ UNCHANGED <<steps, kept, executed>>
  BY <1>1, <1>2, <1>3 DEF PlanInv, PlanSound, TypeOK, PredecessorsKnown, DependenciesResolve,
     KeptIsDone, StartsAfterPredecessors, WaveMayRun, SkippedWithCause, ExactCasualties,
     OnlyCyclesLeftBehind, Downstream, Positions, Fresh
<1>4. ASSUME NEW newSteps \in ParsedPlans(MaxNewSteps), NEW history \in Histories(steps),
             steps' = history \o newSteps, kept' = Len(history),
             planStatus' = "executing", executed' = FALSE
      PROVE  PlanInv'
  <2>1. steps \in Seq(Step) /\ MaxNewSteps \in Nat
    BY TodoAssumption DEF PlanInv, PlanSound, TypeOK, Step
  <2>2. history \in Seq(Step) /\ \A i \in DOMAIN history : IsDone(history[i])
    BY <2>1, HistoriesDone
  <2>3. /\ newSteps \in Seq(Step)
        /\ \A i \in DOMAIN newSteps :
             /\ newSteps[i].status = "pending"
             /\ \A d \in newSteps[i].depends_on : Named(newSteps, d) # {}
    BY <2>1, ParsedPlansResolve
  <2>4. /\ steps' \in Seq(Step) /\ kept' \in 0 .. Len(steps')
        /\ \A i \in 1 .. kept' : steps'[i] = history[i]
        /\ \A i \in DOMAIN steps' : i > kept' =>
             /\ i - kept' \in DOMAIN newSteps /\ steps'[i] = newSteps[i - kept']
             /\ \A d \in steps'[i].depends_on : Named(steps', d) # {}
    <3>1. /\ history \in Seq(Step) /\ newSteps \in Seq(Step)
          /\ \A i \in DOMAIN newSteps :
               \A d \in newSteps[i].depends_on : Named(newSteps, d) # {}
          /\ steps' = history \o newSteps
      BY <1>4, <2>2, <2>3
    <3>2. Continues(steps', history, newSteps)
      BY <3>1, ReplannedResolves, Zenon
    <3> QED BY <1>4, <3>2 DEF Continues
  <2>5. DOMAIN steps' = 1 .. Len(steps') /\ DOMAIN history = 1 .. kept'
    BY <1>4, <2>2, <2>4
  <2>6. KeptIsDone'
    BY <2>2, <2>4, <2>5 DEF KeptIsDone, IsDone
  <2>7. \A i \in DOMAIN steps' : i > kept' => steps'[i].status = "pending"
    BY <2>3, <2>4
  <2>8. \A i \in DOMAIN steps' : steps'[i].status \in {"pending", "done"}
    BY <2>4, <2>5, <2>6, <2>7 DEF KeptIsDone, IsDone
  <2>9. PredecessorsKnown'
    BY <2>4 DEF PredecessorsKnown, Fresh, Positions
  <2>10. DependenciesResolve'
    BY <2>4, <2>5, <2>6 DEF DependenciesResolve, KeptIsDone, Positions, IsPending, IsDone
  <2>11. StartsAfterPredecessors'
    BY <2>7 DEF StartsAfterPredecessors, Fresh, Positions
  <2>12. WaveMayRun'
    BY <1>1, <1>2, <2>8 DEF WaveMayRun, Positions
  <2>13. SkippedWithCause'
    BY <2>8 DEF SkippedWithCause, HasStatus
  <2>14. ExactCasualties' /\ OnlyCyclesLeftBehind'
    BY <1>4 DEF ExactCasualties, OnlyCyclesLeftBehind
  <2>15. TypeOK'
    BY <1>1, <1>2, <1>4, <2>4 DEF TypeOK, Step
  <2> QED BY <2>6, <2>9, <2>10, <2>11, <2>12, <2>13, <2>14, <2>15 DEF PlanInv, PlanSound
<1> QED BY <1>3, <1>4 DEF Adapt

\* PlanInv is inductive.
THEOREM PlanInvariance == Spec => []PlanInv
<1>1. PlanInv /\ [Next]_vars => PlanInv'
  <2> SUFFICES ASSUME PlanInv, [Next]_vars PROVE PlanInv'
    OBVIOUS
  <2>1. CASE Execute
    BY <2>1, PlanExecute
  <2>2. CASE Dispatch
    BY <2>2, PlanDispatch
  <2>3. CASE CascadeOn
    BY <2>3, PlanCascadeOn
  <2>4. CASE Return
    BY <2>4, PlanReturn
  <2>5. CASE RunStep
    BY <2>5, PlanRunStep
  <2>6. CASE Adapt
    BY <2>6, PlanAdapt
  <2>7. CASE UNCHANGED vars
    BY <2>7 DEF vars, PlanInv, PlanSound, TypeOK, PredecessorsKnown, DependenciesResolve,
       KeptIsDone, StartsAfterPredecessors, WaveMayRun, SkippedWithCause, ExactCasualties,
       OnlyCyclesLeftBehind, Downstream, Positions, Fresh
  <2> QED BY <2>1, <2>2, <2>3, <2>4, <2>5, <2>6, <2>7 DEF Next, Round
<1> QED BY <1>1, PlanInit, PTL DEF Spec

\* For every plan and replan, and any order in which the coroutines of a wave
\* run and end: dependencies name steps, no step starts ahead of them, exactly
\* what is downstream of a failure is skipped, and only cycles are left behind.
THEOREM PlanHolds == Spec => []PlanSound
<1>1. PlanInv => PlanSound
  BY DEF PlanInv
<1> QED BY <1>1, PlanInvariance, PTL

\* Between two replans, what has ended or was skipped stays as it is.
THEOREM FinishedStays == Spec => FinishedStaysFinished
<1> DEFINE Stays == \A i \in Positions : steps[i].status \in {"done", "failed", "skipped"} =>
                      steps'[i] = steps[i]
<1>1. ASSUME PlanInv, [Next]_vars PROVE [replans' = replans => Stays]_vars
  <2>1. CASE Execute \/ Return \/ UNCHANGED vars
    BY <2>1 DEF Execute, Return, vars
  <2>2. CASE Dispatch \/ CascadeOn
    <3>1. /\ pc = "loop" /\ steps' = Skips /\ pc' \in {"loop", "gather"}
          /\ UNCHANGED <<planStatus, kept, replans, executed>>
      BY <2>2 DEF Dispatch, CascadeOn
    <3> QED BY <1>1, <3>1, PlanCascade
  <2>3. CASE RunStep
    BY <1>1, <2>3, PlanRunStep
  <2>4. CASE Adapt
    <3>1. replans \in Nat /\ replans' = replans + 1
      BY <1>1, <2>4 DEF Adapt, PlanInv, PlanSound, TypeOK
    <3> QED BY <3>1
  <2> QED BY <1>1, <2>1, <2>2, <2>3, <2>4 DEF Next, Round
<1> QED BY <1>1, PlanInvariance, PTL DEF Spec, FinishedStaysFinished

-----------------------------------------------------------------------------
(***************************************************************************)
(* The permission gates.  A node is run twice around its interrupt, and    *)
(* what it asks about the second time has to be what a person was shown.   *)
(***************************************************************************)

Forms == {"mapping", "object", "bare", "none"}
GateNames == {"write", "budget", "concurrency", "none"}

ThreadShape ==
  thread \in [node : {"gate", "spawn"}, at : {"ready", "gate", "paused", "past"},
              action : Actions \cup {NoAction}, proposed : Actions \cup {NoAction},
              active : 0 .. MaxActive, shown : GateNames, denied : BOOLEAN,
              approval : [gate : GateNames, approved : BOOLEAN],
              answer : [form : Forms, approved : BOOLEAN], taken : 0 .. MaxActions]

\* The gate that the node finds, each time it is run.
Found == EvaluateGates(thread.proposed, thread.active)

\* There is no answer before the question, and the question shown is the one the
\* node finds again.
ShownIsFound ==
  /\ thread.at \in {"ready", "gate", "paused"} => thread.answer = NoReply
  /\ thread.at = "paused" => (thread.shown = Found /\ Found # "none")

PermissionsInv == ThreadShape /\ ShownIsFound /\ NothingRiskyPasses

\* The first gate that trips is found, and none only where none trips.
LEMMA FirstGateFound ==
  ASSUME NEW action, NEW active
  PROVE  /\ EvaluateGates(action, active) \in GateNames
         /\ EvaluateGates(action, active) = "none" <=>
              \A i \in DOMAIN Gates : ~ShouldPause(Gates[i], action, active)
         /\ ShouldPause(Gates[1], action, active) => EvaluateGates(action, active) = Gates[1]
<1> DEFINE tripped == {i \in DOMAIN Gates : ShouldPause(Gates[i], action, active)}
<1>1. /\ DOMAIN Gates = 1 .. 3 /\ Gates[1] = "write"
      /\ \A i \in DOMAIN Gates : Gates[i] \in GateNames /\ Gates[i] # "none"
  BY DEF Gates, GateNames
<1>2. EvaluateGates(action, active) = IF tripped = {} THEN "none" ELSE Gates[Min(tripped)]
  BY DEF EvaluateGates
<1>3. tripped \in SUBSET Int /\ tripped \in SUBSET (1 .. 3) /\ IsFiniteSet(tripped)
  <2>1. tripped \in SUBSET (1 .. 3) /\ 1 .. 3 \subseteq Int
    BY <1>1
  <2>2. IsFiniteSet(1 .. 3)
    <3>1. 1 \in Int /\ 3 \in Int
      OBVIOUS
    <3> QED BY <3>1, FS_Interval
  <2> QED BY <2>1, <2>2, FS_Subset
<1>4. tripped # {} => Min(tripped) \in tripped
  BY <1>3, FiniteMin
<1>5. 1 \in tripped => Min(tripped) = 1
  BY <1>3, IsMin
<1>6. ShouldPause(Gates[1], action, active) => 1 \in tripped
  BY <1>1
<1>7. tripped = {} <=> \A i \in DOMAIN Gates : ~ShouldPause(Gates[i], action, active)
  OBVIOUS
<1>8. tripped # {} => Min(tripped) \in DOMAIN Gates
  BY <1>4
<1> HIDE DEF tripped
<1>9. EvaluateGates(action, active) = "none" <=> tripped = {}
  BY <1>1, <1>2, <1>8
<1>10. EvaluateGates(action, active) \in GateNames
  BY <1>1, <1>2, <1>8 DEF GateNames
<1>11. ShouldPause(Gates[1], action, active) => EvaluateGates(action, active) = Gates[1]
  BY <1>2, <1>5, <1>6
<1> QED BY <1>7, <1>9, <1>10, <1>11

\* A thread starts with nothing asked and nothing answered.
LEMMA PermissionsStart == PermissionsInit => PermissionsInv
<1> SUFFICES ASSUME PermissionsInit PROVE PermissionsInv
  OBVIOUS
<1>1. PICK node \in {"gate", "spawn"}, active \in 0 .. MaxActive :
        thread = [node |-> node, at |-> "ready", action |-> NoAction, proposed |-> NoAction,
                  active |-> active, shown |-> "none", denied |-> FALSE,
                  approval |-> NoApproval, answer |-> NoReply, taken |-> 0]
  BY DEF PermissionsInit
<1>2. NoApproval \in [gate : GateNames, approved : BOOLEAN]
  BY DEF NoApproval, GateNames
<1>3. NoReply \in [form : Forms, approved : BOOLEAN]
  BY DEF NoReply, Forms
<1>4. 0 \in 0 .. MaxActions /\ "none" \in GateNames
  BY PermissionsAssumption DEF GateNames
<1>5. ThreadShape
  BY <1>1, <1>2, <1>3, <1>4 DEF ThreadShape
<1>6. ShownIsFound /\ NothingRiskyPasses
  BY <1>1 DEF ShownIsFound, NothingRiskyPasses
<1> QED BY <1>5, <1>6 DEF PermissionsInv

LEMMA ProposeKeeps ==
  ASSUME PermissionsInv, NEW action \in Actions, Propose(action)
  PROVE  PermissionsInv'
<1>1. ThreadShape /\ ShownIsFound
  BY DEF PermissionsInv
<1>2. /\ thread' = [thread EXCEPT !.at = "gate", !.proposed = action, !.taken = @ + 1,
                      !.action = IF thread.node = "gate" THEN action ELSE @]
      /\ thread.at = "ready" /\ thread.taken < MaxActions
  BY DEF Propose
<1>3. thread.taken + 1 \in 0 .. MaxActions
  BY <1>1, <1>2, PermissionsAssumption DEF ThreadShape
<1>4. ThreadShape'
  BY <1>1, <1>2, <1>3 DEF ThreadShape
<1>5. thread'.at = "gate" /\ thread'.answer = NoReply
  BY <1>1, <1>2 DEF ThreadShape, ShownIsFound
<1>6. ShownIsFound' /\ NothingRiskyPasses'
  BY <1>5 DEF ShownIsFound, NothingRiskyPasses
<1> QED BY <1>4, <1>6 DEF PermissionsInv

\* What goes on without a question trips no gate.
LEMMA RunGateKeeps == PermissionsInv /\ RunGate => PermissionsInv'
<1> SUFFICES ASSUME PermissionsInv, RunGate PROVE PermissionsInv'
  OBVIOUS
<1>1. ThreadShape /\ ShownIsFound
  BY DEF PermissionsInv
<1>2. /\ Found \in GateNames
      /\ Found = "none" <=> \A i \in DOMAIN Gates : ~Trips(Gates[i])
  BY FirstGateFound DEF Found, Trips
<1>3. /\ thread.at = "gate" /\ thread.answer = NoReply
      /\ thread' = IF Found = "none" THEN [thread EXCEPT !.at = "past", !.action = thread.proposed]
                   ELSE [thread EXCEPT !.at = "paused", !.shown = Found]
  BY <1>1 DEF RunGate, Found, ShownIsFound
<1>4. ThreadShape'
  BY <1>1, <1>2, <1>3 DEF ThreadShape
<1>5. /\ thread'.proposed = thread.proposed /\ thread'.active = thread.active
      /\ thread'.answer = NoReply
      /\ Found = "none" => thread'.at = "past"
      /\ Found # "none" => (thread'.at = "paused" /\ thread'.shown = Found)
  BY <1>1, <1>3 DEF ThreadShape
<1>6. Found' = Found /\ \A i \in DOMAIN Gates : Trips(Gates[i])' = Trips(Gates[i])
  BY <1>5 DEF Found, Trips
<1>7. ShownIsFound'
  BY <1>5, <1>6 DEF ShownIsFound
<1>8. NothingRiskyPasses'
  BY <1>2, <1>5, <1>6 DEF NothingRiskyPasses
<1> QED BY <1>4, <1>7, <1>8 DEF PermissionsInv

\* Either node lets an action go on only with a yes, or with an object it takes
\* for one.
LEMMA ResumeGateKeeps ==
  ASSUME PermissionsInv, NEW reply \in Replies, ResumeGate(reply)
  PROVE  PermissionsInv'
<1> DEFINE yes == Approves(thread.node, reply)
<1>1. ThreadShape
  BY DEF PermissionsInv
<1>2. Found \in GateNames /\ yes \in BOOLEAN
  BY FirstGateFound DEF Found, Approves, Replies
<1>3. thread' = [thread EXCEPT !.at = "past", !.answer = reply, !.shown = "none", !.denied = @ \/ ~yes,
                   !.action = IF yes /\ thread.node = "spawn" THEN thread.proposed ELSE NoAction,
                   !.approval = IF yes \/ thread.node = "gate" THEN [gate |-> Found, approved |-> yes] ELSE @]
  BY DEF ResumeGate, Found
<1>4. reply \in [form : Forms, approved : BOOLEAN] /\ reply # NoReply
  BY DEF Replies, Forms, NoReply
<1>5. yes => (reply.approved \/ reply.form = "object")
  BY DEF Approves
<1> DEFINE action == IF yes /\ thread.node = "spawn" THEN thread.proposed ELSE NoAction
           approval == IF yes \/ thread.node = "gate"
                       THEN [gate |-> Found, approved |-> yes] ELSE thread.approval
           denied == thread.denied \/ ~yes
<1>10. /\ action \in Actions \cup {NoAction} /\ denied \in BOOLEAN
       /\ approval \in [gate : GateNames, approved : BOOLEAN]
       /\ "none" \in GateNames
  <2> HIDE DEF yes
  <2>1. [gate |-> Found, approved |-> yes] \in [gate : GateNames, approved : BOOLEAN]
    BY <1>2
  <2> QED BY <1>1, <2>1 DEF ThreadShape, GateNames
<1>11. thread' = [thread EXCEPT !.at = "past", !.answer = reply, !.shown = "none", !.denied = denied,
                    !.action = action, !.approval = approval]
  BY <1>1, <1>3 DEF ThreadShape
<1> HIDE DEF yes
<1>6. ThreadShape'
  <2> HIDE DEF action, approval, denied
  <2> QED BY <1>1, <1>4, <1>10, <1>11 DEF ThreadShape
<1>7. /\ thread'.at = "past" /\ thread'.answer = reply
      /\ thread'.action # NoAction => yes
      /\ ~yes => thread'.denied
  BY <1>1, <1>3 DEF ThreadShape
<1>8. ShownIsFound'
  BY <1>7 DEF ShownIsFound
<1>9. NothingRiskyPasses'
  BY <1>4, <1>5, <1>7 DEF NothingRiskyPasses
<1> QED BY <1>6, <1>8, <1>9 DEF PermissionsInv

LEMMA GoOnKeeps == PermissionsInv /\ GoOn => PermissionsInv'
<1> SUFFICES ASSUME PermissionsInv, GoOn PROVE PermissionsInv'
  OBVIOUS
<1>1. ThreadShape
  BY DEF PermissionsInv
<1>2. NoApproval \in [gate : GateNames, approved : BOOLEAN] /\ NoReply \in [form : Forms, approved : BOOLEAN]
  BY DEF NoApproval, NoReply, GateNames, Forms
<1>3. ThreadShape'
  BY <1>1, <1>2 DEF ThreadShape, GoOn
<1>4. thread'.at = "ready" /\ thread'.answer = NoReply
  BY <1>1 DEF ThreadShape, GoOn
<1>5. ShownIsFound' /\ NothingRiskyPasses'
  BY <1>4 DEF ShownIsFound, NothingRiskyPasses
<1> QED BY <1>3, <1>5 DEF PermissionsInv

\* The inductive invariant holds in every reachable state of a gated thread.
THEOREM PermissionsInvariance == PermissionsSpec => []PermissionsInv
<1>1. PermissionsInv /\ [PermissionsNext]_thread => PermissionsInv'
  <2> SUFFICES ASSUME PermissionsInv, [PermissionsNext]_thread PROVE PermissionsInv'
    OBVIOUS
  <2>1. ASSUME NEW action \in Actions, Propose(action) PROVE PermissionsInv'
    BY <2>1, ProposeKeeps
  <2>2. CASE RunGate
    BY <2>2, RunGateKeeps
  <2>3. ASSUME NEW reply \in Replies, ResumeGate(reply) PROVE PermissionsInv'
    BY <2>3, ResumeGateKeeps
  <2>4. CASE GoOn
    BY <2>4, GoOnKeeps
  <2>5. CASE UNCHANGED thread
    BY <2>5 DEF PermissionsInv, ThreadShape, ShownIsFound, NothingRiskyPasses, Found, Trips
  <2> QED BY <2>1, <2>2, <2>3, <2>4, <2>5 DEF PermissionsNext
<1> QED BY <1>1, PermissionsStart, PTL DEF PermissionsSpec

\* What trips a gate of high risk is shown as such: its gate stands first.
LEMMA FirstIsGravest == PermissionsInv => GravestAsked
<1> SUFFICES ASSUME PermissionsInv, thread.at = "paused", NEW i \in DOMAIN Gates,
                    Trips(Gates[i]), Risk(Gates[i]) = "high"
             PROVE  Risk(thread.shown) = "high"
  BY DEF GravestAsked
<1>1. Gates[i] = "write" /\ Gates[1] = "write"
  BY DEF Risk, Gates
<1>2. Found = "write"
  BY <1>1, FirstGateFound DEF Found, Trips
<1>3. thread.shown = "write"
  BY <1>2 DEF PermissionsInv, ShownIsFound
<1> QED BY <1>3 DEF Risk

\* The gates (permissions/graph.py, orchestrator/graph.py gate_node): whatever a
\* gate objects to is behind the gates only with a person's consent, and what the
\* person is asked is the gravest of the objections.
THEOREM PermissionsHold == PermissionsSpec => []PermissionsSound
<1>1. PermissionsInv => PermissionsSound
  BY FirstIsGravest DEF PermissionsInv, PermissionsSound
<1> QED BY <1>1, PermissionsInvariance, PTL

-----------------------------------------------------------------------------
(***************************************************************************)
(* The caches.  That only the least recently used entry is evicted is      *)
(* about the past of every entry; what an entry's place in the store says  *)
(* of that past is the invariant: whatever stands behind it was used since *)
(* it was.                                                                 *)
(***************************************************************************)

Entries == [key : Questions, value : Nat, expires : Nat]
Decisions == [question : Questions, at : Nat]

\* An entry is the last decision on its question there is.
Latest(e, dec) ==
  /\ e.value \in DOMAIN dec /\ dec[e.value].question = e.key
  /\ e.expires = dec[e.value].at + TimeToLive
  /\ \A j \in DOMAIN dec : dec[j].question = e.key => dec[j].at <= dec[e.value].at

\* The entries stand in the order in which they were used last.
UsedInOrder(s, used) ==
  \A i, j \in DOMAIN s : i < j =>
    /\ s[i].key # s[j].key
    /\ s[i].key \in DOMAIN used /\ s[j].key \in used[s[i].key]

CacheShape ==
  /\ store \in Seq(Entries) /\ Len(store) <= MaxSize
  /\ clock \in Nat
  /\ decided \in Seq(Decisions)
  /\ \A j \in DOMAIN decided : decided[j].at <= clock
  /\ \A q \in DOMAIN since :
       /\ IsFiniteSet(since[q])
       /\ \E j \in DOMAIN decided : decided[j].question = q
  /\ answer # << >> => answer[2] \in DOMAIN decided

StoreInOrder ==
  /\ \A i \in DOMAIN store : Latest(store[i], decided) /\ store[i].key \in DOMAIN since
  /\ UsedInOrder(store, since)

\* What is not in the store was pushed out by others, or has expired.
Expired(q, dec, now) == \A j \in DOMAIN dec : dec[j].question = q => now >= dec[j].at + TimeToLive
GoneWithCause ==
  \A q \in DOMAIN since :
    Held(q) = {} => Cardinality(since[q]) >= MaxSize \/ Expired(q, decided, clock)

DecisionsInv == CacheShape /\ StoreInOrder /\ GoneWithCause /\ DecisionsFresh

\* A task that waits for the model knows which texts it has asked for, and that
\* these are all it still needs.
Asking(its) == its.doing = "ask" /\ its.question \in Questions
Embedding(its) ==
  /\ its.doing = "embed"
  /\ its.texts \in Seq(Texts) /\ its.misses \in Seq(Texts)
  /\ \A x \in DOMAIN its.hits : its.hits[x] = x
  /\ Range(its.texts) \ DOMAIN its.hits \subseteq Range(its.misses)

TasksKnow ==
  /\ DOMAIN asker = Askers
  /\ \A t \in Askers : asker[t] = Idle \/ Asking(asker[t]) \/ Embedding(asker[t])

EmbeddingsInv == DOMAIN vectors \subseteq Texts /\ EmbeddingsAligned

CachesInv == DecisionsInv /\ TasksKnow /\ EmbeddingsInv

-----------------------------------------------------------------------------
\* Lemmas about lists of entries.

\* The entries of t are some of those of s, in the same order.
Drawn(t, s) ==
  /\ t \in Seq(Entries) /\ Len(t) <= Len(s)
  /\ \A j \in DOMAIN t : \E a \in DOMAIN s : t[j] = s[a]
  /\ \A j, k \in DOMAIN t : j < k =>
       \E a, b \in DOMAIN s : a < b /\ t[j] = s[a] /\ t[k] = s[b]

LEMMA DrawnInOrder ==
  ASSUME NEW s, NEW t, NEW used, Drawn(t, s), UsedInOrder(s, used)
  PROVE  UsedInOrder(t, used)
<1> SUFFICES ASSUME NEW i \in DOMAIN t, NEW j \in DOMAIN t, i < j
             PROVE  /\ t[i].key # t[j].key
                    /\ t[i].key \in DOMAIN used /\ t[j].key \in used[t[i].key]
  BY DEF UsedInOrder
<1>1. PICK a \in DOMAIN s, b \in DOMAIN s : a < b /\ t[i] = s[a] /\ t[j] = s[b]
  BY DEF Drawn
<1> QED BY <1>1 DEF UsedInOrder

\* Without an entry: the others stay, in their order.
LEMMA OthersDrawn ==
  ASSUME store \in Seq(Entries), NEW q,
         \A i, j \in DOMAIN store : store[i].key = store[j].key => i = j
  PROVE  /\ Drawn(Others(q), store)
         /\ \A j \in DOMAIN Others(q) : Others(q)[j].key # q
         /\ \A i \in DOMAIN store : store[i].key # q =>
              \E j \in DOMAIN Others(q) : Others(q)[j] = store[i]
         /\ Held(q) # {} => Len(Others(q)) < Len(store)
<1>1. CASE Held(q) = {}
  <2>1. Others(q) = store /\ \A i \in DOMAIN store : store[i].key # q
    BY <1>1 DEF Others, Held
  <2>2. Drawn(store, store)
    BY DEF Drawn
  <2> QED BY <1>1, <2>1, <2>2
<1>2. CASE Held(q) # {}
  <2> DEFINE p == Place(q)
             n == Len(store)
             rest == Others(q)
             At(j) == IF j < p THEN j ELSE j + 1
  <2>1. p \in Held(q)
    BY <1>2 DEF Place
  <2>2. p \in 1 .. n /\ store[p].key = q /\ n \in Nat /\ DOMAIN store = 1 .. n
    BY <2>1 DEF Held
  <2>3. rest = SubSeq(store, 1, p - 1) \o SubSeq(store, p + 1, n)
    BY <1>2 DEF Others, RemoveAt
  <2> HIDE DEF p, n, rest
  <2>4. /\ SubSeq(store, 1, p - 1) \in Seq(Entries) /\ Len(SubSeq(store, 1, p - 1)) = p - 1
        /\ \A j \in 1 .. p - 1 : SubSeq(store, 1, p - 1)[j] = store[j]
    BY <2>2 DEF n
  <2>5. /\ SubSeq(store, p + 1, n) \in Seq(Entries) /\ Len(SubSeq(store, p + 1, n)) = n - p
        /\ \A j \in 1 .. n - p : SubSeq(store, p + 1, n)[j] = store[p + j]
    <3>1. p + 1 \in 1 .. Len(store) + 1 /\ n \in (p + 1) - 1 .. Len(store)
      BY <2>2 DEF n
    <3>2. n - (p + 1) + 1 = n - p /\ \A j \in 1 .. n - p : (p + 1) + j - 1 = p + j
      BY <2>2
    <3> QED BY <3>1, <3>2, SubSeqProperties
  <2>6. rest \in Seq(Entries) /\ Len(rest) = n - 1 /\ DOMAIN rest = 1 .. n - 1
    BY <2>2, <2>3, <2>4, <2>5
  <2>7. \A j \in 1 .. n - 1 : rest[j] = store[At(j)] /\ At(j) \in 1 .. n /\ At(j) # p
    <3> SUFFICES ASSUME NEW j \in 1 .. n - 1
                 PROVE  rest[j] = store[At(j)] /\ At(j) \in 1 .. n /\ At(j) # p
      OBVIOUS
    <3>1. CASE j < p
      BY <2>2, <2>3, <2>4, <2>5, <3>1
    <3>2. CASE ~(j < p)
      <4>1. j - (p - 1) \in 1 .. n - p /\ p + (j - (p - 1)) = j + 1
        BY <2>2, <3>2
      <4>2. rest[j] = SubSeq(store, p + 1, n)[j - (p - 1)]
        <5> DEFINE front == SubSeq(store, 1, p - 1)
                   back == SubSeq(store, p + 1, n)
        <5>1. /\ j \in 1 .. (p - 1) + (n - p) /\ ~(j <= p - 1)
              /\ front \in Seq(Entries) /\ back \in Seq(Entries)
              /\ Len(front) = p - 1 /\ Len(back) = n - p /\ rest = front \o back
          BY <2>2, <2>3, <2>4, <2>5, <3>2
        <5> HIDE DEF front, back
        <5>2. \A i \in 1 .. Len(front) + Len(back) :
                (front \o back)[i] = IF i <= Len(front) THEN front[i] ELSE back[i - Len(front)]
          BY <5>1, ConcatProperties
        <5>3. rest[j] = back[j - (p - 1)]
          BY <5>1, <5>2
        <5> QED BY <5>3 DEF back
      <4>3. rest[j] = store[j + 1]
        BY <2>5, <4>1, <4>2
      <4> QED BY <2>2, <3>2, <4>3
    <3> QED BY <3>1, <3>2
  <2>8. \A j, k \in 1 .. n - 1 : j < k => At(j) < At(k)
    BY <2>2
  <2>9. ASSUME NEW i \in 1 .. n, i # p PROVE \E j \in 1 .. n - 1 : At(j) = i
    <3>1. CASE i < p
      BY <2>2, <3>1
    <3>2. CASE ~(i < p)
      <4>1. i - 1 \in 1 .. n - 1 /\ At(i - 1) = i
        BY <2>2, <2>9, <3>2
      <4> QED BY <4>1
    <3> QED BY <3>1, <3>2
  <2> HIDE DEF At
  <2>10. Drawn(rest, store)
    <3>1. Len(rest) <= Len(store)
      BY <2>2, <2>6 DEF n
    <3>2. \A j \in DOMAIN rest : \E a \in DOMAIN store : rest[j] = store[a]
      BY <2>2, <2>6, <2>7
    <3>3. ASSUME NEW j \in DOMAIN rest, NEW k \in DOMAIN rest, j < k
          PROVE  \E a, b \in DOMAIN store : a < b /\ rest[j] = store[a] /\ rest[k] = store[b]
      <4>1. /\ At(j) \in DOMAIN store /\ At(k) \in DOMAIN store
            /\ rest[j] = store[At(j)] /\ rest[k] = store[At(k)]
        BY <2>2, <2>6, <2>7
      <4>2. At(j) < At(k)
        BY <2>6, <2>8, <3>3
      <4> QED BY <4>1, <4>2
    <3> QED BY <2>6, <3>1, <3>2, <3>3 DEF Drawn
  <2>11. ASSUME NEW j \in DOMAIN rest PROVE rest[j].key # q
    <3>1. rest[j] = store[At(j)] /\ At(j) \in 1 .. n /\ At(j) # p
      BY <2>6, <2>7
    <3> QED BY <2>2, <3>1
  <2>12. \A i \in DOMAIN store : store[i].key # q => \E j \in DOMAIN rest : rest[j] = store[i]
    BY <2>2, <2>6, <2>7, <2>9
  <2> QED BY <2>2, <2>6, <2>10, <2>11, <2>12 DEF rest, n
<1> QED BY <1>1, <1>2

LEMMA KeysApart ==
  ASSUME NEW s \in Seq(Entries), NEW used, UsedInOrder(s, used)
  PROVE  \A i, j \in DOMAIN s : s[i].key = s[j].key => i = j
<1>1. \A i, j \in DOMAIN s : i < j => s[i].key # s[j].key
  BY DEF UsedInOrder
<1>2. \A i, j \in DOMAIN s : i = j \/ i < j \/ j < i
  OBVIOUS
<1> QED BY <1>1, <1>2

\* The entry used now goes to the end, and has been used since any other.
LEMMA UsedLast ==
  ASSUME NEW s \in Seq(Entries), NEW e \in Entries, UsedInOrder(s, since),
         \A i \in DOMAIN s : s[i].key # e.key /\ s[i].key \in DOMAIN since
  PROVE  /\ Append(s, e) \in Seq(Entries) /\ Len(Append(s, e)) = Len(s) + 1
         /\ \A i \in DOMAIN s : Append(s, e)[i] = s[i]
         /\ Append(s, e)[Len(s) + 1] = e
         /\ DOMAIN Append(s, e) = 1 .. Len(s) + 1 /\ DOMAIN s = 1 .. Len(s)
         /\ UsedInOrder(Append(s, e), Used(e.key))
<1> DEFINE n == Len(s)
           with == Append(s, e)
           used == Used(e.key)
<1>1. /\ with \in Seq(Entries) /\ Len(with) = n + 1 /\ n \in Nat
      /\ \A i \in 1 .. n : with[i] = s[i]
      /\ with[n + 1] = e
      /\ DOMAIN with = 1 .. n + 1 /\ DOMAIN s = 1 .. n
  OBVIOUS
<1>2. \A k \in DOMAIN since : k # e.key => k \in DOMAIN used /\ used[k] = since[k] \cup {e.key}
  BY DEF Used
<1> HIDE DEF n, with, used
<1>3. ASSUME NEW i \in DOMAIN with, NEW j \in DOMAIN with, i < j
      PROVE  /\ with[i].key # with[j].key
             /\ with[i].key \in DOMAIN used /\ with[j].key \in used[with[i].key]
  <2>1. i \in 1 .. n
    BY <1>1, <1>3
  <2>2. /\ s[i].key \in DOMAIN used /\ with[i] = s[i]
        /\ used[s[i].key] = since[s[i].key] \cup {e.key}
    BY <1>1, <1>2, <2>1
  <2>3. CASE j = n + 1
    BY <1>1, <2>1, <2>2, <2>3
  <2>4. CASE j # n + 1
    <3>1. j \in 1 .. n
      BY <1>1, <1>3, <2>4
    <3>2. s[i].key # s[j].key /\ s[j].key \in since[s[i].key]
      BY <1>1, <1>3, <2>1, <3>1 DEF UsedInOrder
    <3> QED BY <1>1, <2>2, <3>1, <3>2
  <2> QED BY <2>3, <2>4
<1>4. UsedInOrder(with, used)
  BY <1>3 DEF UsedInOrder
<1> QED BY <1>1, <1>4 DEF n, with, used

\* Without the first entry.
LEMMA TailDrawn ==
  ASSUME NEW s \in Seq(Entries), s # << >>
  PROVE  /\ Drawn(Tail(s), s) /\ Len(Tail(s)) = Len(s) - 1
         /\ \A i \in 2 .. Len(s) : Tail(s)[i - 1] = s[i] /\ i - 1 \in DOMAIN Tail(s)
<1> DEFINE n == Len(s)
           rest == Tail(s)
<1>1. /\ n \in Nat \ {0} /\ DOMAIN s = 1 .. n /\ DOMAIN rest = 1 .. n - 1
      /\ rest \in Seq(Entries) /\ Len(rest) = n - 1
      /\ \A i \in 1 .. n - 1 : rest[i] = s[i + 1]
  OBVIOUS
<1> HIDE DEF n, rest
<1>2. \A i \in 1 .. n - 1 : i + 1 \in 1 .. n
  BY <1>1
<1>3. \A i, j \in 1 .. n - 1 : i < j => i + 1 < j + 1
  BY <1>1
<1>4. \A i \in 2 .. n : i - 1 \in 1 .. n - 1 /\ (i - 1) + 1 = i
  BY <1>1
<1>5. Drawn(rest, s)
  <2>1. Len(rest) <= Len(s)
    BY <1>1 DEF n
  <2>2. \A j \in DOMAIN rest : \E a \in DOMAIN s : rest[j] = s[a]
    BY <1>1, <1>2
  <2>3. ASSUME NEW j \in DOMAIN rest, NEW k \in DOMAIN rest, j < k
        PROVE  \E a, b \in DOMAIN s : a < b /\ rest[j] = s[a] /\ rest[k] = s[b]
    <3>1. /\ j + 1 \in DOMAIN s /\ k + 1 \in DOMAIN s /\ j + 1 < k + 1
          /\ rest[j] = s[j + 1] /\ rest[k] = s[k + 1]
      BY <1>1, <1>2, <1>3, <2>3
    <3> QED BY <3>1
  <2> QED BY <1>1, <2>1, <2>2, <2>3 DEF Drawn
<1>6. \A i \in 2 .. n : rest[i - 1] = s[i] /\ i - 1 \in DOMAIN rest
  BY <1>1, <1>4
<1> QED BY <1>1, <1>5, <1>6 DEF n, rest

\* All behind the first entry were used since it was.
LEMMA FirstUsedLongAgo ==
  ASSUME NEW s \in Seq(Entries), s # << >>, NEW used, UsedInOrder(s, used),
         IsFiniteSet(used[s[1].key])
  PROVE  Cardinality(used[s[1].key]) >= Len(s) - 1
<1> DEFINE n == Len(s)
           behind == {s[i].key : i \in 2 .. n}
           Key == [i \in 2 .. n |-> s[i].key]
<1>1. n \in Nat \ {0} /\ DOMAIN s = 1 .. n /\ 2 .. n \subseteq DOMAIN s /\ 1 \in DOMAIN s
  OBVIOUS
<1>2. behind \in SUBSET used[s[1].key]
  <2> SUFFICES ASSUME NEW i \in 2 .. n PROVE s[i].key \in used[s[1].key]
    OBVIOUS
  <2>1. 1 < i /\ i \in DOMAIN s
    BY <1>1
  <2> QED BY <1>1, <2>1 DEF UsedInOrder
<1>3. \A i, j \in 2 .. n : s[i].key = s[j].key => i = j
  BY <1>1, KeysApart
<1>4. Key \in Bijection(2 .. n, behind)
  BY <1>3 DEF Bijection, Injection, Surjection, IsInjective
<1>5. IsFiniteSet(2 .. n) /\ Cardinality(2 .. n) = n - 1
  <2>1. 2 \in Int /\ n \in Int
    BY <1>1
  <2>2. IsFiniteSet(2 .. n) /\ Cardinality(2 .. n) = IF 2 > n THEN 0 ELSE n - 2 + 1
    BY <2>1, FS_Interval
  <2> QED BY <1>1, <2>2
<1>6. IsFiniteSet(behind) /\ Cardinality(behind) = n - 1
  <2> HIDE DEF Key, behind
  <2>1. ExistsBijection(2 .. n, behind)
    BY <1>4 DEF ExistsBijection
  <2> QED BY <1>5, <2>1, FS_Bijection
<1>7. Cardinality(behind) <= Cardinality(used[s[1].key])
  BY <1>2, FS_Subset
<1>8. Cardinality(used[s[1].key]) \in Nat
  BY FS_CardinalityType
<1> QED BY <1>1, <1>6, <1>7, <1>8

-----------------------------------------------------------------------------
\* The steps of the retrieval cache.

\* Where the store loses entries only, and nothing else changes but the clock, it
\* stays in order.
LEMMA StoreShrinks ==
  ASSUME CacheShape, StoreInOrder, NEW s, Drawn(s, store)
  PROVE  /\ s \in Seq(Entries) /\ Len(s) <= MaxSize
         /\ \A i \in DOMAIN s : Latest(s[i], decided) /\ s[i].key \in DOMAIN since
         /\ UsedInOrder(s, since)
<1>1. s \in Seq(Entries) /\ Len(s) <= MaxSize
  <2>1. s \in Seq(Entries) /\ Len(s) <= Len(store) /\ Len(store) <= MaxSize
        /\ store \in Seq(Entries)
    BY DEF Drawn, CacheShape
  <2>2. Len(s) \in Nat /\ Len(store) \in Nat /\ MaxSize \in Nat
    BY <2>1, CachesAssumption
  <2> QED BY <2>1, <2>2
<1>2. ASSUME NEW i \in DOMAIN s PROVE Latest(s[i], decided) /\ s[i].key \in DOMAIN since
  <2>1. PICK a \in DOMAIN store : s[i] = store[a]
    BY DEF Drawn
  <2> QED BY <2>1 DEF StoreInOrder
<1>3. UsedInOrder(s, since)
  BY DrawnInOrder DEF StoreInOrder
<1> QED BY <1>1, <1>2, <1>3

\* A question's entries are no more than one, and its place is that one's.
LEMMA EntryFound ==
  ASSUME CacheShape, StoreInOrder, NEW q, Held(q) # {}
  PROVE  /\ Place(q) \in DOMAIN store /\ Entry(q) = store[Place(q)]
         /\ Entry(q) \in Entries /\ Entry(q).key = q
         /\ Latest(Entry(q), decided) /\ q \in DOMAIN since
<1>1. Place(q) \in Held(q)
  BY DEF Place
<1>2. Place(q) \in DOMAIN store /\ store[Place(q)].key = q
  BY <1>1 DEF Held
<1>3. Entry(q) = store[Place(q)] /\ store \in Seq(Entries)
  BY DEF Entry, CacheShape
<1> QED BY <1>2, <1>3 DEF StoreInOrder

LEMMA StoreKeysApart ==
  ASSUME CacheShape, StoreInOrder
  PROVE  \A i, j \in DOMAIN store : store[i].key = store[j].key => i = j
BY KeysApart DEF CacheShape, StoreInOrder

LEMMA DecisionsDated ==
  ASSUME CacheShape, NEW j \in DOMAIN decided
  PROVE  /\ decided[j] \in Decisions /\ decided[j].question \in Questions
         /\ decided[j].at \in Nat /\ decided[j].at <= clock
<1>1. decided \in Seq(Decisions) /\ decided[j].at <= clock
  BY DEF CacheShape
<1>2. decided[j] \in Decisions
  BY <1>1
<1> QED BY <1>1, <1>2 DEF Decisions

\* What is gone stays gone with cause while others are used and time goes by.
LEMMA StillGone ==
  ASSUME CacheShape, GoneWithCause, NEW q \in DOMAIN since, Held(q) = {},
         NEW more, IsFiniteSet(more), since[q] \subseteq more,
         NEW now \in Nat, clock <= now
  PROVE  Cardinality(more) >= MaxSize \/ Expired(q, decided, now)
<1>1. CASE Cardinality(since[q]) >= MaxSize
  <2>1. Cardinality(since[q]) <= Cardinality(more)
    BY FS_Subset
  <2>2. /\ Cardinality(more) \in Nat /\ Cardinality(since[q]) \in Nat /\ MaxSize \in Nat
    BY FS_CardinalityType, CachesAssumption DEF CacheShape
  <2> QED BY <1>1, <2>1, <2>2
<1>2. CASE Expired(q, decided, clock)
  <2>1. ASSUME NEW j \in DOMAIN decided, decided[j].question = q
        PROVE  now >= decided[j].at + TimeToLive
    <3>1. clock >= decided[j].at + TimeToLive
      BY <1>2, <2>1 DEF Expired
    <3>2. decided[j].at \in Nat /\ clock \in Nat /\ TimeToLive \in Nat
      BY CachesAssumption, DecisionsDated DEF CacheShape
    <3> QED BY <3>1, <3>2
  <2> QED BY <2>1 DEF Expired
<1> QED BY <1>1, <1>2 DEF GoneWithCause

LEMMA CacheStart == CachesInit => DecisionsInv
<1> SUFFICES ASSUME CachesInit PROVE DecisionsInv
  OBVIOUS
<1>1. /\ store = << >> /\ clock = 0 /\ decided = << >> /\ since = << >> /\ answer = << >>
  BY DEF CachesInit
<1>2. CacheShape
  BY <1>1, CachesAssumption DEF CacheShape
<1>3. StoreInOrder
  BY <1>1 DEF StoreInOrder, UsedInOrder
<1>4. GoneWithCause /\ DecisionsFresh
  BY <1>1 DEF GoneWithCause, DecisionsFresh
<1> QED BY <1>2, <1>3, <1>4 DEF DecisionsInv

\* Time passes: more may have expired.
LEMMA TickKeeps == DecisionsInv /\ Tick => DecisionsInv'
<1> SUFFICES ASSUME DecisionsInv, Tick PROVE DecisionsInv'
  OBVIOUS
<1>1. CacheShape /\ StoreInOrder /\ GoneWithCause /\ DecisionsFresh
  BY DEF DecisionsInv
<1>2. /\ clock' = clock + 1 /\ clock \in Nat
      /\ store' = store /\ decided' = decided /\ since' = since /\ answer' = answer
  BY <1>1 DEF Tick, CacheShape
<1>3. \A j \in DOMAIN decided : decided[j].at <= clock + 1
  <2>1. \A j \in DOMAIN decided : decided[j].at \in Nat /\ decided[j].at <= clock
    BY <1>1, DecisionsDated
  <2> QED BY <1>2, <2>1
<1>4. CacheShape'
  BY <1>1, <1>2, <1>3 DEF CacheShape
<1>5. StoreInOrder' /\ DecisionsFresh'
  BY <1>1, <1>2 DEF StoreInOrder, DecisionsFresh
<1>6. GoneWithCause'
  <2> SUFFICES ASSUME NEW q \in DOMAIN since', Held(q)' = {}
               PROVE  Cardinality(since'[q]) >= MaxSize \/ Expired(q, decided', clock')
    BY DEF GoneWithCause
  <2>1. q \in DOMAIN since /\ Held(q) = {} /\ since'[q] = since[q]
    BY <1>2 DEF Held
  <2>2. IsFiniteSet(since[q]) /\ clock' \in Nat /\ clock <= clock'
    BY <1>1, <1>2, <2>1 DEF CacheShape
  <2>3. Cardinality(since[q]) >= MaxSize \/ Expired(q, decided, clock')
    BY <1>1, <2>1, <2>2, StillGone
  <2> QED BY <1>2, <2>1, <2>3
<1> QED BY <1>4, <1>5, <1>6 DEF DecisionsInv

\* A question's entry is dropped, being expired or invalid.
LEMMA DropKeeps ==
  ASSUME DecisionsInv, NEW q, store' = Others(q),
         UNCHANGED <<clock, decided, answer>>,
         \/ since' = since /\ (Held(q) # {} => clock >= Entry(q).expires)
         \/ since' = Untouched({q})
  PROVE  DecisionsInv'
<1>1. CacheShape /\ StoreInOrder /\ GoneWithCause /\ DecisionsFresh
  BY DEF DecisionsInv
<1>2. /\ Drawn(store', store) /\ \A j \in DOMAIN store' : store'[j].key # q
      /\ \A i \in DOMAIN store : store[i].key # q => \E j \in DOMAIN store' : store'[j] = store[i]
  BY <1>1, StoreKeysApart, OthersDrawn DEF CacheShape
<1>3. /\ store' \in Seq(Entries) /\ Len(store') <= MaxSize
      /\ \A i \in DOMAIN store' : Latest(store'[i], decided) /\ store'[i].key \in DOMAIN since
      /\ UsedInOrder(store', since)
  BY <1>1, <1>2, StoreShrinks
<1>4. /\ \A p \in DOMAIN since' : p \in DOMAIN since /\ since'[p] = since[p]
      /\ \A p \in DOMAIN since : p # q => p \in DOMAIN since'
      /\ clock' = clock /\ decided' = decided /\ answer' = answer
  BY DEF Untouched
<1>5. CacheShape'
  BY <1>1, <1>3, <1>4 DEF CacheShape
<1>6. UsedInOrder(store', since')
  BY <1>2, <1>3, <1>4 DEF UsedInOrder
<1>7. StoreInOrder'
  BY <1>2, <1>3, <1>4, <1>6 DEF StoreInOrder
<1>8. GoneWithCause'
  <2> SUFFICES ASSUME NEW p \in DOMAIN since', Held(p)' = {}
               PROVE  Cardinality(since'[p]) >= MaxSize \/ Expired(p, decided, clock)
    BY <1>4 DEF GoneWithCause
  <2>1. p \in DOMAIN since /\ since'[p] = since[p]
    BY <1>4
  <2>2. CASE Held(p) = {}
    BY <1>1, <2>1, <2>2 DEF GoneWithCause
  <2>3. CASE Held(p) # {}
    <3>1. p = q
      BY <1>2, <2>3 DEF Held
    <3>2. since' = since
      BY <3>1 DEF Untouched
    <3>3. clock >= Entry(q).expires
      <4>1. since' # Untouched({q})
        BY <3>1 DEF Untouched
      <4> QED BY <2>3, <3>1, <4>1
    <3>4. Latest(Entry(q), decided) /\ Entry(q).key = q
      BY <1>1, <2>3, <3>1, EntryFound
    <3>5. ASSUME NEW j \in DOMAIN decided, decided[j].question = q
          PROVE  clock >= decided[j].at + TimeToLive
      <4>1. /\ decided[j].at <= decided[Entry(q).value].at /\ Entry(q).value \in DOMAIN decided
            /\ Entry(q).expires = decided[Entry(q).value].at + TimeToLive
        BY <3>4, <3>5 DEF Latest
      <4>2. /\ decided[j].at \in Nat /\ decided[Entry(q).value].at \in Nat
            /\ clock \in Nat /\ TimeToLive \in Nat
        BY <1>1, <4>1, DecisionsDated, CachesAssumption DEF CacheShape
      <4> QED BY <3>3, <4>1, <4>2
    <3> QED BY <3>1, <3>5 DEF Expired
  <2> QED BY <2>2, <2>3
<1>9. DecisionsFresh'
  BY <1>1, <1>4 DEF DecisionsFresh
<1> QED BY <1>5, <1>7, <1>8, <1>9 DEF DecisionsInv

\* The store is emptied, and nobody remembers what was used.
LEMMA ClearKeeps == DecisionsInv /\ Clear => DecisionsInv'
<1> SUFFICES ASSUME DecisionsInv, Clear PROVE DecisionsInv'
  OBVIOUS
<1>1. CacheShape /\ DecisionsFresh
  BY DEF DecisionsInv
<1>2. /\ store' = << >> /\ since' = << >> /\ DOMAIN since' = {}
      /\ clock' = clock /\ decided' = decided /\ answer' = answer
  BY DEF Clear
<1>3. CacheShape'
  BY <1>1, <1>2, CachesAssumption DEF CacheShape
<1>4. StoreInOrder'
  BY <1>2 DEF StoreInOrder, UsedInOrder
<1>5. GoneWithCause' /\ DecisionsFresh'
  BY <1>1, <1>2 DEF GoneWithCause, DecisionsFresh
<1> QED BY <1>3, <1>4, <1>5 DEF DecisionsInv

\* An entry that lives is used: it goes to the end, and is the answer.
LEMMA HitKeeps ==
  ASSUME DecisionsInv, NEW q \in Questions, Held(q) # {}, clock < Entry(q).expires,
         store' = Append(Others(q), Entry(q)), since' = Used(q),
         answer' = <<q, Entry(q).value, clock>>, UNCHANGED <<clock, decided>>
  PROVE  DecisionsInv'
<1> DEFINE s == Others(q)
           e == Entry(q)
<1>1. CacheShape /\ StoreInOrder /\ GoneWithCause
  BY DEF DecisionsInv
<1>2. /\ Drawn(s, store) /\ Len(s) < Len(store) /\ \A j \in DOMAIN s : s[j].key # q
      /\ \A i \in DOMAIN store : store[i].key # q => \E j \in DOMAIN s : s[j] = store[i]
  BY <1>1, StoreKeysApart, OthersDrawn DEF CacheShape
<1>3. e \in Entries /\ e.key = q /\ Latest(e, decided) /\ q \in DOMAIN since
  BY <1>1, EntryFound
<1> HIDE DEF s, e
<1>4. /\ s \in Seq(Entries)
      /\ \A i \in DOMAIN s : Latest(s[i], decided) /\ s[i].key \in DOMAIN since
      /\ UsedInOrder(s, since)
  BY <1>1, <1>2, StoreShrinks
<1>5. store' = Append(s, e) /\ since' = Used(e.key)
  BY <1>3 DEF s, e
<1>6. /\ store' \in Seq(Entries) /\ Len(store') = Len(s) + 1
      /\ \A i \in DOMAIN s : store'[i] = s[i]
      /\ store'[Len(s) + 1] = e
      /\ DOMAIN store' = 1 .. Len(s) + 1 /\ DOMAIN s = 1 .. Len(s)
      /\ UsedInOrder(store', since')
  BY <1>2, <1>3, <1>4, <1>5, UsedLast
<1>7. /\ DOMAIN since' = {q} \cup DOMAIN since
      /\ since'[q] = {}
      /\ \A p \in DOMAIN since : p # q => since'[p] = since[p] \cup {q}
      /\ clock' = clock /\ decided' = decided
  BY DEF Used
<1>8. CacheShape'
  <2>1. Len(store') <= MaxSize
    BY <1>1, <1>2, <1>4, <1>6, CachesAssumption DEF CacheShape
  <2>2. ASSUME NEW p \in DOMAIN since'
        PROVE  IsFiniteSet(since'[p]) /\ \E j \in DOMAIN decided : decided[j].question = p
    <3>1. p \in DOMAIN since
      BY <1>3, <1>7
    <3>2. IsFiniteSet(since[p]) /\ \E j \in DOMAIN decided : decided[j].question = p
      BY <1>1, <3>1 DEF CacheShape
    <3>3. IsFiniteSet({}) /\ IsFiniteSet(since[p] \cup {q})
      BY <3>2, FS_EmptySet, FS_AddElement
    <3> QED BY <1>7, <3>1, <3>2, <3>3
  <2>3. answer'[2] \in DOMAIN decided
    BY <1>3 DEF Latest, e
  <2> QED BY <1>1, <1>6, <1>7, <2>1, <2>2, <2>3 DEF CacheShape
<1>9. StoreInOrder'
  <2>1. ASSUME NEW i \in DOMAIN store'
        PROVE  Latest(store'[i], decided) /\ store'[i].key \in DOMAIN since'
    <3>1. i \in DOMAIN s \/ i = Len(s) + 1
      BY <1>4, <1>6
    <3> QED BY <1>3, <1>4, <1>6, <1>7, <3>1
  <2> QED BY <1>6, <1>7, <2>1 DEF StoreInOrder
<1>10. GoneWithCause'
  <2> SUFFICES ASSUME NEW p \in DOMAIN since', Held(p)' = {}
               PROVE  Cardinality(since'[p]) >= MaxSize \/ Expired(p, decided, clock)
    BY <1>7 DEF GoneWithCause
  <2>1. p # q
    <3>1. Len(s) + 1 \in DOMAIN store' /\ store'[Len(s) + 1].key = q
      BY <1>3, <1>4, <1>6
    <3> QED BY <3>1 DEF Held
  <2>2. p \in DOMAIN since /\ since'[p] = since[p] \cup {q}
    BY <1>7, <2>1
  <2>3. Held(p) = {}
    <3> SUFFICES ASSUME NEW i \in DOMAIN store, store[i].key = p PROVE FALSE
      BY DEF Held
    <3>1. PICK j \in DOMAIN s : s[j] = store[i]
      BY <1>2, <2>1
    <3>2. j \in DOMAIN store' /\ store'[j].key = p
      BY <1>4, <1>6, <3>1
    <3> QED BY <3>2 DEF Held
  <2>4. IsFiniteSet(since'[p]) /\ since[p] \subseteq since'[p]
    <3>1. IsFiniteSet(since[p])
      BY <1>1, <2>2 DEF CacheShape
    <3>2. IsFiniteSet(since[p] \cup {q})
      BY <3>1, FS_AddElement
    <3> QED BY <2>2, <3>2
  <2>5. clock \in Nat /\ clock <= clock
    BY <1>1 DEF CacheShape
  <2> QED BY <1>1, <2>2, <2>3, <2>4, <2>5, StillGone
<1>11. DecisionsFresh'
  <2>1. /\ decided[e.value].question = q /\ e.expires = decided[e.value].at + TimeToLive
        /\ clock < e.expires
    BY <1>3 DEF Latest, e
  <2>2. answer' = <<q, e.value, clock>>
    BY DEF e
  <2> QED BY <1>7, <2>1, <2>2 DEF DecisionsFresh
<1> QED BY <1>8, <1>9, <1>10, <1>11 DEF DecisionsInv

\* A decision is the latest on its question, and leaves the others as they were.
LEMMA DecisionAdded ==
  ASSUME CacheShape, NEW q \in Questions,
         decided' = Append(decided, [question |-> q, at |-> clock])
  PROVE  /\ decided' \in Seq(Decisions) /\ Len(decided') = Len(decided) + 1
         /\ Len(decided') \in DOMAIN decided'
         /\ decided'[Len(decided')] = [question |-> q, at |-> clock]
         /\ \A j \in DOMAIN decided : j \in DOMAIN decided' /\ decided'[j] = decided[j]
         /\ \A j \in DOMAIN decided' : j \in DOMAIN decided \/ j = Len(decided')
         /\ \A j \in DOMAIN decided' : decided'[j].at <= clock
<1> DEFINE d == [question |-> q, at |-> clock]
           n == Len(decided)
<1>1. d \in Decisions /\ d.question = q /\ d.at = clock /\ clock \in Nat
  BY DEF CacheShape, Decisions
<1>2. decided \in Seq(Decisions) /\ \A j \in DOMAIN decided : decided[j].at <= clock
  BY DEF CacheShape
<1>3. decided' = Append(decided, d)
  OBVIOUS
<1> HIDE DEF d
<1>4. /\ decided' \in Seq(Decisions) /\ Len(decided') = n + 1 /\ n \in Nat
      /\ DOMAIN decided = 1 .. n /\ DOMAIN decided' = 1 .. n + 1
      /\ decided'[n + 1] = d
      /\ \A j \in 1 .. n : decided'[j] = decided[j]
  BY <1>1, <1>2, <1>3
<1> HIDE DEF n
<1>5. \A j \in 1 .. n + 1 : j \in 1 .. n \/ j = n + 1
  BY <1>4
<1>6. n + 1 \in 1 .. n + 1 /\ 1 .. n \subseteq 1 .. n + 1 /\ clock <= clock
  BY <1>1, <1>4
<1>7. \A j \in DOMAIN decided' : decided'[j].at <= clock
  BY <1>1, <1>2, <1>4, <1>5, <1>6
<1> QED BY <1>4, <1>5, <1>6, <1>7 DEF d, n

\* A decision is on file: its question has been used last, and what was used first
\* makes room for it.
LEMMA DecideKeeps ==
  ASSUME DecisionsInv, NEW q \in Questions,
         decided' = Append(decided, [question |-> q, at |-> clock]),
         store' = Put(q, Len(decided')), since' = Used(q),
         answer' = <<q, Len(decided'), clock>>, UNCHANGED clock
  PROVE  DecisionsInv'
<1> DEFINE s == Others(q)
           v == Len(decided')
           e == [key |-> q, value |-> v, expires |-> clock + TimeToLive]
           with == Append(s, e)
<1>1. CacheShape /\ StoreInOrder /\ GoneWithCause /\ clock \in Nat /\ TimeToLive \in Nat \ {0}
      /\ MaxSize \in Nat \ {0}
  BY CachesAssumption DEF DecisionsInv, CacheShape
<1>2. /\ decided' \in Seq(Decisions) /\ v \in Nat /\ v \in DOMAIN decided'
      /\ decided'[v] = [question |-> q, at |-> clock]
      /\ \A j \in DOMAIN decided : j \in DOMAIN decided' /\ decided'[j] = decided[j]
      /\ \A j \in DOMAIN decided' : j \in DOMAIN decided \/ j = v
      /\ \A j \in DOMAIN decided' : decided'[j].at <= clock
  <2>1. decided \in Seq(Decisions) /\ Len(decided) + 1 \in Nat
    BY <1>1 DEF CacheShape
  <2> QED BY <1>1, <2>1, DecisionAdded
<1> HIDE DEF v
<1>3. e \in Entries /\ e.key = q /\ e.value = v /\ e.expires = clock + TimeToLive
  BY <1>1, <1>2 DEF Entries
<1>4. store' = IF Len(with) > MaxSize THEN Tail(with) ELSE with
  BY DEF Put, v
<1>5. answer' = <<q, v, clock>>
  BY DEF v
<1> HIDE DEF e
<1>6. /\ Drawn(s, store) /\ \A j \in DOMAIN s : s[j].key # q
      /\ \A i \in DOMAIN store : store[i].key # q => \E j \in DOMAIN s : s[j] = store[i]
  BY <1>1, StoreKeysApart, OthersDrawn DEF CacheShape
<1>7. /\ s \in Seq(Entries) /\ Len(s) <= MaxSize
      /\ \A i \in DOMAIN s : Latest(s[i], decided) /\ s[i].key \in DOMAIN since
      /\ UsedInOrder(s, since)
  BY <1>1, <1>6, StoreShrinks
<1> HIDE DEF s
<1>8. /\ with \in Seq(Entries) /\ Len(with) = Len(s) + 1
      /\ \A i \in DOMAIN s : with[i] = s[i]
      /\ with[Len(s) + 1] = e
      /\ DOMAIN with = 1 .. Len(s) + 1 /\ DOMAIN s = 1 .. Len(s)
      /\ UsedInOrder(with, since')
  BY <1>3, <1>6, <1>7, UsedLast
<1> HIDE DEF with
<1>9. /\ DOMAIN since' = {q} \cup DOMAIN since
      /\ since'[q] = {}
      /\ \A p \in DOMAIN since : p # q => since'[p] = since[p] \cup {q}
  BY DEF Used
<1>10. Len(s) \in Nat /\ with # << >>
  BY <1>7, <1>8
<1>11. ASSUME NEW i \in DOMAIN with
       PROVE  Latest(with[i], decided') /\ with[i].key \in DOMAIN since'
  <2>1. CASE i \in DOMAIN s
    <3>1. with[i] = s[i] /\ s[i].key # q /\ Latest(s[i], decided) /\ s[i].key \in DOMAIN since
      BY <1>6, <1>7, <1>8, <2>1
    <3>2. decided'[v].question = q
      BY <1>2
    <3>3. Latest(s[i], decided')
      BY <1>2, <3>1, <3>2 DEF Latest
    <3> QED BY <1>9, <3>1, <3>3
  <2>2. CASE i = Len(s) + 1
    <3>1. with[i] = e
      BY <1>8, <2>2
    <3>2. decided'[v].question = q /\ decided'[v].at = clock
      BY <1>2
    <3>3. Latest(e, decided')
      BY <1>2, <1>3, <3>2 DEF Latest
    <3> QED BY <1>3, <1>9, <3>1, <3>3
  <2> QED BY <1>8, <1>10, <2>1, <2>2
<1>12. /\ Drawn(store', with)
       /\ store' \in Seq(Entries) /\ Len(store') <= MaxSize
       /\ \A i \in DOMAIN with :
            (i = 1 /\ Len(with) > MaxSize) \/ \E j \in DOMAIN store' : store'[j] = with[i]
  <2>1. CASE Len(with) > MaxSize
    <3>1. store' = Tail(with)
      BY <1>4, <2>1
    <3>2. /\ Drawn(store', with) /\ Len(store') = Len(with) - 1
          /\ \A i \in 2 .. Len(with) : store'[i - 1] = with[i] /\ i - 1 \in DOMAIN store'
      BY <1>8, <1>10, <3>1, TailDrawn
    <3>3. Len(store') <= MaxSize
      BY <1>1, <1>7, <1>8, <1>10, <3>2
    <3>4. \A i \in DOMAIN with : i = 1 \/ i \in 2 .. Len(with)
      BY <1>8, <1>10
    <3>5. store' \in Seq(Entries)
      BY <3>2 DEF Drawn
    <3> QED BY <2>1, <3>2, <3>3, <3>4, <3>5
  <2>2. CASE ~(Len(with) > MaxSize)
    <3>1. store' = with
      BY <1>4, <2>2
    <3>2. Len(with) <= MaxSize
      BY <1>1, <1>8, <1>10, <2>2
    <3>3. Drawn(with, with)
      BY <1>8 DEF Drawn
    <3> QED BY <1>8, <3>1, <3>2, <3>3
  <2> QED BY <2>1, <2>2
<1>13. CacheShape'
  <2>1. ASSUME NEW p \in DOMAIN since'
        PROVE  IsFiniteSet(since'[p]) /\ \E j \in DOMAIN decided' : decided'[j].question = p
    <3>1. CASE p = q
      <4>1. since'[p] = {} /\ IsFiniteSet({})
        BY <1>9, <3>1, FS_EmptySet
      <4>2. v \in DOMAIN decided' /\ decided'[v].question = p
        BY <1>2, <3>1
      <4> QED BY <4>1, <4>2
    <3>2. CASE p # q
      <4>1. p \in DOMAIN since /\ since'[p] = since[p] \cup {q}
        BY <1>9, <3>2
      <4>2. IsFiniteSet(since[p]) /\ \E j \in DOMAIN decided : decided[j].question = p
        BY <1>1, <4>1 DEF CacheShape
      <4>3. IsFiniteSet(since[p] \cup {q})
        BY <4>2, FS_AddElement
      <4> QED BY <1>2, <4>1, <4>2, <4>3
    <3> QED BY <3>1, <3>2
  <2>2. answer'[2] \in DOMAIN decided'
    BY <1>2, <1>5
  <2> QED BY <1>1, <1>2, <1>12, <2>1, <2>2 DEF CacheShape
<1>14. StoreInOrder'
  <2>1. ASSUME NEW i \in DOMAIN store'
        PROVE  Latest(store'[i], decided') /\ store'[i].key \in DOMAIN since'
    <3>1. PICK a \in DOMAIN with : store'[i] = with[a]
      BY <1>12 DEF Drawn
    <3> QED BY <1>11, <3>1
  <2>2. UsedInOrder(store', since')
    BY <1>8, <1>12, DrawnInOrder
  <2> QED BY <2>1, <2>2 DEF StoreInOrder
<1>15. GoneWithCause'
  <2> SUFFICES ASSUME NEW p \in DOMAIN since', Held(p)' = {}
               PROVE  Cardinality(since'[p]) >= MaxSize \/ Expired(p, decided', clock)
    BY DEF GoneWithCause
  <2>1. ASSUME NEW i \in DOMAIN with, with[i].key = p
        PROVE  Cardinality(since'[p]) >= MaxSize
    <3>1. i = 1 /\ Len(with) > MaxSize
      BY <1>12, <2>1 DEF Held
    <3>2. IsFiniteSet(since'[p])
      BY <1>13 DEF CacheShape
    <3>3. Cardinality(since'[with[1].key]) >= Len(with) - 1
      BY <1>8, <1>10, <2>1, <3>1, <3>2, FirstUsedLongAgo
    <3>4. Cardinality(since'[p]) \in Nat
      BY <3>2, FS_CardinalityType
    <3> QED BY <1>1, <1>8, <1>10, <2>1, <3>1, <3>3, <3>4
  <2>2. CASE \E i \in DOMAIN with : with[i].key = p
    BY <2>1, <2>2
  <2>3. CASE \A i \in DOMAIN with : with[i].key # p
    <3>1. Len(s) + 1 \in DOMAIN with /\ with[Len(s) + 1].key = q
      BY <1>3, <1>8, <1>10
    <3>2. p # q /\ p \in DOMAIN since /\ since'[p] = since[p] \cup {q}
      BY <1>9, <2>3, <3>1
    <3>3. Held(p) = {}
      <4> SUFFICES ASSUME NEW i \in DOMAIN store, store[i].key = p PROVE FALSE
        BY DEF Held
      <4>1. PICK j \in DOMAIN s : s[j] = store[i]
        BY <1>6, <3>2
      <4>2. j \in DOMAIN with /\ with[j].key = p
        BY <1>8, <1>10, <4>1
      <4> QED BY <2>3, <4>2
    <3>4. IsFiniteSet(since'[p]) /\ since[p] \subseteq since'[p]
      <4>1. IsFiniteSet(since[p])
        BY <1>1, <3>2 DEF CacheShape
      <4>2. IsFiniteSet(since[p] \cup {q})
        BY <4>1, FS_AddElement
      <4> QED BY <3>2, <4>2
    <3>5. clock <= clock
      BY <1>1
    <3>6. Cardinality(since'[p]) >= MaxSize \/ Expired(p, decided, clock)
      BY <1>1, <3>2, <3>3, <3>4, <3>5, StillGone
    <3>7. decided'[v].question = q
      BY <1>2
    <3>8. Expired(p, decided, clock) => Expired(p, decided', clock)
      BY <1>2, <3>2, <3>7 DEF Expired
    <3> QED BY <3>6, <3>8
  <2> QED BY <2>2, <2>3
<1>16. DecisionsFresh'
  <2>1. decided'[v].question = q /\ clock < decided'[v].at + TimeToLive
    BY <1>1, <1>2
  <2> QED BY <1>5, <2>1 DEF DecisionsFresh
<1> QED BY <1>13, <1>14, <1>15, <1>16 DEF DecisionsInv

-----------------------------------------------------------------------------
\* The steps of the embedding cache.

\* Texts zipped with their own vectors: every text is given its own.
LEMMA ZippedWithItself ==
  ASSUME NEW T, NEW keys \in Seq(T)
  PROVE  /\ DOMAIN Zipped(keys, keys) = Range(keys)
         /\ \A x \in Range(keys) : Zipped(keys, keys)[x] = x
<1>1. DOMAIN Zipped(keys, keys) = Range(keys)
  BY DEF Zipped
<1>2. ASSUME NEW x \in Range(keys) PROVE Zipped(keys, keys)[x] = x
  <2> DEFINE places == {i \in DOMAIN keys : keys[i] = x}
  <2>1. Zipped(keys, keys)[x] = keys[Max(places)]
    BY DEF Zipped
  <2>2. places # {}
    BY DEF Range
  <2>3. places \in SUBSET Int /\ places \in SUBSET (1 .. Len(keys)) /\ Len(keys) \in Int
    OBVIOUS
  <2>4. IsFiniteSet(1 .. Len(keys))
    BY <2>3, FS_Interval
  <2>5. IsFiniteSet(places)
    BY <2>3, <2>4, FS_Subset
  <2>6. Max(places) \in places
    <3> HIDE DEF places
    <3> QED BY <2>2, <2>3, <2>5, FiniteMax
  <2> QED BY <2>1, <2>6
<1> QED BY <1>1, <1>2

\* Every text without a hit is among the misses, and they are texts.
LEMMA MissesCover ==
  ASSUME NEW texts \in Seq(Texts), NEW hits
  PROVE  /\ NewOf(texts, DOMAIN hits) \in Seq(Texts)
         /\ Range(texts) \ DOMAIN hits \subseteq Range(NewOf(texts, DOMAIN hits))
<1>1. \A i \in DOMAIN texts : texts[i] \notin DOMAIN hits =>
        \E n \in DOMAIN NewOf(texts, DOMAIN hits) : NewOf(texts, DOMAIN hits)[n] = texts[i]
  BY NewOfIsNew
<1>2. NewOf(texts, DOMAIN hits) \in Seq(Texts)
  BY NewOfIsNew
<1> QED BY <1>1, <1>2 DEF Range

\* A task goes on to something it knows.
LEMMA TaskGoesOn ==
  ASSUME TasksKnow, NEW t \in Askers, NEW w, w = Idle \/ Asking(w) \/ Embedding(w),
         asker' = [asker EXCEPT ![t] = w]
  PROVE  TasksKnow'
<1>1. DOMAIN asker = Askers /\ DOMAIN asker' = Askers
  BY DEF TasksKnow
<1>2. asker'[t] = w /\ \A u \in Askers : u # t => asker'[u] = asker[u]
  BY <1>1
<1>3. ASSUME NEW u \in Askers PROVE asker'[u] = Idle \/ Asking(asker'[u]) \/ Embedding(asker'[u])
  <2>1. asker[u] = Idle \/ Asking(asker[u]) \/ Embedding(asker[u])
    BY DEF TasksKnow
  <2>2. asker'[u] = IF u = t THEN w ELSE asker[u]
    BY <1>2
  <2> QED BY <2>1, <2>2
<1> QED BY <1>1, <1>3 DEF TasksKnow

LEMMA TaskDoing ==
  ASSUME TasksKnow, NEW t \in Askers
  PROVE  /\ asker[t].doing = "ask" => Asking(asker[t])
         /\ asker[t].doing = "embed" => Embedding(asker[t])
<1>1. asker[t] = Idle \/ Asking(asker[t]) \/ Embedding(asker[t])
  BY DEF TasksKnow
<1>2. Idle.doing = "nothing"
  BY DEF Idle
<1> QED BY <1>1, <1>2 DEF Asking, Embedding

\* Texts put on file with their own vectors leave the file aligned.
LEMMA FileStaysAligned ==
  ASSUME EmbeddingsInv, NEW keys \in Seq(Texts), vectors' = Updated(vectors, Zipped(keys, keys))
  PROVE  DOMAIN vectors' \subseteq Texts /\ \A x \in DOMAIN vectors' : vectors'[x] = x
<1> DEFINE new == Zipped(keys, keys)
<1>1. DOMAIN new = Range(keys) /\ \A x \in Range(keys) : new[x] = x
  BY ZippedWithItself
<1>2. Range(keys) \subseteq Texts
  BY DEF Range
<1>3. DOMAIN vectors \subseteq Texts /\ \A x \in DOMAIN vectors : vectors[x] = x
  BY DEF EmbeddingsInv, EmbeddingsAligned
<1> HIDE DEF new
<1>4. vectors' = [x \in DOMAIN new \cup DOMAIN vectors |-> IF x \in DOMAIN new THEN new[x] ELSE vectors[x]]
  BY DEF new, Updated
<1> QED BY <1>1, <1>2, <1>3, <1>4

\* What is handed out: the hits and the new vectors cover the texts asked for.
LEMMA StoreKeeps ==
  ASSUME TasksKnow, EmbeddingsInv, NEW t \in Askers, Store(t)
  PROVE  TasksKnow' /\ EmbeddingsInv'
<1> DEFINE its == asker[t]
           new == Zipped(its.misses, its.misses)
           got == Updated(its.hits, new)
<1>1. /\ its.texts \in Seq(Texts) /\ its.misses \in Seq(Texts)
      /\ \A x \in DOMAIN its.hits : its.hits[x] = x
      /\ Range(its.texts) \ DOMAIN its.hits \subseteq Range(its.misses)
  BY TaskDoing DEF Store, Embedding
<1>2. vectors' = Updated(vectors, new) /\ given' = Handed(its.texts, got)
      /\ asker' = [asker EXCEPT ![t] = Idle]
  BY DEF Store
<1>3. DOMAIN vectors' \subseteq Texts /\ \A x \in DOMAIN vectors' : vectors'[x] = x
  BY <1>1, <1>2, FileStaysAligned
<1>4. DOMAIN new = Range(its.misses) /\ \A x \in Range(its.misses) : new[x] = x
  BY <1>1, ZippedWithItself
<1> HIDE DEF new
<1>5. got = [x \in DOMAIN new \cup DOMAIN its.hits |-> IF x \in DOMAIN new THEN new[x] ELSE its.hits[x]]
  BY DEF Updated
<1> HIDE DEF got, its
<1>6. ASSUME NEW i \in DOMAIN given' PROVE given'[i][1] = given'[i][2]
  <2>1. /\ i \in DOMAIN its.texts
        /\ given'[i] = <<its.texts[i],
                         IF its.texts[i] \in DOMAIN got THEN got[its.texts[i]] ELSE "">>
    BY <1>2 DEF Handed
  <2>2. its.texts[i] \in Range(its.texts)
    BY <2>1 DEF Range
  <2>3. its.texts[i] \in DOMAIN got /\ got[its.texts[i]] = its.texts[i]
    BY <1>1, <1>4, <1>5, <2>2
  <2> QED BY <2>1, <2>3
<1>7. EmbeddingsInv'
  BY <1>3, <1>6 DEF EmbeddingsInv, EmbeddingsAligned
<1>8. TasksKnow'
  BY <1>2, TaskGoesOn
<1> QED BY <1>7, <1>8

\* Without an answer some of the misses at most are put on file, in their order.
LEMMA NoAnswerKeeps ==
  ASSUME TasksKnow, EmbeddingsInv, NEW t \in Askers, NoAnswer(t)
  PROVE  TasksKnow' /\ EmbeddingsInv'
<1> DEFINE its == asker[t]
<1>1. TasksKnow' /\ given' = given
  BY TaskGoesOn DEF NoAnswer
<1>2. CASE vectors' = vectors
  BY <1>1, <1>2 DEF EmbeddingsInv, EmbeddingsAligned
<1>3. CASE vectors' # vectors
  <2>1. PICK n \in DOMAIN its.misses :
          /\ its.doing = "embed"
          /\ vectors' = Updated(vectors, Zipped(SubSeq(its.misses, 1, n), SubSeq(its.misses, 1, n)))
    BY <1>3 DEF NoAnswer
  <2>2. its.misses \in Seq(Texts)
    BY <2>1, TaskDoing DEF Embedding
  <2>3. n \in Nat /\ n <= Len(its.misses) /\ 1 \in Nat /\ \A i \in 1 .. n : its.misses[i] \in Texts
    BY <2>2
  <2>4. SubSeq(its.misses, 1, n) \in Seq(Texts)
    BY <2>2, <2>3
  <2>5. DOMAIN vectors' \subseteq Texts /\ \A x \in DOMAIN vectors' : vectors'[x] = x
    BY <2>1, <2>4, FileStaysAligned
  <2> QED BY <1>1, <2>5 DEF EmbeddingsInv, EmbeddingsAligned
<1> QED BY <1>1, <1>2, <1>3

\* A batch is asked for: what is on file is found, and the rest is missed.
LEMMA EmbedKeeps ==
  ASSUME TasksKnow, EmbeddingsInv, NEW t \in Askers, NEW n \in Nat, NEW texts \in [1 .. n -> Texts],
         Embed(t, texts)
  PROVE  TasksKnow' /\ EmbeddingsInv'
<1> DEFINE hits == [x \in Range(texts) \cap DOMAIN vectors |-> vectors[x]]
           w == [doing |-> "embed", texts |-> texts, hits |-> hits, misses |-> NewOf(texts, DOMAIN hits)]
<1>1. texts \in Seq(Texts)
  OBVIOUS
<1>2. asker' = [asker EXCEPT ![t] = w] /\ vectors' = vectors /\ given' = given
  BY DEF Embed
<1>3. \A x \in DOMAIN hits : hits[x] = x
  BY DEF EmbeddingsInv, EmbeddingsAligned
<1> HIDE DEF hits
<1>4. NewOf(texts, DOMAIN hits) \in Seq(Texts)
      /\ Range(texts) \ DOMAIN hits \subseteq Range(NewOf(texts, DOMAIN hits))
  BY <1>1, MissesCover
<1>5. Embedding(w)
  BY <1>1, <1>3, <1>4 DEF Embedding
<1> HIDE DEF w
<1> QED BY <1>2, <1>5, TaskGoesOn DEF EmbeddingsInv, EmbeddingsAligned

-----------------------------------------------------------------------------
\* The invariant of both caches, and what it says.

LEMMA CachesStart == CachesInit => CachesInv
<1> SUFFICES ASSUME CachesInit PROVE CachesInv
  OBVIOUS
<1>1. DecisionsInv
  BY CacheStart
<1>2. TasksKnow
  BY DEF CachesInit, TasksKnow
<1>3. EmbeddingsInv
  BY DEF CachesInit, EmbeddingsInv, EmbeddingsAligned
<1> QED BY <1>1, <1>2, <1>3 DEF CachesInv

\* The embeddings do not touch the decisions, nor the decisions the embeddings.
LEMMA DecisionsLeft ==
  ASSUME DecisionsInv, UNCHANGED <<store, clock, decided, since, answer>>
  PROVE  DecisionsInv'
<1>1. CacheShape' /\ StoreInOrder'
  BY DEF DecisionsInv, CacheShape, StoreInOrder
<1>2. GoneWithCause' /\ DecisionsFresh'
  BY DEF DecisionsInv, GoneWithCause, DecisionsFresh, Held
<1> QED BY <1>1, <1>2 DEF DecisionsInv

LEMMA EmbeddingsLeft ==
  ASSUME TasksKnow, EmbeddingsInv, UNCHANGED <<vectors, given>>,
         asker' = asker \/ \E t \in Askers : \E w :
           (w = Idle \/ Asking(w) \/ Embedding(w)) /\ asker' = [asker EXCEPT ![t] = w]
  PROVE  TasksKnow' /\ EmbeddingsInv'
<1>1. EmbeddingsInv'
  BY DEF EmbeddingsInv, EmbeddingsAligned
<1>2. CASE asker' = asker
  BY <1>1, <1>2 DEF TasksKnow
<1>3. CASE asker' # asker
  BY <1>1, <1>3, TaskGoesOn
<1> QED BY <1>2, <1>3

\* The router asks the cache, and the classifier on a miss.
LEMMA AskKeeps ==
  ASSUME CachesInv, NEW t \in Askers, NEW q \in Questions, Ask(t, q)
  PROVE  CachesInv'
<1>1. DecisionsInv /\ TasksKnow /\ EmbeddingsInv
  BY DEF CachesInv
<1>2. UNCHANGED <<clock, vectors, decided, given>>
  BY DEF Ask
<1>3. CASE Held(q) # {} /\ clock < Entry(q).expires
  <2>1. /\ store' = Append(Others(q), Entry(q)) /\ since' = Used(q)
        /\ answer' = <<q, Entry(q).value, clock>> /\ asker' = asker
    BY <1>3 DEF Ask
  <2>2. DecisionsInv'
    BY <1>1, <1>2, <1>3, <2>1, HitKeeps
  <2>3. TasksKnow' /\ EmbeddingsInv'
    BY <1>1, <1>2, <2>1, EmbeddingsLeft
  <2> QED BY <2>2, <2>3 DEF CachesInv
<1>4. CASE ~(Held(q) # {} /\ clock < Entry(q).expires)
  <2> DEFINE w == [doing |-> "ask", question |-> q]
  <2>1. /\ store' = Others(q) /\ asker' = [asker EXCEPT ![t] = w]
        /\ since' = since /\ answer' = answer
    BY <1>4 DEF Ask
  <2>2. Held(q) # {} => clock >= Entry(q).expires
    <3> SUFFICES ASSUME Held(q) # {} PROVE clock >= Entry(q).expires
      OBVIOUS
    <3>1. CacheShape /\ StoreInOrder
      BY <1>1 DEF DecisionsInv
    <3>2. Entry(q) \in Entries
      BY <3>1, EntryFound
    <3>3. clock \in Nat /\ Entry(q).expires \in Nat
      BY <3>1, <3>2 DEF CacheShape, Entries
    <3> QED BY <1>4, <3>3
  <2>3. DecisionsInv'
    BY <1>1, <1>2, <2>1, <2>2, DropKeeps
  <2>4. Asking(w)
    BY DEF Asking
  <2> HIDE DEF w
  <2>5. TasksKnow' /\ EmbeddingsInv'
    BY <1>1, <1>2, <2>1, <2>4, EmbeddingsLeft
  <2> QED BY <2>3, <2>5 DEF CachesInv
<1> QED BY <1>3, <1>4

\* The classifier has answered a question that missed.
LEMMA AnswerKeeps ==
  ASSUME CachesInv, NEW t \in Askers, Decide(t)
  PROVE  CachesInv'
<1> DEFINE q == asker[t].question
<1>1. DecisionsInv /\ TasksKnow /\ EmbeddingsInv
  BY DEF CachesInv
<1>2. q \in Questions
  BY <1>1, TaskDoing DEF Decide, Asking
<1>3. /\ decided' = Append(decided, [question |-> q, at |-> clock])
      /\ store' = Put(q, Len(decided')) /\ since' = Used(q)
      /\ answer' = <<q, Len(decided'), clock>> /\ clock' = clock
  BY DEF Decide
<1>4. vectors' = vectors /\ given' = given /\ asker' = [asker EXCEPT ![t] = Idle]
  BY DEF Decide
<1> HIDE DEF q
<1>5. DecisionsInv'
  BY <1>1, <1>2, <1>3, DecideKeeps
<1>6. TasksKnow' /\ EmbeddingsInv'
  BY <1>1, <1>4, EmbeddingsLeft
<1> QED BY <1>5, <1>6 DEF CachesInv

LEMMA CachesStep == CachesInv /\ [CacheNext \/ EmbeddingNext]_cacheVars => CachesInv'
<1> SUFFICES ASSUME CachesInv, [CacheNext \/ EmbeddingNext]_cacheVars PROVE CachesInv'
  OBVIOUS
<1>1. DecisionsInv /\ TasksKnow /\ EmbeddingsInv
  BY DEF CachesInv
<1>2. CASE Tick \/ Clear
  <2>1. DecisionsInv'
    BY <1>1, <1>2, TickKeeps, ClearKeeps
  <2>2. asker' = asker /\ vectors' = vectors /\ given' = given
    BY <1>2 DEF Tick, Clear
  <2>3. TasksKnow' /\ EmbeddingsInv'
    BY <1>1, <2>2, EmbeddingsLeft
  <2> QED BY <2>1, <2>3 DEF CachesInv
<1>3. ASSUME NEW q \in Questions, Invalidate(q) PROVE CachesInv'
  <2>1. DecisionsInv'
    BY <1>1, <1>3, DropKeeps DEF Invalidate
  <2>2. asker' = asker /\ vectors' = vectors /\ given' = given
    BY <1>3 DEF Invalidate
  <2>3. TasksKnow' /\ EmbeddingsInv'
    BY <1>1, <2>2, EmbeddingsLeft
  <2> QED BY <2>1, <2>3 DEF CachesInv
<1>4. ASSUME NEW t \in Askers, Store(t) \/ NoAnswer(t) PROVE CachesInv'
  <2>1. UNCHANGED <<store, clock, decided, since, answer>>
    BY <1>4 DEF Store, NoAnswer
  <2>2. DecisionsInv'
    BY <1>1, <2>1, DecisionsLeft
  <2>3. TasksKnow' /\ EmbeddingsInv'
    BY <1>1, <1>4, StoreKeeps, NoAnswerKeeps
  <2> QED BY <2>2, <2>3 DEF CachesInv
<1>5. ASSUME NEW t \in Askers, NEW n \in 1 .. MaxBatch, NEW texts \in [1 .. n -> Texts],
             Embed(t, texts)
      PROVE  CachesInv'
  <2>1. n \in Nat /\ UNCHANGED <<store, clock, decided, since, answer>>
    BY <1>5, CachesAssumption DEF Embed
  <2>2. DecisionsInv'
    BY <1>1, <2>1, DecisionsLeft
  <2>3. TasksKnow' /\ EmbeddingsInv'
    BY <1>1, <1>5, <2>1, EmbedKeeps
  <2> QED BY <2>2, <2>3 DEF CachesInv
<1>6. CASE UNCHANGED cacheVars
  <2>1. /\ store' = store /\ clock' = clock /\ decided' = decided /\ since' = since
        /\ answer' = answer /\ asker' = asker /\ vectors' = vectors /\ given' = given
    BY <1>6 DEF cacheVars
  <2> QED BY <1>1, <2>1, DecisionsLeft, EmbeddingsLeft DEF CachesInv
<1> QED
  BY <1>2, <1>3, <1>4, <1>5, <1>6, AskKeeps, AnswerKeeps DEF CacheNext, EmbeddingNext

\* Every reachable state of the caches is as the invariant says.
THEOREM CachesInvariance == CachesSpec => []CachesInv
<1> QED BY CachesStart, CachesStep, PTL DEF CachesSpec

\* No entry outlives its time.
LEMMA EntriesExpire ==
  ASSUME CacheShape, StoreInOrder
  PROVE  CachesTypeOK <=> DOMAIN vectors \subseteq Texts
<1>1. Len(store) <= MaxSize
  BY DEF CacheShape
<1>2. ASSUME NEW i \in DOMAIN store PROVE store[i].expires <= clock + TimeToLive
  <2>1. /\ store[i].value \in DOMAIN decided
        /\ store[i].expires = decided[store[i].value].at + TimeToLive
    BY DEF StoreInOrder, Latest
  <2>2. /\ decided[store[i].value].at \in Nat /\ decided[store[i].value].at <= clock
        /\ clock \in Nat /\ TimeToLive \in Nat
    BY <2>1, DecisionsDated, CachesAssumption DEF CacheShape
  <2> QED BY <2>1, <2>2
<1> QED BY <1>1, <1>2, StoreKeysApart DEF CachesTypeOK

\* A decision that is gone while it lives was pushed out by that many others.
LEMMA GoneIsLeastUsed ==
  ASSUME CacheShape, GoneWithCause
  PROVE  LeastUsedEvicted
<1> SUFFICES ASSUME NEW q \in DOMAIN since, Cardinality(since[q]) < MaxSize, Held(q) = {}
             PROVE  ~(clock < LastDecided(q) + TimeToLive)
  BY DEF LeastUsedEvicted
<1> DEFINE its == {j \in DOMAIN decided : decided[j].question = q}
           times == {decided[i].at : i \in its}
           At == [i \in its |-> decided[i].at]
<1>1. IsFiniteSet(since[q]) /\ decided \in Seq(Decisions) /\ \E j \in DOMAIN decided : decided[j].question = q
  BY DEF CacheShape
<1>2. Expired(q, decided, clock)
  <2>1. Cardinality(since[q]) \in Nat /\ MaxSize \in Nat
    BY <1>1, FS_CardinalityType, CachesAssumption
  <2> QED BY <2>1 DEF GoneWithCause
<1>3. IsFiniteSet(its)
  <2>1. its \in SUBSET (1 .. Len(decided)) /\ 1 \in Int /\ Len(decided) \in Int
    BY <1>1
  <2> QED BY <2>1, FS_Interval, FS_Subset
<1>4. At \in Surjection(its, times)
  BY DEF Surjection
<1>5. times # {} /\ times \in SUBSET Int
  BY <1>1, DecisionsDated
<1> HIDE DEF At
<1>6. IsFiniteSet(times)
  <2> HIDE DEF its, times
  <2> QED BY <1>3, <1>4, FS_Surjection
<1>7. Max(times) \in times
  <2> HIDE DEF times
  <2> QED BY <1>5, <1>6, FiniteMax
<1>8. PICK j \in its : Max(times) = decided[j].at
  BY <1>7
<1>9. clock >= decided[j].at + TimeToLive
  BY <1>2, <1>8 DEF Expired
<1>10. LastDecided(q) = decided[j].at
  BY <1>8 DEF LastDecided
<1>11. decided[j].at \in Nat /\ clock \in Nat /\ TimeToLive \in Nat
  BY <1>8, DecisionsDated, CachesAssumption DEF CacheShape
<1> QED BY <1>9, <1>10, <1>11

\* The caches (harness/cache/): whatever is asked, expires, is invalidated or fails
\* in the meantime, an answer is fresh and made for what was asked, a live decision
\* leaves the store for the use of that many others only, and every text is given
\* its own vector.
THEOREM CachesHold == CachesSpec => []CachesSound
<1>1. ASSUME CachesInv PROVE CachesSound
  <2>1. CacheShape /\ StoreInOrder /\ GoneWithCause /\ DecisionsFresh /\ EmbeddingsInv
    BY <1>1 DEF CachesInv, DecisionsInv
  <2>2. CachesTypeOK /\ EmbeddingsAligned
    BY <2>1, EntriesExpire DEF EmbeddingsInv
  <2> QED BY <2>1, <2>2, GoneIsLeastUsed DEF CachesSound
<1>2. CachesInv => CachesSound
  BY <1>1
<1> QED BY <1>2, CachesInvariance, PTL

-----------------------------------------------------------------------------
(***************************************************************************)
(* Compaction.  A history is some notes and after them the last messages   *)
(* said, one by one.  Only what a note rests on, and how many of the last  *)
(* messages are still there, changes when one is compacted.                *)
(***************************************************************************)

Written == [text : Seq(Nat), of : SUBSET Nat]

\* A message names and rests on what has been said.
Fits(m, said) == m.of \subseteq 1 .. said /\ ToSet(m.text) \subseteq 0 .. said

\* Notes, and the "fresh" messages said last.
History(ms, said, fresh) ==
  /\ ms \in Seq(Written) /\ fresh \in 0 .. said /\ fresh <= Len(ms)
  /\ \A i \in 1 .. Len(ms) - fresh : IsNote(ms[i]) /\ Fits(ms[i], said)
  /\ \A i \in 1 .. fresh :
       \E size \in Lengths : ms[Len(ms) - fresh + i] = Message(said - fresh + i, size)

\* The turns to keep have not all been said, or are all there.
Enough(said, fresh) == fresh = said \/ fresh >= KeepN

TalkShape ==
  /\ talk \in [strategy : Strategies, keep : Keeps, messages : Seq(Written),
               memory : SUBSET Nat, said : Nat]
  /\ talk.said <= MaxSaid
  /\ talk.memory \subseteq Durable \cap 1 .. talk.said
  /\ talk.memory # {} => talk.strategy = "offload_to_memory"

TalkInv ==
  /\ TalkShape /\ NothingUnread
  /\ \E fresh \in 0 .. talk.said : History(talk.messages, talk.said, fresh) /\ Enough(talk.said, fresh)

\* A message says its number.
LEMMA MessageMeans ==
  ASSUME NEW n \in Nat \ {0}, NEW size \in Nat
  PROVE  /\ Message(n, size) \in Written /\ Message(n, size).of = {n}
         /\ ~IsNote(Message(n, size)) /\ ToSet(Message(n, size).text) \subseteq {n}
<1> DEFINE text == [i \in 1 .. size |-> n]
<1>1. text \in Seq(Nat) /\ DOMAIN text = 1 .. size /\ \A i \in DOMAIN text : text[i] = n
  OBVIOUS
<1>2. ToSet(text) \subseteq {n}
  BY <1>1 DEF ToSet
<1>3. text # << >> => Head(text) = n
  BY <1>1
<1>4. Message(n, size) = [text |-> text, of |-> {n}]
  BY DEF Message
<1> HIDE DEF text
<1> QED BY <1>1, <1>2, <1>3, <1>4 DEF Written, IsNote, Heading

\* A note begins with its heading, and says what it is given.
LEMMA NoteMeans ==
  ASSUME NEW said \in Nat, NEW words \in Seq(0 .. said), NEW of \in SUBSET (1 .. said)
  PROVE  /\ Note(words, of) \in Written /\ Note(words, of).of = of
         /\ IsNote(Note(words, of)) /\ Fits(Note(words, of), said)
<1> DEFINE text == <<Heading>> \o words
<1>1. /\ <<Heading>> \in Seq(0 .. said) /\ Len(<<Heading>>) = 1 /\ <<Heading>>[1] = Heading
      /\ Len(words) \in Nat
  BY DEF Heading
<1>2. /\ text \in Seq(0 .. said) /\ Len(text) = 1 + Len(words)
      /\ \A i \in 1 .. 1 + Len(words) : text[i] = IF i <= 1 THEN <<Heading>>[i] ELSE words[i - 1]
  BY <1>1, ConcatProperties
<1>3. Note(words, of) = [text |-> text, of |-> of]
  BY DEF Note
<1> HIDE DEF text
<1>4. text # << >> /\ Head(text) = Heading
  BY <1>1, <1>2
<1>5. text \in Seq(Nat) /\ ToSet(text) \subseteq 0 .. said
  BY <1>2 DEF ToSet
<1> QED BY <1>3, <1>4, <1>5 DEF Written, IsNote, Fits

\* Words are read one after the other.
LEMMA ReadingOrders ==
  ASSUME NEW words, words \subseteq Nat \X Nat, IsFiniteSet(words)
  PROVE  Enumerates(InOrder(words, InReading(words)), words, InReading(words))
<1> DEFINE R == InReading(words)
<1>1. \A v, w \in words : <<v, w>> \in R <=> (v[1] < w[1] \/ (v[1] = w[1] /\ v[2] < w[2]))
  BY DEF InReading
<1>2. \A w \in words : w[1] \in Nat /\ w[2] \in Nat /\ w = <<w[1], w[2]>>
  OBVIOUS
<1> HIDE DEF R
<1>3. \A w \in words : <<w, w>> \notin R
  BY <1>1, <1>2
<1>4. ASSUME NEW u \in words, NEW v \in words, NEW w \in words, <<u, v>> \in R, <<v, w>> \in R
      PROVE  <<u, w>> \in R
  <2>1. /\ u[1] \in Nat /\ u[2] \in Nat /\ v[1] \in Nat /\ v[2] \in Nat
        /\ w[1] \in Nat /\ w[2] \in Nat
    BY <1>2
  <2>2. /\ u[1] < v[1] \/ (u[1] = v[1] /\ u[2] < v[2])
        /\ v[1] < w[1] \/ (v[1] = w[1] /\ v[2] < w[2])
    BY <1>1, <1>4
  <2>3. u[1] < w[1] \/ (u[1] = w[1] /\ u[2] < w[2])
    BY <2>1, <2>2
  <2> QED BY <1>1, <2>3
<1>5. ASSUME NEW v \in words, NEW w \in words, v # w PROVE <<v, w>> \in R \/ <<w, v>> \in R
  <2>1. v[1] # w[1] \/ v[2] # w[2]
    BY <1>2, <1>5
  <2>2. v[1] \in Nat /\ v[2] \in Nat /\ w[1] \in Nat /\ w[2] \in Nat
    BY <1>2
  <2>3. \/ v[1] < w[1] \/ (v[1] = w[1] /\ v[2] < w[2])
        \/ w[1] < v[1] \/ (w[1] = v[1] /\ w[2] < v[2])
    BY <2>1, <2>2
  <2> QED BY <1>1, <2>3
<1>6. StrictOrder(words, R)
  BY <1>3, <1>4, <1>5 DEF StrictOrder
<1> QED BY <1>6, InOrderEnumerates DEF R

\* A gist has words of the messages it is made from.
LEMMA GistWords ==
  ASSUME NEW said \in Nat, NEW dropped \in Seq(Written), \A i \in DOMAIN dropped : Fits(dropped[i], said)
  PROVE  Gist(dropped) \in Seq(0 .. said)
<1> DEFINE spoken == {i \in DOMAIN dropped : dropped[i].text # << >>}
           quoted == {i \in spoken : Cardinality({j \in spoken : j < i}) < GistLines}
           words == {w \in quoted \X (1 .. LineWidth) : w[2] <= Len(dropped[w[1]].text)}
           order == InOrder(words, InReading(words))
<1>1. /\ DOMAIN dropped = 1 .. Len(dropped) /\ Len(dropped) \in Nat /\ LineWidth \in Nat
      /\ \A i \in DOMAIN dropped : dropped[i].text \in Seq(Nat)
  <2>1. LineWidth \in Nat
    BY CompactionAssumption
  <2>2. \A i \in DOMAIN dropped : dropped[i] \in Written
    OBVIOUS
  <2> QED BY <2>1, <2>2 DEF Written
<1>2. Gist(dropped) = [n \in DOMAIN order |-> dropped[order[n][1]].text[order[n][2]]]
  BY DEF Gist
<1>3. quoted \subseteq 1 .. Len(dropped)
  BY <1>1
<1>4. /\ words \subseteq Nat \X Nat
      /\ words \subseteq (1 .. Len(dropped)) \X (1 .. LineWidth)
  BY <1>1, <1>3
<1>5. \A w \in words : w[1] \in DOMAIN dropped /\ w[2] \in 1 .. Len(dropped[w[1]].text)
  BY <1>1, <1>3
<1>6. IsFiniteSet(words)
  <2>1. /\ 1 \in Int /\ Len(dropped) \in Int /\ LineWidth \in Int
    BY <1>1
  <2>2. IsFiniteSet(1 .. Len(dropped)) /\ IsFiniteSet(1 .. LineWidth)
    BY <2>1, FS_Interval
  <2> HIDE DEF words
  <2> QED BY <1>4, <2>2, FS_Product, FS_Subset
<1> HIDE DEF spoken, quoted, words
<1>7. Enumerates(order, words, InReading(words))
  BY <1>4, <1>6, ReadingOrders
<1> HIDE DEF order
<1>8. Cardinality(words) \in Nat /\ DOMAIN order = 1 .. Cardinality(words)
      /\ \A n \in DOMAIN order : order[n] \in words
  BY <1>6, <1>7, FS_CardinalityType DEF Enumerates
<1>9. ASSUME NEW n \in DOMAIN order PROVE dropped[order[n][1]].text[order[n][2]] \in 0 .. said
  <2> DEFINE w == order[n]
  <2>1. w[1] \in DOMAIN dropped /\ w[2] \in 1 .. Len(dropped[w[1]].text)
    BY <1>5, <1>8, <1>9
  <2> HIDE DEF w
  <2>2. w[2] \in DOMAIN dropped[w[1]].text
    BY <1>1, <2>1
  <2>3. ToSet(dropped[w[1]].text) \subseteq 0 .. said
    BY <2>1 DEF Fits
  <2>4. dropped[w[1]].text[w[2]] \in 0 .. said
    BY <2>2, <2>3 DEF ToSet
  <2> QED BY <2>4 DEF w
<1> DEFINE k == Cardinality(words)
<1> HIDE DEF k
<1>10. k \in Nat /\ DOMAIN order = 1 .. k
  BY <1>8 DEF k
<1>11. Gist(dropped) \in [1 .. k -> 0 .. said]
  BY <1>2, <1>9, <1>10
<1> QED BY <1>10, <1>11

\* A history in two parts.
Apart(ms, dropped, tail) ==
  /\ dropped \in Seq(Written) /\ tail \in Seq(Written)
  /\ Len(ms) = Len(dropped) + Len(tail)
  /\ \A i \in 1 .. Len(dropped) : dropped[i] = ms[i]
  /\ \A i \in 1 .. Len(tail) : tail[i] = ms[Len(dropped) + i]

\* What is split are the last turns, and all before them.
LEMMA SplitApart ==
  ASSUME NEW ms \in Seq(Written), KeepN \in Nat
  PROVE  /\ Apart(ms, SplitKeepTail(ms).dropped, SplitKeepTail(ms).kept)
         /\ Len(SplitKeepTail(ms).kept) = IF KeepN >= Len(ms) THEN Len(ms) ELSE KeepN
<1> DEFINE dropped == SplitKeepTail(ms).dropped
           tail == SplitKeepTail(ms).kept
<1>1. Len(ms) \in Nat /\ \A i \in 1 .. Len(ms) : ms[i] \in Written
  OBVIOUS
<1>2. CASE KeepN >= Len(ms)
  <2>1. dropped = << >> /\ tail = ms
    BY <1>2 DEF SplitKeepTail
  <2> HIDE DEF dropped, tail
  <2>2. dropped \in Seq(Written) /\ Len(dropped) = 0
    BY <2>1
  <2> QED BY <1>1, <1>2, <2>1, <2>2 DEF Apart, dropped, tail
<1>3. CASE KeepN < Len(ms)
  <2> DEFINE cut == Len(ms) - KeepN
  <2>1. /\ cut \in Nat /\ cut >= 1 /\ cut <= Len(ms) /\ Len(ms) - cut = KeepN
    BY <1>1, <1>3
  <2>2. ~(KeepN >= Len(ms))
    BY <1>1, <1>3
  <2>3. dropped = SubSeq(ms, 1, cut) /\ tail = SubSeq(ms, cut + 1, Len(ms))
    BY <2>2 DEF SplitKeepTail
  <2> HIDE DEF cut, dropped, tail
  <2>4. /\ \A i \in 1 .. cut : ms[i] \in Written
        /\ \A i \in cut + 1 .. Len(ms) : ms[i] \in Written
    BY <1>1, <2>1
  <2>5. /\ dropped \in Seq(Written) /\ Len(dropped) = cut
        /\ \A i \in 1 .. cut : dropped[i] = ms[i]
    <3>1. /\ SubSeq(ms, 1, cut) \in Seq(Written)
          /\ Len(SubSeq(ms, 1, cut)) = IF 1 <= cut THEN cut - 1 + 1 ELSE 0
          /\ \A i \in 1 .. cut - 1 + 1 : SubSeq(ms, 1, cut)[i] = ms[1 + i - 1]
      BY <2>1, <2>4, SubSeqProperties
    <3>2. cut - 1 + 1 = cut /\ \A i \in 1 .. cut : 1 + i - 1 = i
      BY <2>1
    <3> QED BY <2>1, <2>3, <3>1, <3>2
  <2>6. /\ tail \in Seq(Written) /\ Len(tail) = KeepN
        /\ \A i \in 1 .. KeepN : tail[i] = ms[cut + i]
    <3> DEFINE last == SubSeq(ms, cut + 1, Len(ms))
    <3>1. cut + 1 \in Int /\ Len(ms) \in Int
      BY <1>1, <2>1
    <3>2. /\ last \in Seq(Written)
          /\ Len(last) = IF cut + 1 <= Len(ms) THEN Len(ms) - (cut + 1) + 1 ELSE 0
          /\ \A i \in 1 .. Len(ms) - (cut + 1) + 1 : last[i] = ms[cut + 1 + i - 1]
      BY <2>4, <3>1, SubSeqProperties
    <3>3. /\ Len(ms) - (cut + 1) + 1 = KeepN
          /\ (IF cut + 1 <= Len(ms) THEN KeepN ELSE 0) = KeepN
          /\ \A i \in 1 .. KeepN : cut + 1 + i - 1 = cut + i
      BY <1>1, <2>1
    <3> HIDE DEF last
    <3>4. tail = last
      BY <2>3 DEF last
    <3> QED BY <3>2, <3>3, <3>4
  <2>7. Len(ms) = Len(dropped) + Len(tail)
    BY <2>1, <2>5, <2>6
  <2>8. Len(tail) = IF KeepN >= Len(ms) THEN Len(ms) ELSE KeepN
    BY <2>2, <2>6
  <2> QED BY <2>5, <2>6, <2>7, <2>8 DEF Apart, dropped, tail
<1> QED BY <1>1, <1>2, <1>3

\* The note is put before what is kept.
LEMMA RebuiltIs ==
  ASSUME NEW tail \in Seq(Written), NEW note \in Written
  PROVE  LET ms == Rebuild(tail, note) IN
         /\ ms \in Seq(Written) /\ Len(ms) = Len(tail) + 1 /\ ms[1] = note
         /\ \A i \in 1 .. Len(tail) : ms[i + 1] = tail[i]
         /\ Told(ms) = note.of \cup Told(tail)
<1> DEFINE ms == Rebuild(tail, note)
<1>1. /\ <<note>> \in Seq(Written) /\ Len(<<note>>) = 1 /\ <<note>>[1] = note
      /\ Len(tail) \in Nat /\ ms = <<note>> \o tail
  BY DEF Rebuild
<1> HIDE DEF ms
<1>2. /\ ms \in Seq(Written) /\ Len(ms) = 1 + Len(tail)
      /\ \A i \in 1 .. 1 + Len(tail) : ms[i] = IF i <= 1 THEN <<note>>[i] ELSE tail[i - 1]
  BY <1>1, ConcatProperties
<1>3. \A i \in 1 .. Len(tail) : i + 1 \in 1 .. 1 + Len(tail) /\ ~(i + 1 <= 1) /\ i + 1 - 1 = i
  BY <1>1
<1>4. ms[1] = note /\ \A i \in 1 .. Len(tail) : ms[i + 1] = tail[i]
  BY <1>1, <1>2, <1>3
<1>5. ToSet(ms) = {note} \cup ToSet(tail)
  <2>1. ASSUME NEW i \in DOMAIN ms PROVE ms[i] \in {note} \cup ToSet(tail)
    <3>1. CASE i = 1
      BY <1>4, <3>1
    <3>2. CASE i # 1
      <4>1. i - 1 \in DOMAIN tail /\ ms[i] = tail[i - 1]
        BY <1>1, <1>2, <2>1, <3>2
      <4> QED BY <4>1 DEF ToSet
    <3> QED BY <3>1, <3>2
  <2>2. ASSUME NEW i \in DOMAIN tail PROVE tail[i] \in ToSet(ms)
    <3>1. i + 1 \in DOMAIN ms /\ ms[i + 1] = tail[i]
      BY <1>1, <1>2, <1>4, <2>2
    <3> QED BY <3>1 DEF ToSet
  <2>3. note \in ToSet(ms)
    <3>1. 1 \in DOMAIN ms
      BY <1>1, <1>2
    <3> QED BY <1>4, <3>1 DEF ToSet
  <2>4. ToSet(ms) \subseteq {note} \cup ToSet(tail)
    BY <2>1 DEF ToSet
  <2>5. ToSet(tail) \subseteq ToSet(ms)
    BY <2>2 DEF ToSet
  <2> QED BY <2>3, <2>4, <2>5
<1>6. Told(ms) = note.of \cup Told(tail)
  BY <1>5 DEF Told
<1> QED BY <1>1, <1>2, <1>4, <1>6 DEF ms

\* What was told is told by what is dropped or by what is kept.
LEMMA ToldApart ==
  ASSUME NEW ms \in Seq(Written), NEW dropped, NEW tail, Apart(ms, dropped, tail)
  PROVE  Told(ms) = Told(dropped) \cup Told(tail)
<1>1. /\ dropped \in Seq(Written) /\ tail \in Seq(Written)
      /\ Len(ms) = Len(dropped) + Len(tail)
      /\ \A i \in 1 .. Len(dropped) : dropped[i] = ms[i]
      /\ \A i \in 1 .. Len(tail) : tail[i] = ms[Len(dropped) + i]
      /\ Len(dropped) \in Nat /\ Len(tail) \in Nat
      /\ DOMAIN ms = 1 .. Len(ms)
      /\ DOMAIN dropped = 1 .. Len(dropped) /\ DOMAIN tail = 1 .. Len(tail)
  BY DEF Apart
<1>2. ToSet(dropped) \subseteq ToSet(ms)
  <2>1. ASSUME NEW i \in DOMAIN dropped PROVE i \in DOMAIN ms /\ dropped[i] = ms[i]
    BY <1>1, <2>1
  <2> QED BY <2>1 DEF ToSet
<1>3. ToSet(tail) \subseteq ToSet(ms)
  <2>1. ASSUME NEW i \in DOMAIN tail PROVE Len(dropped) + i \in DOMAIN ms /\ tail[i] = ms[Len(dropped) + i]
    BY <1>1, <2>1
  <2> QED BY <2>1 DEF ToSet
<1>4. ASSUME NEW i \in DOMAIN ms PROVE ms[i] \in ToSet(dropped) \cup ToSet(tail)
  <2>1. CASE i <= Len(dropped)
    <3>1. i \in DOMAIN dropped /\ dropped[i] = ms[i]
      BY <1>1, <1>4, <2>1
    <3> QED BY <3>1 DEF ToSet
  <2>2. CASE i > Len(dropped)
    <3>1. /\ i - Len(dropped) \in 1 .. Len(tail) /\ Len(dropped) + (i - Len(dropped)) = i
      BY <1>1, <1>4, <2>2
    <3>2. tail[i - Len(dropped)] = ms[i] /\ i - Len(dropped) \in DOMAIN tail
      BY <1>1, <3>1
    <3> QED BY <3>2 DEF ToSet
  <2> QED BY <1>1, <1>4, <2>1, <2>2
<1>5. ToSet(ms) = ToSet(dropped) \cup ToSet(tail)
  <2>1. ToSet(ms) \subseteq ToSet(dropped) \cup ToSet(tail)
    BY <1>4 DEF ToSet
  <2> QED BY <1>2, <1>3, <2>1
<1> QED BY <1>5 DEF Told

\* What has been told has been said.
LEMMA ToldSaid ==
  ASSUME NEW ms \in Seq(Written), NEW said, \A i \in DOMAIN ms : Fits(ms[i], said)
  PROVE  Told(ms) \subseteq 1 .. said
BY DEF Told, ToSet, Fits

\* Later more has been said.
LEMMA FitsLater ==
  ASSUME NEW m, NEW said \in Nat, NEW later \in Nat, said <= later, Fits(m, said)
  PROVE  Fits(m, later)
<1>1. 1 .. said \subseteq 1 .. later /\ 0 .. said \subseteq 0 .. later
  OBVIOUS
<1> QED BY <1>1 DEF Fits

\* Nothing in a history was not said.
LEMMA HistoryFits ==
  ASSUME NEW ms, NEW said \in Nat, NEW fresh, History(ms, said, fresh)
  PROVE  \A i \in DOMAIN ms : /\ Fits(ms[i], said)
                              /\ IsNote(ms[i]) <=> i <= Len(ms) - fresh
                              /\ ~IsNote(ms[i]) => \E n : ms[i].of = {n}
<1> SUFFICES ASSUME NEW i \in DOMAIN ms
             PROVE  /\ Fits(ms[i], said)
                    /\ IsNote(ms[i]) <=> i <= Len(ms) - fresh
                    /\ ~IsNote(ms[i]) => \E n : ms[i].of = {n}
  OBVIOUS
<1>1. /\ ms \in Seq(Written) /\ Len(ms) \in Nat /\ fresh \in 0 .. said /\ fresh <= Len(ms)
      /\ i \in 1 .. Len(ms)
  BY DEF History
<1>2. CASE i <= Len(ms) - fresh
  <2>1. i \in 1 .. Len(ms) - fresh
    BY <1>1, <1>2
  <2> QED BY <1>2, <2>1 DEF History
<1>3. CASE i > Len(ms) - fresh
  <2> DEFINE k == i - (Len(ms) - fresh)
             n == said - fresh + k
  <2>1. /\ k \in 1 .. fresh /\ Len(ms) - fresh + k = i /\ n \in Nat \ {0} /\ n \in 1 .. said
        /\ ~(i <= Len(ms) - fresh)
    BY <1>1, <1>3
  <2>2. PICK size \in Lengths : ms[Len(ms) - fresh + k] = Message(said - fresh + k, size)
    <3> HIDE DEF k
    <3> QED BY <2>1 DEF History
  <2>3. ms[i] = Message(n, size) /\ size \in Nat
    BY <2>1, <2>2, CompactionAssumption
  <2> HIDE DEF k, n
  <2>4. ms[i].of = {n} /\ ~IsNote(ms[i]) /\ ToSet(ms[i].text) \subseteq {n}
    <3>1. n \in Nat \ {0}
      BY <2>1
    <3>2. /\ Message(n, size).of = {n} /\ ~IsNote(Message(n, size))
          /\ ToSet(Message(n, size).text) \subseteq {n}
      BY <2>3, <3>1, MessageMeans
    <3> QED BY <2>3, <3>2
  <2>5. n \in 0 .. said
    BY <1>1, <2>1
  <2>6. Fits(ms[i], said)
    BY <2>1, <2>4, <2>5 DEF Fits
  <2> QED BY <2>1, <2>4, <2>6
<1>4. i <= Len(ms) - fresh \/ i > Len(ms) - fresh
  BY <1>1
<1> QED BY <1>2, <1>3, <1>4

\* One message more is said.
LEMMA HistorySaid ==
  ASSUME NEW ms, NEW said \in Nat, NEW fresh, History(ms, said, fresh),
         NEW size \in Lengths, NEW more, more = Append(ms, Message(said + 1, size))
  PROVE  History(more, said + 1, fresh + 1) /\ Told(more) = Told(ms) \cup {said + 1}
<1> DEFINE m == Message(said + 1, size)
<1>1. /\ ms \in Seq(Written) /\ Len(ms) \in Nat /\ fresh \in Nat /\ fresh <= said /\ fresh <= Len(ms)
  BY DEF History
<1>2. m \in Written /\ m.of = {said + 1}
  <2>1. said + 1 \in Nat \ {0} /\ size \in Nat
    BY CompactionAssumption
  <2> QED BY <2>1, MessageMeans
<1> HIDE DEF m
<1>3. /\ more \in Seq(Written) /\ Len(more) = Len(ms) + 1
      /\ \A i \in 1 .. Len(ms) : more[i] = ms[i]
      /\ more[Len(ms) + 1] = m
  <2>1. more = Append(ms, m)
    BY DEF m
  <2> QED BY <1>1, <1>2, <2>1, AppendProperties
<1>4. Len(more) - (fresh + 1) = Len(ms) - fresh /\ fresh + 1 \in 0 .. said + 1 /\ fresh + 1 <= Len(more)
  BY <1>1, <1>3
<1>5. ASSUME NEW i \in 1 .. Len(ms) - fresh PROVE IsNote(more[i]) /\ Fits(more[i], said + 1)
  <2>1. i \in 1 .. Len(ms) /\ said <= said + 1 /\ said + 1 \in Nat
    BY <1>1
  <2>2. IsNote(ms[i]) /\ Fits(ms[i], said)
    BY DEF History
  <2> QED BY <1>3, <2>1, <2>2, FitsLater
<1>6. ASSUME NEW i \in 1 .. fresh + 1
      PROVE  \E s \in Lengths : more[Len(ms) - fresh + i] = Message(said - fresh + i, s)
  <2>1. CASE i = fresh + 1
    <3>1. Len(ms) - fresh + i = Len(ms) + 1 /\ said - fresh + i = said + 1
      BY <1>1, <2>1
    <3> QED BY <1>3, <3>1 DEF m
  <2>2. CASE i # fresh + 1
    <3>1. i \in 1 .. fresh /\ Len(ms) - fresh + i \in 1 .. Len(ms)
      BY <1>1, <2>2
    <3>2. \E s \in Lengths : ms[Len(ms) - fresh + i] = Message(said - fresh + i, s)
      BY <3>1 DEF History
    <3> QED BY <1>3, <3>1, <3>2
  <2> QED BY <2>1, <2>2
<1>7. History(more, said + 1, fresh + 1)
  <2> DEFINE later == said + 1
             longer == fresh + 1
  <2>1. /\ more \in Seq(Written) /\ longer \in 0 .. later /\ longer <= Len(more)
        /\ later - longer = said - fresh /\ Len(more) - longer = Len(ms) - fresh
    BY <1>1, <1>3, <1>4
  <2>2. \A i \in 1 .. Len(more) - longer : IsNote(more[i]) /\ Fits(more[i], later)
    BY <1>5, <2>1
  <2>3. \A i \in 1 .. longer :
          \E s \in Lengths : more[Len(ms) - fresh + i] = Message(said - fresh + i, s)
    BY <1>6
  <2> HIDE DEF later, longer
  <2>4. \A i \in 1 .. longer :
          \E s \in Lengths : more[Len(more) - longer + i] = Message(later - longer + i, s)
    BY <2>1, <2>3
  <2>5. History(more, later, longer)
    BY <2>1, <2>2, <2>4 DEF History
  <2> QED BY <2>5 DEF later, longer
<1>8. ToSet(more) = ToSet(ms) \cup {m}
  <2>1. DOMAIN more = 1 .. Len(ms) + 1 /\ DOMAIN ms = 1 .. Len(ms)
    BY <1>1, <1>3
  <2>2. 1 .. Len(ms) + 1 = (1 .. Len(ms)) \cup {Len(ms) + 1}
    BY <1>1
  <2> QED BY <1>3, <2>1, <2>2 DEF ToSet
<1> QED BY <1>2, <1>7, <1>8 DEF Told

\* Of the messages said last, compaction leaves as many as it is to keep.
LEMMA HistoryCompacted ==
  ASSUME NEW ms, NEW said \in Nat, NEW fresh, History(ms, said, fresh), KeepN \in Nat,
         NEW note \in Written, IsNote(note), Fits(note, said),
         NEW rebuilt, rebuilt = Rebuild(SplitKeepTail(ms).kept, note),
         Enough(said, fresh)
  PROVE  \E left \in 0 .. said : History(rebuilt, said, left) /\ Enough(said, left)
<1> DEFINE dropped == SplitKeepTail(ms).dropped
           tail == SplitKeepTail(ms).kept
           left == IF Len(tail) < fresh THEN Len(tail) ELSE fresh
<1>1. /\ ms \in Seq(Written) /\ Len(ms) \in Nat /\ fresh \in Nat /\ fresh <= said /\ fresh <= Len(ms)
  BY DEF History
<1>2. Apart(ms, dropped, tail) /\ Len(tail) = IF KeepN >= Len(ms) THEN Len(ms) ELSE KeepN
  BY <1>1, SplitApart
<1>3. rebuilt = Rebuild(tail, note)
  OBVIOUS
<1> HIDE DEF dropped, tail
<1>4. /\ dropped \in Seq(Written) /\ tail \in Seq(Written)
      /\ Len(dropped) \in Nat /\ Len(tail) \in Nat
      /\ Len(ms) = Len(dropped) + Len(tail)
      /\ \A i \in 1 .. Len(tail) : tail[i] = ms[Len(dropped) + i]
  BY <1>2 DEF Apart
<1>5. /\ rebuilt \in Seq(Written) /\ Len(rebuilt) = Len(tail) + 1 /\ rebuilt[1] = note
      /\ \A i \in 1 .. Len(tail) : rebuilt[i + 1] = tail[i]
  <2>1. tail \in Seq(Written) /\ note \in Written
    BY <1>4
  <2>2. LET r == Rebuild(tail, note) IN
        /\ r \in Seq(Written) /\ Len(r) = Len(tail) + 1 /\ r[1] = note
        /\ \A i \in 1 .. Len(tail) : r[i + 1] = tail[i]
    BY <2>1, RebuiltIs
  <2> QED BY <1>3, <2>2
<1>6. /\ left \in Nat /\ left <= fresh /\ left <= Len(tail) /\ left <= said
      /\ left = fresh \/ left = Len(tail)
  BY <1>1, <1>4
<1>7. Enough(said, left)
  BY <1>1, <1>2, <1>4 DEF Enough
<1> HIDE DEF left
<1>8. ASSUME NEW i \in 1 .. Len(rebuilt) - left PROVE IsNote(rebuilt[i]) /\ Fits(rebuilt[i], said)
  <2>1. CASE i = 1
    BY <1>5, <2>1
  <2>2. CASE i # 1
    <3>1. i - 1 \in 1 .. Len(tail) /\ (i - 1) + 1 = i
      BY <1>4, <1>5, <1>6, <2>2
    <3>2. rebuilt[i] = ms[Len(dropped) + (i - 1)]
      BY <1>4, <1>5, <3>1
    <3>3. Len(dropped) + (i - 1) \in 1 .. Len(ms) - fresh
      <4>1. i - 1 <= Len(tail) - left
        BY <1>4, <1>5, <1>6
      <4>2. left = fresh
        BY <1>4, <1>6, <3>1, <4>1
      <4> QED BY <1>1, <1>4, <3>1, <4>1, <4>2
    <3> QED BY <3>2, <3>3 DEF History
  <2> QED BY <2>1, <2>2
<1>9. ASSUME NEW i \in 1 .. left
      PROVE  \E s \in Lengths : rebuilt[Len(rebuilt) - left + i] = Message(said - left + i, s)
  <2> DEFINE j == Len(tail) - left + i
             k == fresh - left + i
  <2>1. /\ j \in 1 .. Len(tail) /\ Len(rebuilt) - left + i = j + 1
        /\ k \in 1 .. fresh /\ Len(dropped) + j = Len(ms) - fresh + k
        /\ said - left + i = said - fresh + k
    <3> DEFINE t == Len(tail)
               r == Len(rebuilt)
               d == Len(dropped)
               m == Len(ms)
    <3>1. /\ t \in Nat /\ d \in Nat /\ m \in Nat /\ r = t + 1 /\ m = d + t
          /\ fresh \in Nat /\ fresh <= m /\ said \in Nat
      BY <1>1, <1>4, <1>5
    <3>2. /\ left \in Nat /\ left <= fresh /\ left <= t /\ i \in Nat /\ 1 <= i /\ i <= left
      BY <1>6
    <3> HIDE DEF t, r, d, m
    <3>3. /\ j = t - left + i /\ k = fresh - left + i
      BY DEF t
    <3> HIDE DEF j, k
    <3>4. /\ j \in 1 .. t /\ r - left + i = j + 1 /\ k \in 1 .. fresh
          /\ d + j = m - fresh + k /\ said - left + i = said - fresh + k
      BY <3>1, <3>2, <3>3
    <3> QED BY <3>4 DEF t, r, d, m
  <2> HIDE DEF j, k
  <2>2. rebuilt[j + 1] = ms[Len(ms) - fresh + k]
    BY <1>4, <1>5, <2>1
  <2>3. \E s \in Lengths : ms[Len(ms) - fresh + k] = Message(said - fresh + k, s)
    BY <2>1 DEF History
  <2> QED BY <2>1, <2>2, <2>3
<1>10. left \in 0 .. said /\ left <= Len(rebuilt)
  BY <1>4, <1>5, <1>6
<1>11. History(rebuilt, said, left)
  BY <1>5, <1>8, <1>9, <1>10 DEF History
<1> QED BY <1>7, <1>10, <1>11

\* At first nothing has been said.
LEMMA TalkStart == CompactionInit => TalkInv
<1> SUFFICES ASSUME CompactionInit PROVE TalkInv
  OBVIOUS
<1>1. /\ talk \in [strategy : Strategies, keep : Keeps, messages : {<< >>}, memory : {{}}, said : {0}]
      /\ talk.messages = << >> /\ talk.said = 0 /\ talk.memory = {}
  BY DEF CompactionInit
<1>2. talk \in [strategy : Strategies, keep : Keeps, messages : Seq(Written),
               memory : SUBSET Nat, said : Nat]
  <2>1. << >> \in Seq(Written) /\ {} \in SUBSET Nat /\ 0 \in Nat
    OBVIOUS
  <2>2. /\ {<< >>} \subseteq Seq(Written) /\ {{}} \subseteq SUBSET Nat /\ {0} \subseteq Nat
    BY <2>1
  <2> QED BY <1>1, <2>2
<1>3. TalkShape
  <2>1. MaxSaid \in Nat
    BY CompactionAssumption
  <2> QED BY <1>1, <1>2, <2>1 DEF TalkShape
<1>4. NothingUnread
  <2>1. 1 .. talk.said = {}
    BY <1>1
  <2> QED BY <2>1 DEF NothingUnread
<1>5. History(talk.messages, talk.said, 0) /\ Enough(talk.said, 0)
  BY <1>1 DEF History, Enough
<1>6. 0 \in 0 .. talk.said
  BY <1>1
<1> QED BY <1>3, <1>4, <1>5, <1>6 DEF TalkInv

LEMMA KeepNNat == TalkShape => KeepN \in Nat
<1> SUFFICES ASSUME TalkShape PROVE KeepN \in Nat
  OBVIOUS
<1>1. talk.keep \in Keeps /\ Keeps \subseteq Nat
  BY CompactionAssumption DEF TalkShape
<1>2. talk.keep \in Nat
  BY <1>1
<1> QED BY <1>2 DEF KeepN

\* What is said is there to be read.
LEMMA SayKeeps ==
  ASSUME TalkInv, NEW size \in Lengths, Say(size)
  PROVE  TalkInv'
<1> DEFINE said == talk.said
           ms == talk.messages
           more == Append(ms, Message(said + 1, size))
<1>1. /\ talk \in [strategy : Strategies, keep : Keeps, messages : Seq(Written),
                   memory : SUBSET Nat, said : Nat]
      /\ said \in Nat /\ said <= MaxSaid /\ said < MaxSaid /\ MaxSaid \in Nat
      /\ talk.memory \subseteq Durable \cap 1 .. said
      /\ talk.memory # {} => talk.strategy = "offload_to_memory"
  <2>1. MaxSaid \in Nat
    BY CompactionAssumption
  <2> QED BY <2>1 DEF TalkInv, TalkShape, Say
<1>2. PICK fresh \in 0 .. said : History(ms, said, fresh) /\ Enough(said, fresh)
  BY DEF TalkInv
<1>3. History(more, said + 1, fresh + 1) /\ Told(more) = Told(ms) \cup {said + 1}
  BY <1>1, <1>2, HistorySaid
<1>4. more \in Seq(Written)
  BY <1>3 DEF History
<1>5. talk' = [talk EXCEPT !.said = said + 1, !.messages = more]
  BY DEF Say
<1>6. /\ said' = said + 1 /\ ms' = more /\ talk'.strategy = talk.strategy
      /\ talk'.keep = talk.keep /\ talk'.memory = talk.memory
      /\ talk' \in [strategy : Strategies, keep : Keeps, messages : Seq(Written),
                    memory : SUBSET Nat, said : Nat]
  <2> DEFINE next == talk.said + 1
  <2>1. next \in Nat /\ next = said + 1 /\ talk' = [talk EXCEPT !.said = next, !.messages = more]
    BY <1>1, <1>5
  <2> HIDE DEF more, next
  <2>2. /\ talk'.said = next /\ talk'.messages = more /\ talk'.strategy = talk.strategy
        /\ talk'.keep = talk.keep /\ talk'.memory = talk.memory
    BY <1>1, <2>1
  <2>3. talk' \in [strategy : Strategies, keep : Keeps, messages : Seq(Written),
                   memory : SUBSET Nat, said : Nat]
    BY <1>1, <1>4, <2>1
  <2> QED BY <2>1, <2>2, <2>3
<1>7. 1 .. said + 1 = (1 .. said) \cup {said + 1}
  BY <1>1
<1>8. TalkShape'
  <2>1. said + 1 <= MaxSaid
    BY <1>1
  <2> QED BY <1>1, <1>6, <1>7, <2>1 DEF TalkShape
<1>9. NothingUnread'
  <2>1. /\ talk.strategy = "hierarchical_summarization" => 1 .. said \subseteq Told(ms)
        /\ talk.strategy = "offload_to_memory" =>
             \A n \in Durable \cap 1 .. said : n \in talk.memory \cup Told(ms)
    BY DEF TalkInv, NothingUnread
  <2>2. Told(ms)' = Told(ms) \cup {said + 1}
    <3>1. Told(ms)' = Told(more)
      BY <1>6 DEF Told
    <3> QED BY <1>3, <3>1
  <2>3. /\ talk'.strategy = "hierarchical_summarization" => 1 .. said + 1 \subseteq Told(ms)'
        /\ talk'.strategy = "offload_to_memory" =>
             \A n \in Durable \cap 1 .. said + 1 : n \in talk'.memory \cup Told(ms)'
    <3> HIDE DEF ms
    <3> QED BY <1>6, <1>7, <2>1, <2>2
  <2> QED BY <1>6, <2>3 DEF NothingUnread
<1>10. \E f \in 0 .. talk'.said : History(talk'.messages, talk'.said, f) /\ Enough(talk.said, f)'
  <2>1. fresh + 1 \in 0 .. said + 1
    BY <1>1
  <2>2. Enough(talk.said, fresh + 1)'
    <3>1. KeepN' = KeepN /\ KeepN \in Nat
      BY <1>6, KeepNNat DEF KeepN, TalkInv
    <3>2. fresh + 1 = said + 1 \/ fresh + 1 >= KeepN
      BY <1>1, <1>2, <3>1 DEF Enough
    <3> QED BY <1>6, <3>1, <3>2 DEF Enough
  <2> HIDE DEF more
  <2> QED BY <1>3, <1>6, <2>1, <2>2
<1>11. (\E f \in 0 .. talk.said : History(talk.messages, talk.said, f) /\ Enough(talk.said, f))'
  BY <1>10 DEF History, IsNote, Fits
<1> QED BY <1>8, <1>9, <1>11 DEF TalkInv

\* A compaction that has what it drops read, or remembered.
LEMMA CompactedKeeps ==
  ASSUME TalkInv, NEW words \in Seq(0 .. talk.said), NEW of \in SUBSET (1 .. talk.said),
         NEW memory, talk.memory \subseteq memory, memory \subseteq Durable \cap 1 .. talk.said,
         memory # {} => talk.strategy = "offload_to_memory",
         talk' = [talk EXCEPT !.memory = memory,
                              !.messages = Rebuild(SplitKeepTail(talk.messages).kept, Note(words, of))],
         talk.strategy = "hierarchical_summarization" => Told(SplitKeepTail(talk.messages).dropped) \subseteq of,
         talk.strategy = "offload_to_memory" =>
           Durable \cap Told(SplitKeepTail(talk.messages).dropped) \subseteq memory
  PROVE  TalkInv'
<1> DEFINE said == talk.said
           ms == talk.messages
           dropped == SplitKeepTail(ms).dropped
           tail == SplitKeepTail(ms).kept
           note == Note(words, of)
           rebuilt == Rebuild(tail, note)
<1>1. /\ talk \in [strategy : Strategies, keep : Keeps, messages : Seq(Written),
                   memory : SUBSET Nat, said : Nat]
      /\ said \in Nat /\ said <= MaxSaid
      /\ KeepN \in Nat /\ ms \in Seq(Written)
  BY KeepNNat DEF TalkInv, TalkShape
<1>2. PICK fresh \in 0 .. said : History(ms, said, fresh) /\ Enough(said, fresh)
  BY DEF TalkInv
<1>3. note \in Written /\ note.of = of /\ IsNote(note) /\ Fits(note, said)
  BY <1>1, NoteMeans
<1>4. Apart(ms, dropped, tail)
  BY <1>1, SplitApart
<1>5. tail \in Seq(Written) /\ Told(ms) = Told(dropped) \cup Told(tail)
  <2> HIDE DEF dropped, tail
  <2>1. dropped \in Seq(Written) /\ tail \in Seq(Written)
    BY <1>4 DEF Apart
  <2> QED BY <1>1, <1>4, <2>1, ToldApart
<1>6. \E left \in 0 .. said : History(rebuilt, said, left) /\ Enough(said, left)
  <2> HIDE DEF note, said, ms
  <2> QED BY <1>1, <1>2, <1>3, HistoryCompacted DEF ms
<1>7. rebuilt \in Seq(Written) /\ Told(rebuilt) = of \cup Told(tail)
  <2> HIDE DEF note, tail, rebuilt
  <2>1. LET r == Rebuild(tail, note) IN r \in Seq(Written) /\ Told(r) = note.of \cup Told(tail)
    BY <1>3, <1>5, RebuiltIs
  <2> QED BY <1>3, <2>1 DEF rebuilt
<1>8. talk' = [talk EXCEPT !.memory = memory, !.messages = rebuilt]
  OBVIOUS
<1>9. memory \in SUBSET Nat
  BY <1>1
<1>10. /\ talk'.said = said /\ talk'.messages = rebuilt /\ talk'.strategy = talk.strategy
       /\ talk'.keep = talk.keep /\ talk'.memory = memory
       /\ talk' \in [strategy : Strategies, keep : Keeps, messages : Seq(Written),
                     memory : SUBSET Nat, said : Nat]
  <2> HIDE DEF rebuilt
  <2> QED BY <1>1, <1>7, <1>8, <1>9
<1>11. TalkShape'
  BY <1>1, <1>10 DEF TalkShape
<1>12. NothingUnread'
  <2>1. /\ talk.strategy = "hierarchical_summarization" =>
             1 .. said \subseteq Told(ms) /\ Told(dropped) \subseteq of
        /\ talk.strategy = "offload_to_memory" =>
             /\ \A n \in Durable \cap 1 .. said : n \in talk.memory \cup Told(ms)
             /\ Durable \cap Told(dropped) \subseteq memory
    BY DEF TalkInv, NothingUnread
  <2>2. Told(talk.messages)' = of \cup Told(tail)
    <3> HIDE DEF rebuilt, tail
    <3>1. Told(talk.messages)' = Told(rebuilt)
      BY <1>10 DEF Told
    <3> QED BY <1>7, <3>1
  <2> HIDE DEF said, ms, dropped, tail
  <2>3. /\ talk'.strategy = "hierarchical_summarization" => 1 .. said \subseteq Told(talk.messages)'
        /\ talk'.strategy = "offload_to_memory" =>
             \A n \in Durable \cap 1 .. said : n \in memory \cup Told(talk.messages)'
    BY <1>5, <1>10, <2>1, <2>2
  <2> HIDE DEF rebuilt
  <2> QED BY <1>10, <2>3 DEF NothingUnread
<1>13. (\E f \in 0 .. talk.said : History(talk.messages, talk.said, f) /\ Enough(talk.said, f))'
  <2> HIDE DEF rebuilt
  <2>1. KeepN' = KeepN
    BY <1>10 DEF KeepN
  <2>2. \E f \in 0 .. talk'.said : History(talk'.messages, talk'.said, f) /\ Enough(talk.said, f)'
    BY <1>6, <1>10, <2>1 DEF Enough
  <2> QED BY <2>2 DEF History, IsNote, Fits
<1> QED BY <1>11, <1>12, <1>13 DEF TalkInv

\* What is dropped was said.
LEMMA DroppedFits ==
  ASSUME TalkInv
  PROVE  LET dropped == SplitKeepTail(talk.messages).dropped IN
         /\ dropped \in Seq(Written) /\ \A i \in DOMAIN dropped : Fits(dropped[i], talk.said)
         /\ Told(dropped) \subseteq 1 .. talk.said
<1> DEFINE ms == talk.messages
           dropped == SplitKeepTail(ms).dropped
           tail == SplitKeepTail(ms).kept
<1>1. /\ talk.said \in Nat /\ KeepN \in Nat /\ ms \in Seq(Written)
  BY KeepNNat DEF TalkInv, TalkShape
<1>2. Apart(ms, dropped, tail)
  BY <1>1, SplitApart
<1>3. \A i \in DOMAIN ms : Fits(ms[i], talk.said)
  BY <1>1, HistoryFits DEF TalkInv
<1> HIDE DEF ms, dropped, tail
<1>4. /\ dropped \in Seq(Written)
      /\ \A i \in DOMAIN dropped : i \in DOMAIN ms /\ dropped[i] = ms[i]
  <2>1. /\ dropped \in Seq(Written) /\ tail \in Seq(Written)
        /\ Len(ms) = Len(dropped) + Len(tail)
        /\ \A i \in 1 .. Len(dropped) : dropped[i] = ms[i]
    BY <1>2 DEF Apart
  <2> QED BY <1>1, <2>1
<1>5. \A i \in DOMAIN dropped : Fits(dropped[i], talk.said)
  BY <1>3, <1>4
<1>6. Told(dropped) \subseteq 1 .. talk.said
  BY <1>4, <1>5, ToldSaid
<1> QED BY <1>4, <1>5, <1>6 DEF dropped, ms

LEMMA TalkStep == TalkInv /\ [CompactionNext]_talk => TalkInv'
<1> SUFFICES ASSUME TalkInv, [CompactionNext]_talk PROVE TalkInv'
  OBVIOUS
<1> DEFINE dropped == SplitKeepTail(talk.messages).dropped
           tail == SplitKeepTail(talk.messages).kept
<1>1. /\ dropped \in Seq(Written) /\ \A i \in DOMAIN dropped : Fits(dropped[i], talk.said)
      /\ Told(dropped) \subseteq 1 .. talk.said
  BY DroppedFits
<1>2. /\ talk \in [strategy : Strategies, keep : Keeps, messages : Seq(Written),
                   memory : SUBSET Nat, said : Nat]
      /\ talk.said \in Nat /\ talk.memory \subseteq Durable \cap 1 .. talk.said
      /\ talk.memory # {} => talk.strategy = "offload_to_memory"
  BY DEF TalkInv, TalkShape
<1>3. << >> \in Seq(0 .. talk.said) /\ {} \in SUBSET (1 .. talk.said)
  OBVIOUS
<1> HIDE DEF dropped, tail
<1>4. ASSUME NEW size \in Lengths, Say(size) PROVE TalkInv'
  BY <1>4, SayKeeps
<1>5. ASSUME CompactBySelection PROVE TalkInv'
  <2>1. /\ talk.strategy = "selective_retention"
        /\ talk' = [talk EXCEPT !.messages = Rebuild(tail, Note(Gist(dropped), {}))]
    BY <1>5 DEF CompactBySelection, dropped, tail
  <2>2. Gist(dropped) \in Seq(0 .. talk.said)
    BY <1>1, <1>2, GistWords
  <2>3. talk' = [talk EXCEPT !.memory = talk.memory,
                             !.messages = Rebuild(tail, Note(Gist(dropped), {}))]
    BY <1>2, <2>1
  <2>4. /\ ~(talk.strategy = "hierarchical_summarization")
        /\ ~(talk.strategy = "offload_to_memory")
    BY <2>1
  <2> QED BY <1>2, <1>3, <2>2, <2>3, <2>4, CompactedKeeps DEF tail
<1>6. ASSUME CompactBySummary PROVE TalkInv'
  <2>1. /\ talk.strategy = "hierarchical_summarization"
        /\ talk' = [talk EXCEPT !.messages = Rebuild(tail, Note(<< >>, Told(dropped)))]
    BY <1>6 DEF CompactBySummary, dropped, tail
  <2>2. talk' = [talk EXCEPT !.memory = talk.memory,
                             !.messages = Rebuild(tail, Note(<< >>, Told(dropped)))]
    BY <1>2, <2>1
  <2>3. ~(talk.strategy = "offload_to_memory") /\ Told(dropped) \in SUBSET (1 .. talk.said)
    BY <1>1, <2>1
  <2> QED BY <1>2, <1>3, <2>2, <2>3, CompactedKeeps DEF dropped, tail
<1>7. ASSUME CompactToMemory PROVE TalkInv'
  <2> DEFINE facts == {n \in Durable : \E m \in ToSet(dropped) : n \in m.of}
  <2>1. /\ talk.strategy = "offload_to_memory"
        /\ \/ talk' = [talk EXCEPT !.memory = talk.memory \cup facts,
                                   !.messages = Rebuild(tail, Note(<< >>, {}))]
           \/ \E n \in facts : talk' = [talk EXCEPT !.memory = talk.memory \cup {f \in facts : f < n}]
    BY <1>7 DEF CompactToMemory, dropped, tail
  <2>2. facts = Durable \cap Told(dropped)
    BY DEF Told
  <2> HIDE DEF facts
  <2>3. facts \subseteq Durable \cap 1 .. talk.said
    BY <1>1, <2>2
  <2>4. CASE talk' = [talk EXCEPT !.memory = talk.memory \cup facts,
                                  !.messages = Rebuild(tail, Note(<< >>, {}))]
    <3> DEFINE memory == talk.memory \cup facts
    <3>1. /\ talk.memory \subseteq memory /\ memory \subseteq Durable \cap 1 .. talk.said
          /\ Durable \cap Told(dropped) \subseteq memory
          /\ ~(talk.strategy = "hierarchical_summarization")
      BY <1>2, <2>1, <2>2, <2>3
    <3>2. talk' = [talk EXCEPT !.memory = memory, !.messages = Rebuild(tail, Note(<< >>, {}))]
      BY <2>4
    <3> HIDE DEF memory
    <3> QED BY <1>3, <2>1, <3>1, <3>2, CompactedKeeps DEF dropped, tail
  <2>5. CASE \E n \in facts : talk' = [talk EXCEPT !.memory = talk.memory \cup {f \in facts : f < n}]
    <3>1. PICK more \in SUBSET facts : talk' = [talk EXCEPT !.memory = talk.memory \cup more]
      BY <2>5
    <3>2. /\ talk'.said = talk.said /\ talk'.messages = talk.messages
          /\ talk'.strategy = talk.strategy /\ talk'.keep = talk.keep
          /\ talk'.memory = talk.memory \cup more
      BY <1>2, <3>1
    <3>3. talk' \in [strategy : Strategies, keep : Keeps, messages : Seq(Written),
                     memory : SUBSET Nat, said : Nat]
      <4>1. talk.memory \cup more \in SUBSET Nat
        BY <1>2, <2>3
      <4> QED BY <1>2, <3>1, <4>1
    <3>4. TalkShape'
      BY <2>1, <2>3, <3>2, <3>3 DEF TalkInv, TalkShape
    <3>5. NothingUnread'
      <4>1. Told(talk.messages)' = Told(talk.messages)
        BY <3>2 DEF Told
      <4> QED BY <2>1, <3>2, <4>1 DEF TalkInv, NothingUnread
    <3>6. (\E f \in 0 .. talk.said : History(talk.messages, talk.said, f) /\ Enough(talk.said, f))'
      <4>1. KeepN' = KeepN
        BY <3>2 DEF KeepN
      <4>2. \E f \in 0 .. talk'.said : History(talk'.messages, talk'.said, f) /\ Enough(talk.said, f)'
        BY <3>2, <4>1 DEF TalkInv, Enough
      <4> QED BY <4>2 DEF History, IsNote, Fits
    <3> QED BY <3>4, <3>5, <3>6 DEF TalkInv
  <2> QED BY <2>1, <2>4, <2>5
<1>8. ASSUME UNCHANGED talk PROVE TalkInv'
  <2>1. KeepN' = KeepN /\ Told(talk.messages)' = Told(talk.messages)
    BY <1>8 DEF KeepN, Told
  <2>2. TalkShape' /\ NothingUnread'
    BY <1>8, <2>1 DEF TalkInv, TalkShape, NothingUnread
  <2>3. \E f \in 0 .. talk'.said : History(talk'.messages, talk'.said, f) /\ Enough(talk.said, f)'
    BY <1>8, <2>1 DEF TalkInv, Enough
  <2>4. (\E f \in 0 .. talk.said : History(talk.messages, talk.said, f) /\ Enough(talk.said, f))'
    BY <2>3 DEF History, IsNote, Fits
  <2> QED BY <2>2, <2>4 DEF TalkInv
<1> QED BY <1>4, <1>5, <1>6, <1>7, <1>8 DEF CompactionNext

\* The last messages said are the end of a history with enough of them.
LEMMA LastTurns ==
  ASSUME TalkInv
  PROVE  LastTurnsStay
<1> DEFINE said == talk.said
           ms == talk.messages
           tail == IF KeepN < said THEN KeepN ELSE said
           before == Len(ms) - tail
<1>1. said \in Nat /\ KeepN \in Nat /\ ms \in Seq(Written) /\ Len(ms) \in Nat
  BY KeepNNat DEF TalkInv, TalkShape
<1>2. PICK fresh \in 0 .. said : History(ms, said, fresh) /\ Enough(said, fresh)
  BY DEF TalkInv
<1>3. /\ fresh \in Nat /\ tail \in Nat /\ tail <= fresh /\ fresh <= said /\ fresh <= Len(ms)
  BY <1>1, <1>2 DEF History, Enough
<1> HIDE DEF tail
<1>4. tail <= Len(ms)
  BY <1>1, <1>3
<1>5. ASSUME NEW i \in 1 .. tail
      PROVE  \E size \in Lengths : ms[before + i] = Message(said - tail + i, size)
  <2> DEFINE k == fresh - tail + i
  <2>1. k \in 1 .. fresh /\ Len(ms) - fresh + k = before + i /\ said - fresh + k = said - tail + i
    <3> HIDE DEF said, ms
    <3>1. i \in Nat /\ i >= 1 /\ i <= tail
      BY <1>3
    <3>2. k \in 1 .. fresh
      BY <1>3, <3>1
    <3>3. Len(ms) - fresh + k = before + i
      BY <1>1, <1>3, <3>1
    <3>4. said - fresh + k = said - tail + i
      BY <1>1, <1>3, <3>1
    <3> QED BY <3>2, <3>3, <3>4
  <2> HIDE DEF k, before
  <2>2. \E size \in Lengths : ms[Len(ms) - fresh + k] = Message(said - fresh + k, size)
    BY <1>2, <2>1 DEF History
  <2> QED BY <2>1, <2>2
<1>6. ASSUME NEW i \in DOMAIN ms, IsNote(ms[i]), NEW j \in 1 .. i PROVE IsNote(ms[j])
  <2>1. \A n \in DOMAIN ms : IsNote(ms[n]) <=> n <= Len(ms) - fresh
    BY <1>1, <1>2, HistoryFits
  <2>2. i <= Len(ms) - fresh
    BY <1>6, <2>1
  <2>3. j \in DOMAIN ms /\ j <= Len(ms) - fresh
    BY <1>1, <1>3, <2>2
  <2> QED BY <2>1, <2>3
<1>7. \A i \in 1 .. tail : \E size \in Lengths : ms[before + i] = Message(said - tail + i, size)
  BY <1>5
<1>8. \A i \in DOMAIN ms : IsNote(ms[i]) => \A j \in 1 .. i : IsNote(ms[j])
  BY <1>6
<1> QED BY <1>4, <1>7, <1>8 DEF LastTurnsStay, tail

\* Compaction (harness/compaction/): however long a conversation goes on and however
\* often it is compacted, by whichever strategy and with whatever notes in it, its last
\* turns stay as they were said, no text drops out of it unread by the summariser, and
\* no fact to be kept is lost, after offloads that failed part-way too.
THEOREM CompactionHolds == CompactionSpec => []TalkSound
<1>1. ASSUME TalkInv PROVE TalkTypeOK
  <2>1. talk.said \in Nat /\ talk.messages \in Seq(Written)
    BY <1>1 DEF TalkInv, TalkShape
  <2>2. PICK fresh : History(talk.messages, talk.said, fresh)
    BY <1>1 DEF TalkInv
  <2>3. \A i \in DOMAIN talk.messages :
          /\ Fits(talk.messages[i], talk.said)
          /\ ~IsNote(talk.messages[i]) => \E n : talk.messages[i].of = {n}
    BY <2>1, <2>2, HistoryFits
  <2>4. \A m \in ToSet(talk.messages) :
          /\ m.of \subseteq 1 .. talk.said /\ ToSet(m.text) \subseteq 0 .. talk.said
          /\ ~IsNote(m) => Cardinality(m.of) = 1
    <3>1. \A n : Cardinality({n}) = 1
      BY FS_Singleton
    <3>2. ASSUME NEW i \in DOMAIN talk.messages, ~IsNote(talk.messages[i])
          PROVE  Cardinality(talk.messages[i].of) = 1
      BY <2>3, <3>1, <3>2
    <3> QED BY <2>3, <3>2 DEF ToSet, Fits
  <2>5. /\ talk.strategy \in Strategies /\ talk.keep \in Keeps /\ talk.said \in 0 .. MaxSaid
        /\ talk.memory \subseteq Durable \cap 1 .. talk.said
        /\ talk.memory # {} => talk.strategy = "offload_to_memory"
    <3>1. MaxSaid \in Nat
      BY CompactionAssumption
    <3> QED BY <1>1, <3>1 DEF TalkInv, TalkShape
  <2> QED BY <2>4, <2>5 DEF TalkTypeOK
<1>2. TalkInv => TalkSound
  BY <1>1, LastTurns DEF TalkSound, TalkInv
<1>3. CompactionSpec => []TalkInv
  BY TalkStart, TalkStep, PTL DEF CompactionSpec
<1> QED BY <1>2, <1>3, PTL

-----------------------------------------------------------------------------
(***************************************************************************)
(* Memory.  The items a write still has to land are the end of all it was  *)
(* to write; what an undisturbed one has landed is held, under the number  *)
(* of the item or a later one.  The keys a delete goes by held, when they  *)
(* were listed, what it may delete; those written since it knows of.       *)
(***************************************************************************)

Ongoing(doing, user, kind, all, items, keys, after, alone) ==
  [doing |-> doing, user |-> user, kind |-> kind, all |-> all, items |-> items,
   keys |-> keys, since |-> after, alone |-> alone]
IsOngoing(j) ==
  j = Ongoing(j.doing, j.user, j.kind, j.all, j.items, j.keys, j.since, j.alone)

MadeItems == [key : Keys, kind : Kinds, n : Nat]
MemoryEntries == [item : MadeItems, user : Users]

ScopeOK(held, upto) ==
  \A key \in DOMAIN held : key \in Keys /\ held[key].key = key /\ held[key].n \in Nat /\ held[key].n <= upto

LongTermOK(held) ==
  \A key \in DOMAIN held : key \in Keys /\ held[key] \in MemoryEntries /\ held[key].item.key = key

ListedIn(held, u, kind) ==
  {key \in DOMAIN held : held[key].item.kind = kind /\ Visible(u, held[key])}

CallTyped(j) ==
  /\ IsOngoing(j)
  /\ j.doing \in {"write", "list", "delete"} /\ j.user \in Users /\ j.alone \in BOOLEAN
  /\ j.all \in Seq(MadeItems) /\ j.items \in Seq(MadeItems)
  /\ j.doing = "write" <=> j.items # << >>

LeftToWrite(j) ==
  /\ Len(j.items) <= Len(j.all)
  /\ \A i \in 1 .. Len(j.items) : j.items[i] = j.all[Len(j.all) - Len(j.items) + i]
  /\ \A i, k \in 1 .. Len(j.all) : i < k => j.all[i].n < j.all[k].n

Landed(j, upto, held) ==
  \A i \in 1 .. upto :
    LET key == j.all[i].key IN
    key \in DOMAIN held /\ held[key].user = j.user /\ held[key].item.n >= j.all[i].n

MayDelete(j, held) ==
  j.doing = "delete" =>
    \A key \in j.keys \cap DOMAIN held :
      \/ held[key].item.kind = j.kind /\ Visible(j.user, held[key])
      \/ held[key].item.n \in j.since

Undisturbed(j, held) ==
  /\ j.doing = "write" => Landed(j, Len(j.all) - Len(j.items), held)
  /\ j.doing = "delete" => j.keys = ListedIn(held, j.user, j.kind)

CallOK(j, held) ==
  /\ CallTyped(j) /\ LeftToWrite(j) /\ MayDelete(j, held)
  /\ j.alone => Undisturbed(j, held)

CallsOK == \A c \in Calls : call[c] = Returned \/ CallOK(call[c], longTerm)

CallsAlone ==
  \A c, d \in Calls : call[c] # Returned /\ call[c].alone /\ d # c => call[d] = Returned

ScopesOK == \A u \in Users : ScopeOK(working[u], made) /\ ScopeOK(session[u], made)

MemoryInv ==
  /\ working = [u \in Users |-> working[u]] /\ session = [u \in Users |-> session[u]]
  /\ call = [c \in Calls |-> call[c]]
  /\ made \in Nat /\ ScopesOK /\ LongTermOK(longTerm) /\ CallsOK /\ CallsAlone

LEMMA OngoingFields ==
  ASSUME NEW doing, NEW user, NEW kind, NEW all, NEW items, NEW keys, NEW after, NEW alone,
         NEW j, j = Ongoing(doing, user, kind, all, items, keys, after, alone)
  PROVE  /\ j.doing = doing /\ j.user = user /\ j.kind = kind /\ j.all = all /\ j.items = items
         /\ j.keys = keys /\ j.since = after /\ j.alone = alone
BY DEF Ongoing

LEMMA OngoingItems ==
  ASSUME NEW j, IsOngoing(j), NEW x
  PROVE  [j EXCEPT !.items = x] =
           Ongoing(j.doing, j.user, j.kind, j.all, x, j.keys, j.since, j.alone)
<1> DEFINE m == [j EXCEPT !.items = x]
<1>1. m = Ongoing(j.doing, j.user, j.kind, j.all, x, j.keys, j.since, j.alone)
  BY DEF Ongoing, IsOngoing
<1> QED BY <1>1, Zenon

LEMMA OngoingSince ==
  ASSUME NEW j, IsOngoing(j), NEW x
  PROVE  [j EXCEPT !.since = x] =
           Ongoing(j.doing, j.user, j.kind, j.all, j.items, j.keys, x, j.alone)
<1> DEFINE m == [j EXCEPT !.since = x]
<1>1. m = Ongoing(j.doing, j.user, j.kind, j.all, j.items, j.keys, x, j.alone)
  BY DEF Ongoing, IsOngoing
<1> QED BY <1>1, Zenon

LEMMA OngoingAlone ==
  ASSUME NEW j, IsOngoing(j), NEW x
  PROVE  [j EXCEPT !.alone = x] =
           Ongoing(j.doing, j.user, j.kind, j.all, j.items, j.keys, j.since, x)
<1> DEFINE m == [j EXCEPT !.alone = x]
<1>1. m = Ongoing(j.doing, j.user, j.kind, j.all, j.items, j.keys, j.since, x)
  BY DEF Ongoing, IsOngoing
<1> QED BY <1>1, Zenon

LEMMA OngoingDelete ==
  ASSUME NEW j, IsOngoing(j), NEW x
  PROVE  [j EXCEPT !.doing = "delete", !.keys = x] =
           Ongoing("delete", j.user, j.kind, j.all, j.items, x, j.since, j.alone)
<1> DEFINE m == [j EXCEPT !.doing = "delete"]
<1>1. m = Ongoing("delete", j.user, j.kind, j.all, j.items, j.keys, j.since, j.alone)
  BY DEF Ongoing, IsOngoing
<1>2. [j EXCEPT !.doing = "delete", !.keys = x] = [m EXCEPT !.keys = x]
  BY Zenon
<1> HIDE DEF m
<1>3. [m EXCEPT !.keys = x] =
        Ongoing("delete", j.user, j.kind, j.all, j.items, x, j.since, j.alone)
  BY <1>1 DEF Ongoing
<1> QED BY <1>2, <1>3, Zenon

LEMMA ReturnedIsIdle ==
  /\ Returned.doing = "nothing"
  /\ \A j : CallTyped(j) => j # Returned
<1>1. Returned.doing = "nothing"
  BY DEF Returned
<1>2. ASSUME NEW j, CallTyped(j) PROVE j # Returned
  BY <1>1, <1>2 DEF CallTyped
<1> QED BY <1>1, <1>2

\* What is held when one more is written.
LEMMA WithOne ==
  ASSUME NEW held, NEW key, NEW entry
  PROVE  /\ DOMAIN With(held, key, entry) = DOMAIN held \cup {key}
         /\ With(held, key, entry)[key] = entry
         /\ \A k \in DOMAIN held \ {key} : With(held, key, entry)[k] = held[k]
BY DEF With

LEMMA MemoryInvTypes ==
  ASSUME MemoryInv
  PROVE  MemoryTypeOK
<1>1. ASSUME NEW u \in Users, NEW held \in {working[u], session[u]}, NEW key \in DOMAIN held
      PROVE  key \in Keys /\ held[key].key = key /\ held[key].n <= made
  <2>1. ScopeOK(working[u], made) /\ ScopeOK(session[u], made)
    BY DEF MemoryInv, ScopesOK
  <2> QED BY <2>1 DEF ScopeOK
<1>2. ASSUME NEW key \in DOMAIN longTerm
      PROVE  longTerm[key].item.key = key /\ longTerm[key].user \in Users
  BY DEF MemoryInv, LongTermOK, MemoryEntries
<1>3. ASSUME NEW c \in InFlight
      PROVE  /\ call[c].doing \in {"write", "list", "delete"}
             /\ call[c].doing = "write" <=> call[c].items # << >>
  BY DEF MemoryInv, CallsOK, CallOK, CallTyped, InFlight
<1> QED BY <1>1, <1>2, <1>3 DEF MemoryTypeOK

-----------------------------------------------------------------------------
\* A call that starts.
LEMMA BeginKeepsCalls ==
  ASSUME MemoryInv, NEW c \in Calls, NEW u \in Users, NEW doing \in {"write", "list"}, NEW kind,
         NEW items \in Seq(MadeItems), Begin(c, u, doing, kind, items),
         doing = "write" <=> items # << >>,
         \A i, k \in 1 .. Len(items) : i < k => items[i].n < items[k].n,
         longTerm' = longTerm
  PROVE  /\ CallsOK' /\ CallsAlone' /\ call' = [d \in Calls |-> call'[d]]
         /\ call'[c] # Returned /\ call'[c].doing = doing /\ call'[c].user = u /\ call'[c].kind = kind
         /\ call[c] = Returned
         /\ \A d \in Calls \ {c} : call[d] = Returned <=> call'[d] = Returned
<1> DEFINE alone == InFlight = {}
           its == Ongoing(doing, u, kind, items, items, {}, {}, alone)
           no == FALSE
           Beside(j) == [j EXCEPT !.alone = no]
<1>1. /\ call[c] = Returned
      /\ call' = [d \in Calls |-> IF d = c THEN its
                                  ELSE IF call[d] = Returned THEN Returned ELSE Beside(call[d])]
  BY Zenon DEF Begin, Ongoing
<1>2. alone \in BOOLEAN /\ (alone => \A d \in Calls : call[d] = Returned)
  BY DEF InFlight
<1>3. no \in BOOLEAN /\ ~no
  OBVIOUS
<1> HIDE DEF alone, no, its
<1>4. /\ its.doing = doing /\ its.user = u /\ its.kind = kind /\ its.all = items
      /\ its.items = items /\ its.keys = {} /\ its.since = {} /\ its.alone = alone /\ IsOngoing(its)
  BY OngoingFields DEF its, IsOngoing
<1>5. CallTyped(its)
  BY <1>2, <1>4 DEF CallTyped
<1>6. CallOK(its, longTerm)
  <2>1. Len(items) \in Nat
    BY LenProperties
  <2>2. LeftToWrite(its)
    <3>1. \A i \in 1 .. Len(items) : items[i] = items[Len(items) - Len(items) + i]
      BY <2>1
    <3>2. Len(items) <= Len(items)
      BY <2>1
    <3> QED BY <1>4, <3>1, <3>2 DEF LeftToWrite
  <2>3. Undisturbed(its, longTerm) /\ MayDelete(its, longTerm)
    <3>1. Len(items) - Len(items) = 0
      BY <2>1
    <3>2. Landed(its, 0, longTerm)
      BY DEF Landed
    <3> QED BY <1>4, <3>1, <3>2 DEF Undisturbed, MayDelete
  <2> QED BY <1>5, <2>2, <2>3 DEF CallOK
<1>7. ASSUME NEW d \in Calls, call[d] # Returned
      PROVE  CallOK(Beside(call[d]), longTerm) /\ ~Beside(call[d]).alone
  <2> DEFINE j == call[d]
             k == Beside(j)
  <2>1. CallOK(j, longTerm)
    BY <1>7 DEF MemoryInv, CallsOK
  <2>2. IsOngoing(j)
    BY <2>1 DEF CallOK, CallTyped
  <2>3. k = Ongoing(j.doing, j.user, j.kind, j.all, j.items, j.keys, j.since, no)
    BY <2>2, OngoingAlone, Zenon
  <2> HIDE DEF k
  <2>4. /\ k.doing = j.doing /\ k.user = j.user /\ k.kind = j.kind /\ k.all = j.all
        /\ k.items = j.items /\ k.keys = j.keys /\ k.since = j.since /\ k.alone = no
    BY <2>3, OngoingFields
  <2>5. IsOngoing(k)
    BY <2>3, <2>4 DEF IsOngoing
  <2>6. CallTyped(k)
    BY <1>3, <2>1, <2>4, <2>5 DEF CallOK, CallTyped
  <2>7. LeftToWrite(k) /\ MayDelete(k, longTerm)
    BY <2>1, <2>4 DEF CallOK, LeftToWrite, MayDelete
  <2>8. CallOK(k, longTerm) /\ ~k.alone
    BY <1>3, <2>4, <2>6, <2>7 DEF CallOK
  <2> QED BY <2>8 DEF k
<1> HIDE DEF Beside
<1>8. its # Returned /\ \A d \in Calls : call[d] # Returned => Beside(call[d]) # Returned
  BY <1>5, <1>7, ReturnedIsIdle DEF CallOK
<1>9. ASSUME NEW d \in Calls
      PROVE  /\ call'[d] = Returned \/ CallOK(call'[d], longTerm)
             /\ d # c => (call[d] = Returned <=> call'[d] = Returned)
             /\ d # c /\ call'[d] # Returned => ~call'[d].alone
  BY <1>1, <1>6, <1>7, <1>8
<1>10. CallsOK'
  BY <1>9 DEF CallsOK
<1>11. call'[c] = its /\ call' = [d \in Calls |-> call'[d]]
  BY <1>1
<1>12. CallsAlone'
  <2>1. SUFFICES ASSUME NEW e \in Calls, NEW d \in Calls,
                        call'[e] # Returned, call'[e].alone, d # e
                 PROVE  call'[d] = Returned
    BY Zenon DEF CallsAlone
  <2>2. e = c
    BY <2>1, <1>9
  <2>3. alone
    BY <2>1, <2>2, <1>11, <1>4
  <2> QED BY <2>1, <2>2, <2>3, <1>2, <1>9
<1> QED BY <1>1, <1>4, <1>8, <1>9, <1>10, <1>11, <1>12

\* A call that writes one of its items: every delete under way gets to know of it.
LEMMA LandKeeps ==
  ASSUME MemoryInv, NEW c \in Calls, Land(c)
  PROVE  /\ MemoryInv'
         /\ DOMAIN longTerm \subseteq DOMAIN longTerm'
         /\ \A d \in Calls \ {c} : call[d] = Returned <=> call'[d] = Returned
         /\ call[c].doing = "write" /\ call[c] # Returned
         /\ call[c].alone /\ call'[c] = Returned =>
              Landed(call[c], Len(call[c].all), longTerm')
<1> DEFINE its == call[c]
           item == Head(its.items)
           rest == Tail(its.items)
           entry == [item |-> item, user |-> its.user]
           held == With(longTerm, item.key, entry)
           Fewer(j, q) == [j EXCEPT !.items = q]
           Knows(j, n) == [j EXCEPT !.since = j.since \cup {n}]
           On(d) == IF d # c THEN call[d] ELSE IF rest = << >> THEN Returned ELSE Fewer(its, rest)
           Aware(other) == IF other.doing = "delete" THEN Knows(other, item.n) ELSE other
<1>1. /\ its.doing = "write" /\ longTerm' = held
      /\ call' = [d \in Calls |-> Aware(On(d))]
      /\ UNCHANGED <<working, session, made, forgets>>
  BY Zenon DEF Land
<1>2. its # Returned
  BY <1>1, ReturnedIsIdle
<1>3. CallOK(its, longTerm) /\ LongTermOK(longTerm)
  BY <1>2 DEF MemoryInv, CallsOK
<1>4. /\ IsOngoing(its) /\ its.items \in Seq(MadeItems) /\ its.items # << >>
      /\ its.all \in Seq(MadeItems) /\ its.user \in Users
  BY <1>1, <1>3 DEF CallOK, CallTyped
<1>5. /\ item \in MadeItems /\ item = its.items[1]
      /\ rest \in Seq(MadeItems) /\ Len(rest) = Len(its.items) - 1
      /\ \A i \in 1 .. Len(rest) : rest[i] = its.items[i + 1]
      /\ Len(its.items) \in Nat /\ Len(its.items) >= 1
  BY <1>4, HeadTailProperties, EmptySeq, LenProperties
<1> HIDE DEF item, rest
<1>6. entry.item = item /\ entry.user = its.user /\ entry \in MemoryEntries /\ item.key \in Keys /\ item.n \in Nat
  BY <1>4, <1>5 DEF MemoryEntries, MadeItems
<1> HIDE DEF entry
<1>7. /\ DOMAIN held = DOMAIN longTerm \cup {item.key} /\ held[item.key] = entry
      /\ \A k \in DOMAIN longTerm \ {item.key} : held[k] = longTerm[k]
  BY DEF With
<1> HIDE DEF held
<1>8. LongTermOK(held)
  BY <1>3, <1>6, <1>7 DEF LongTermOK
\* The call that writes.
<1>9. /\ Len(its.all) \in Nat /\ Len(its.items) <= Len(its.all)
      /\ \A i \in 1 .. Len(its.items) : its.items[i] = its.all[Len(its.all) - Len(its.items) + i]
      /\ \A i, k \in 1 .. Len(its.all) : i < k => its.all[i].n < its.all[k].n
  BY <1>3, <1>4, LenProperties DEF CallOK, LeftToWrite
<1> DEFINE at == Len(its.all) - Len(its.items) + 1
<1>10. /\ at \in 1 .. Len(its.all) /\ item = its.all[at] /\ at = Len(its.all) - Len(rest)
       /\ Len(rest) \in Nat
  <2> DEFINE a == Len(its.all)
             l == Len(its.items)
             r == Len(rest)
  <2>1. 1 \in 1 .. l
    BY <1>5
  <2>2. its.items[1] = its.all[at]
    BY <1>9, <2>1
  <2>3. a \in Nat /\ l \in Nat /\ l >= 1 /\ l <= a /\ r = l - 1 /\ at = a - l + 1
    BY <1>5, <1>9
  <2>4. item = its.all[at]
    BY <1>5, <2>2
  <2> HIDE DEF a, l, r, at
  <2>5. at \in 1 .. a /\ at = a - r /\ r \in Nat
    BY <2>3
  <2> QED BY <2>4, <2>5 DEF a, r
<1>22. at \in Nat /\ 1 .. at \subseteq 1 .. Len(its.all) /\ Len(its.all) - Len(its.items) = at - 1
  <2> DEFINE a == Len(its.all)
             l == Len(its.items)
  <2>1. a \in Nat /\ l \in Nat /\ at = a - l + 1 /\ at \in 1 .. a
    BY <1>5, <1>9, <1>10
  <2> HIDE DEF a, l, at
  <2>2. at \in Nat /\ 1 .. at \subseteq 1 .. a /\ a - l = at - 1
    BY <2>1
  <2> QED BY <2>2 DEF a, l
<1>11. ASSUME its.alone PROVE Landed(its, at, held)
  <2>1. Landed(its, at - 1, longTerm)
    <3>1. Landed(its, Len(its.all) - Len(its.items), longTerm)
      BY <1>1, <1>3, <1>11 DEF CallOK, Undisturbed
    <3> QED BY <3>1, <1>22
  <2> SUFFICES ASSUME NEW i \in 1 .. at
               PROVE  LET key == its.all[i].key IN
                      /\ key \in DOMAIN held /\ held[key].user = its.user
                      /\ held[key].item.n >= its.all[i].n
    BY DEF Landed
  <2> DEFINE key == its.all[i].key
  <2> HIDE DEF at
  <2>2. at \in Nat /\ i \in Nat /\ i \in 1 .. Len(its.all)
    BY <1>22
  <2>3. its.all[i] \in MadeItems
    BY <1>4, <2>2, ElementOfSeq
  <2>4. its.all[i].n \in Nat
    BY <2>3 DEF MadeItems
  <2>5. CASE key = item.key
    <3>1. held[key] = entry /\ key \in DOMAIN held
      BY <1>7, <2>5
    <3>2. item.n >= its.all[i].n
      <4>1. CASE i = at
        BY <1>6, <1>10, <4>1
      <4>2. CASE i # at
        <5>1. i < at
          BY <2>2, <4>2
        <5>2. its.all[i].n < its.all[at].n
          BY <1>9, <1>10, <2>2, <5>1
        <5> DEFINE earlier == its.all[i].n
                   own == item.n
        <5>3. own = its.all[at].n
          BY <1>10
        <5>4. earlier < own /\ earlier \in Nat /\ own \in Nat
          BY <1>6, <2>4, <5>2, <5>3
        <5> HIDE DEF earlier, own
        <5>5. own >= earlier
          BY <5>4
        <5> QED BY <5>5 DEF earlier, own
      <4> QED BY <4>1, <4>2
    <3> QED BY <1>6, <3>1, <3>2
  <2>6. CASE key # item.key
    <3>1. i # at
      BY <1>10, <2>6
    <3>2. i \in 1 .. at - 1
      BY <2>2, <3>1
    <3>3. key \in DOMAIN longTerm /\ longTerm[key].user = its.user /\ longTerm[key].item.n >= its.all[i].n
      BY <2>1, <3>2 DEF Landed
    <3> QED BY <1>7, <2>6, <3>3
  <2> QED BY <2>5, <2>6
<1> HIDE DEF at
<1>12. ASSUME rest # << >>
       PROVE  LET k == Fewer(its, rest) IN
              CallOK(k, held) /\ k.alone = its.alone /\ k.doing = "write" /\ k # Returned
  <2> DEFINE k == Fewer(its, rest)
  <2>1. k = Ongoing(its.doing, its.user, its.kind, its.all, rest, its.keys, its.since, its.alone)
    BY <1>4, OngoingItems, Zenon
  <2> HIDE DEF k
  <2>2. /\ k.doing = its.doing /\ k.user = its.user /\ k.kind = its.kind /\ k.all = its.all
        /\ k.items = rest /\ k.keys = its.keys /\ k.since = its.since /\ k.alone = its.alone
    BY <2>1, OngoingFields
  <2>3. IsOngoing(k)
    BY <2>1, <2>2 DEF IsOngoing
  <2>4. CallTyped(k)
    BY <1>1, <1>3, <1>5, <1>12, <2>2, <2>3 DEF CallOK, CallTyped
  <2>5. LeftToWrite(k)
    <3>1. ASSUME NEW i \in 1 .. Len(rest)
          PROVE  rest[i] = its.all[Len(its.all) - Len(rest) + i]
      <4>1. i + 1 \in 1 .. Len(its.items) /\ rest[i] = its.items[i + 1]
        BY <1>5, <1>10
      <4>2. its.items[i + 1] = its.all[Len(its.all) - Len(its.items) + (i + 1)]
        BY <1>9, <4>1
      <4>3. Len(its.all) - Len(its.items) + (i + 1) = Len(its.all) - Len(rest) + i
        <5> DEFINE a == Len(its.all)
                   l == Len(its.items)
                   r == Len(rest)
        <5>1. a \in Nat /\ l \in Nat /\ r \in Nat /\ r = l - 1 /\ i \in Nat
          BY <1>5, <1>9, <1>10
        <5> HIDE DEF a, l, r
        <5>2. a - l + (i + 1) = a - r + i
          BY <5>1
        <5> QED BY <5>2 DEF a, l, r
      <4> QED BY <4>1, <4>2, <4>3
    <3>2. Len(rest) <= Len(its.all)
      BY <1>5, <1>9, <1>10
    <3> QED BY <1>9, <2>2, <3>1, <3>2 DEF LeftToWrite
  <2>6. MayDelete(k, held)
    BY <1>1, <2>2 DEF MayDelete
  <2>7. k.alone => Undisturbed(k, held)
    <3>1. k.alone => Landed(k, Len(k.all) - Len(k.items), held)
      BY <1>10, <1>11, <2>2 DEF Landed
    <3> QED BY <1>1, <2>2, <3>1 DEF Undisturbed
  <2>8. CallOK(k, held) /\ k.alone = its.alone /\ k.doing = "write" /\ k # Returned
    BY <1>1, <2>2, <2>4, <2>5, <2>6, <2>7, ReturnedIsIdle DEF CallOK
  <2> QED BY <2>8 DEF k
<1> HIDE DEF Fewer
<1>13. /\ call'[c] = IF rest = << >> THEN Returned ELSE Fewer(its, rest)
       /\ \A d \in Calls \ {c} : call'[d] = IF call[d].doing = "delete" THEN Knows(call[d], item.n) ELSE call[d]
  <2>1. On(c) = IF rest = << >> THEN Returned ELSE Fewer(its, rest)
    OBVIOUS
  <2>2. On(c).doing # "delete"
    BY <2>1, <1>12, ReturnedIsIdle
  <2>3. \A d \in Calls \ {c} : On(d) = call[d]
    OBVIOUS
  <2> HIDE DEF On, Knows
  <2> QED BY <1>1, <2>1, <2>2, <2>3
\* The others.
<1>14. ASSUME NEW d \in Calls \ {c}, call[d] # Returned
       PROVE  CallOK(call'[d], held) /\ ~call'[d].alone
  <2> DEFINE j == call[d]
             k == Knows(j, item.n)
  <2>1. CallOK(j, longTerm) /\ ~j.alone
    BY <1>2, <1>14 DEF MemoryInv, CallsOK, CallsAlone
  <2>2. CASE j.doing # "delete"
    <3>1. call'[d] = j
      BY <1>13, <2>2
    <3>2. MayDelete(j, held)
      BY <2>2 DEF MayDelete
    <3> QED BY <2>1, <3>1, <3>2 DEF CallOK
  <2>3. CASE j.doing = "delete"
    <3>1. call'[d] = k
      BY <1>13, <2>3
    <3>2. IsOngoing(j)
      BY <2>1 DEF CallOK, CallTyped
    <3>3. k = Ongoing(j.doing, j.user, j.kind, j.all, j.items, j.keys, j.since \cup {item.n}, j.alone)
      BY <3>2, OngoingSince, Zenon
    <3> HIDE DEF k
    <3>4. /\ k.doing = j.doing /\ k.user = j.user /\ k.kind = j.kind /\ k.all = j.all
          /\ k.items = j.items /\ k.keys = j.keys /\ k.since = j.since \cup {item.n} /\ k.alone = j.alone
      BY <3>3, OngoingFields
    <3>5. IsOngoing(k)
      BY <3>3, <3>4 DEF IsOngoing
    <3>6. CallTyped(k) /\ LeftToWrite(k)
      BY <2>1, <3>4, <3>5 DEF CallOK, CallTyped, LeftToWrite
    <3>7. MayDelete(k, held)
      <4>1. ASSUME NEW key \in j.keys \cap DOMAIN held
            PROVE  \/ held[key].item.kind = j.kind /\ Visible(j.user, held[key])
                   \/ held[key].item.n \in j.since \cup {item.n}
        <5>1. CASE key = item.key
          BY <1>6, <1>7, <5>1
        <5>2. CASE key # item.key
          <6>1. key \in j.keys \cap DOMAIN longTerm /\ held[key] = longTerm[key]
            BY <1>7, <5>2
          <6>2. MayDelete(j, longTerm)
            BY <2>1 DEF CallOK
          <6> QED BY <2>3, <6>1, <6>2 DEF MayDelete
        <5> QED BY <5>1, <5>2
      <4> QED BY <3>4, <4>1 DEF MayDelete
    <3> QED BY <2>1, <3>1, <3>4, <3>6, <3>7 DEF CallOK
  <2> QED BY <2>2, <2>3
<1>15. ASSUME NEW d \in Calls \ {c}, call[d] = Returned
       PROVE  call'[d] = Returned
  BY <1>13, <1>15, ReturnedIsIdle
<1>16. CallsOK'
  <2>1. ASSUME NEW d \in Calls PROVE call'[d] = Returned \/ CallOK(call'[d], held)
    BY <1>12, <1>13, <1>14, <1>15
  <2> QED BY <1>1, <2>1 DEF CallsOK
<1>17. CallsAlone'
  <2>1. SUFFICES ASSUME NEW e \in Calls, NEW d \in Calls,
                        call'[e] # Returned, call'[e].alone, d # e
                 PROVE  call'[d] = Returned
    BY Zenon DEF CallsAlone
  <2>2. e = c
    BY <2>1, <1>14, <1>15
  <2>3. its.alone
    BY <2>1, <2>2, <1>12, <1>13
  <2>4. call[d] = Returned
    BY <1>2, <2>1, <2>2, <2>3 DEF MemoryInv, CallsAlone
  <2> QED BY <1>15, <2>1, <2>2, <2>4
<1>18. call' = [d \in Calls |-> call'[d]]
  BY <1>1
<1>19. MemoryInv'
  <2>1. LongTermOK(longTerm)'
    BY <1>1, <1>8 DEF LongTermOK
  <2>2. ScopesOK' /\ made' \in Nat
    BY <1>1 DEF MemoryInv, ScopesOK, ScopeOK
  <2>3. working' = [u \in Users |-> working'[u]] /\ session' = [u \in Users |-> session'[u]]
    BY <1>1 DEF MemoryInv
  <2> QED BY <1>16, <1>17, <1>18, <2>1, <2>2, <2>3 DEF MemoryInv
<1>20. its.alone /\ call'[c] = Returned => Landed(its, Len(its.all), held)
  <2>1. SUFFICES ASSUME its.alone, call'[c] = Returned PROVE Landed(its, Len(its.all), held)
    OBVIOUS
  <2>2. rest = << >>
    BY <2>1, <1>12, <1>13
  <2>3. Len(rest) = 0
    BY <2>2, EmptySeq
  <2>4. at = Len(its.all)
    BY <1>9, <1>10, <2>3
  <2> QED BY <1>11, <2>1, <2>4
<1>21. \A d \in Calls \ {c} : call[d] = Returned <=> call'[d] = Returned
  BY <1>14, <1>15, ReturnedIsIdle DEF CallOK
<1> QED BY <1>1, <1>2, <1>7, <1>19, <1>20, <1>21

\* A call that ends, or that has listed what it may delete; another call under way
\* beside it is not alone, and of what it lists nothing is written anew.
LEMMA OneCallKeeps ==
  ASSUME MemoryInv, NEW c \in Calls, call[c] # Returned,
         NEW its, NEW held, longTerm' = held, LongTermOK(held),
         DOMAIN held \subseteq DOMAIN longTerm, \A key \in DOMAIN held : held[key] = longTerm[key],
         call' = [call EXCEPT ![c] = its],
         its = Returned \/ (CallOK(its, held) /\ its.alone = call[c].alone),
         UNCHANGED <<working, session, made>>
  PROVE  MemoryInv'
<1>1. /\ call = [d \in Calls |-> call[d]]
      /\ call' = [d \in Calls |-> call'[d]] /\ call'[c] = its
      /\ \A d \in Calls \ {c} : call'[d] = call[d]
  BY DEF MemoryInv
<1>2. ASSUME NEW d \in Calls \ {c}, call[d] # Returned
      PROVE  CallOK(call[d], held) /\ ~call[d].alone
  <2>1. CallOK(call[d], longTerm) /\ ~call[d].alone
    BY <1>2 DEF MemoryInv, CallsOK, CallsAlone
  <2>2. MayDelete(call[d], held)
    BY <2>1 DEF CallOK, MayDelete
  <2> QED BY <2>1, <2>2 DEF CallOK
<1>3. CallsOK'
  <2>1. ASSUME NEW d \in Calls PROVE call'[d] = Returned \/ CallOK(call'[d], held)
    BY <1>1, <1>2
  <2> QED BY <2>1 DEF CallsOK
<1>4. CallsAlone'
  <2>1. SUFFICES ASSUME NEW e \in Calls, NEW d \in Calls,
                        call'[e] # Returned, call'[e].alone, d # e
                 PROVE  call'[d] = Returned
    BY Zenon DEF CallsAlone
  <2>2. e = c
    BY <2>1, <1>1, <1>2
  <2>3. call[c].alone
    BY <2>1, <2>2, <1>1
  <2>4. call[d] = Returned
    BY <2>1, <2>2, <2>3 DEF MemoryInv, CallsAlone
  <2> QED BY <2>1, <2>2, <2>4, <1>1
<1>5. LongTermOK(longTerm)' /\ ScopesOK' /\ made' \in Nat
  BY DEF MemoryInv, ScopesOK, ScopeOK, LongTermOK
<1>6. working' = [u \in Users |-> working'[u]] /\ session' = [u \in Users |-> session'[u]]
  BY DEF MemoryInv
<1> QED BY <1>1, <1>3, <1>4, <1>5, <1>6 DEF MemoryInv

LEMMA BreakOffInv ==
  ASSUME MemoryInv, NEW c \in Calls, BreakOff(c)
  PROVE  MemoryInv'
<1>1. /\ call[c].doing \in {"write", "list", "delete"} /\ call' = [call EXCEPT ![c] = Returned]
      /\ UNCHANGED <<working, session, longTerm, made, forgets>>
  BY DEF BreakOff
<1>2. call[c] # Returned
  BY <1>1, ReturnedIsIdle
<1>3. LongTermOK(longTerm)
  BY DEF MemoryInv
<1> QED BY <1>1, <1>2, <1>3, OneCallKeeps

LEMMA ListInv ==
  ASSUME MemoryInv, NEW c \in Calls, List(c)
  PROVE  MemoryInv'
<1> DEFINE j == call[c]
           found == ListedKeys(j.user, j.kind)
           k == [j EXCEPT !.doing = "delete", !.keys = found]
           its == IF found = {} THEN Returned ELSE k
<1>1. /\ j.doing = "list" /\ call' = [call EXCEPT ![c] = its]
      /\ UNCHANGED <<working, session, longTerm, made, forgets>>
  BY Zenon DEF List
<1>2. j # Returned
  BY <1>1, ReturnedIsIdle
<1>3. CallOK(j, longTerm) /\ LongTermOK(longTerm)
  BY <1>2 DEF MemoryInv, CallsOK
<1>4. IsOngoing(j)
  BY <1>3 DEF CallOK, CallTyped
<1>5. k = Ongoing("delete", j.user, j.kind, j.all, j.items, found, j.since, j.alone)
  BY <1>4, OngoingDelete, Zenon
<1> HIDE DEF k
<1>6. /\ k.doing = "delete" /\ k.user = j.user /\ k.kind = j.kind /\ k.all = j.all
      /\ k.items = j.items /\ k.keys = found /\ k.since = j.since /\ k.alone = j.alone
  BY <1>5, OngoingFields
<1>7. found = ListedIn(longTerm, j.user, j.kind)
  BY DEF ListedKeys, ListedIn
<1> HIDE DEF found
<1>8. IsOngoing(k)
  BY <1>5, <1>6 DEF IsOngoing
<1>9. CallTyped(k)
  BY <1>1, <1>3, <1>6, <1>8 DEF CallOK, CallTyped
<1>10. LeftToWrite(k)
  BY <1>3, <1>6 DEF CallOK, LeftToWrite
<1>11. MayDelete(k, longTerm)
  BY <1>6, <1>7 DEF MayDelete, ListedIn
<1>12. Undisturbed(k, longTerm)
  BY <1>6, <1>7 DEF Undisturbed
<1>13. CallOK(k, longTerm)
  BY <1>9, <1>10, <1>11, <1>12 DEF CallOK
<1>14. its = Returned \/ (CallOK(its, longTerm) /\ its.alone = j.alone)
  BY <1>6, <1>13
<1> HIDE DEF its
<1> QED BY <1>1, <1>2, <1>3, <1>14, OneCallKeeps

\* A delete leaves what it has not listed, and takes only what it may.
LEMMA DeleteKeeps ==
  ASSUME MemoryInv, NEW c \in Calls, Delete(c)
  PROVE  /\ MemoryInv' /\ call[c] # Returned /\ call[c].doing = "delete"
         /\ call[c].alone =>
              \A key \in DOMAIN longTerm' :
                longTerm'[key].item.kind = call[c].kind => ~Visible(call[c].user, longTerm'[key])
         /\ \A key \in DOMAIN longTerm \ DOMAIN longTerm' :
              \/ longTerm[key].item.kind = call[c].kind /\ Visible(call[c].user, longTerm[key])
              \/ longTerm[key].item.n \in call[c].since
<1> DEFINE j == call[c]
           held == [key \in DOMAIN longTerm \ j.keys |-> longTerm[key]]
<1>1. /\ j.doing = "delete" /\ longTerm' = held /\ call' = [call EXCEPT ![c] = Returned]
      /\ UNCHANGED <<working, session, made, forgets>>
  BY DEF Delete
<1>2. j # Returned
  BY <1>1, ReturnedIsIdle
<1>3. CallOK(j, longTerm) /\ LongTermOK(longTerm)
  BY <1>2 DEF MemoryInv, CallsOK
<1>4. DOMAIN held = DOMAIN longTerm \ j.keys /\ \A key \in DOMAIN held : held[key] = longTerm[key]
  OBVIOUS
<1> HIDE DEF held
<1>5. LongTermOK(held)
  BY <1>3, <1>4 DEF LongTermOK
<1>6. MemoryInv'
  BY <1>1, <1>2, <1>4, <1>5, OneCallKeeps
<1>7. j.alone => \A key \in DOMAIN held : held[key].item.kind = j.kind => ~Visible(j.user, held[key])
  BY <1>1, <1>3, <1>4 DEF CallOK, Undisturbed, ListedIn
<1>8. \A key \in DOMAIN longTerm \ DOMAIN held :
        \/ longTerm[key].item.kind = j.kind /\ Visible(j.user, longTerm[key])
        \/ longTerm[key].item.n \in j.since
  BY <1>1, <1>3, <1>4 DEF CallOK, MayDelete
<1> QED BY <1>1, <1>2, <1>6, <1>7, <1>8

\* The scopes of a user.
LEMMA WriteScopeInv ==
  ASSUME MemoryInv, NEW u \in Users, NEW key \in Keys, NEW kind \in Kinds, made' = made + 1,
         \/ working' = [working EXCEPT ![u] = With(@, key, Item(key, kind, made + 1))] /\ session' = session
         \/ session' = [session EXCEPT ![u] = With(@, key, Item(key, kind, made + 1))] /\ working' = working,
         UNCHANGED <<longTerm, call>>
  PROVE  MemoryInv'
<1> DEFINE item == Item(key, kind, made + 1)
           More(held) == With(held, key, item)
<1>1. /\ working = [v \in Users |-> working[v]] /\ session = [v \in Users |-> session[v]]
      /\ made \in Nat /\ ScopesOK
  BY DEF MemoryInv
<1>2. item.key = key /\ item.n = made + 1
  BY DEF Item
<1> HIDE DEF item
<1>3. ASSUME NEW held, ScopeOK(held, made)
      PROVE  ScopeOK(held, made + 1) /\ ScopeOK(More(held), made + 1)
  <2>1. ASSUME NEW k \in DOMAIN held PROVE k \in Keys /\ held[k].key = k /\ held[k].n \in Nat /\ held[k].n <= made
    BY <1>3 DEF ScopeOK
  <2>2. ASSUME NEW n \in Nat, n <= made PROVE n <= made + 1
    BY <1>1, <2>2
  <2>3. ScopeOK(held, made + 1)
    BY <2>1, <2>2 DEF ScopeOK
  <2>4. /\ DOMAIN More(held) = DOMAIN held \cup {key} /\ More(held)[key] = item
        /\ \A k \in DOMAIN held \ {key} : More(held)[k] = held[k]
    BY DEF With
  <2>5. made + 1 \in Nat /\ made + 1 <= made + 1
    BY <1>1
  <2> HIDE DEF More
  <2>6. ASSUME NEW k \in DOMAIN More(held)
        PROVE  /\ k \in Keys /\ More(held)[k].key = k
               /\ More(held)[k].n \in Nat /\ More(held)[k].n <= made + 1
    BY <1>2, <2>1, <2>2, <2>4, <2>5
  <2> QED BY <2>3, <2>6 DEF ScopeOK
<1>4. \A v \in Users : ScopeOK(working[v], made) /\ ScopeOK(session[v], made)
  BY <1>1 DEF ScopesOK
<1> HIDE DEF More
<1>5. CASE working' = [working EXCEPT ![u] = More(@)] /\ session' = session
  <2>1. working' = [v \in Users |-> working'[v]] /\ session' = [v \in Users |-> session'[v]]
    BY <1>1, <1>5
  <2>2. \A v \in Users : ScopeOK(working'[v], made + 1) /\ ScopeOK(session'[v], made + 1)
    BY <1>1, <1>3, <1>4, <1>5
  <2> QED BY <1>1, <2>1, <2>2 DEF MemoryInv, ScopesOK, CallsOK, CallsAlone, LongTermOK
<1>6. CASE session' = [session EXCEPT ![u] = More(@)] /\ working' = working
  <2>1. working' = [v \in Users |-> working'[v]] /\ session' = [v \in Users |-> session'[v]]
    BY <1>1, <1>6
  <2>2. \A v \in Users : ScopeOK(working'[v], made + 1) /\ ScopeOK(session'[v], made + 1)
    BY <1>1, <1>3, <1>4, <1>6
  <2> QED BY <1>1, <2>1, <2>2 DEF MemoryInv, ScopesOK, CallsOK, CallsAlone, LongTermOK
<1> QED BY <1>5, <1>6 DEF More, item

LEMMA ClearInv ==
  ASSUME MemoryInv, NEW u \in Users, ClearWorking(u)
  PROVE  MemoryInv'
<1>1. /\ working' = [working EXCEPT ![u] = << >>]
      /\ UNCHANGED <<session, longTerm, call, made, forgets>>
  BY DEF ClearWorking
<1>2. working = [v \in Users |-> working[v]] /\ ScopesOK
  BY DEF MemoryInv
<1>3. ScopeOK(<< >>, made)
  BY DEF ScopeOK
<1>4. working' = [v \in Users |-> working'[v]]
  BY <1>1, <1>2
<1>5. ScopesOK'
  BY <1>1, <1>2, <1>3 DEF ScopesOK
<1> QED BY <1>1, <1>4, <1>5 DEF MemoryInv, CallsOK, CallsAlone, LongTermOK

\* A consolidation numbers its facts in their order.
LEMMA RememberKeeps ==
  ASSUME MemoryInv, NEW c \in Calls, NEW u \in Users, NEW n \in 1 .. 2,
         NEW facts \in [1 .. n -> Keys \X Kinds], Remember(c, u, facts)
  PROVE  /\ MemoryInv' /\ longTerm' = longTerm /\ call'[c].doing = "write"
         /\ \A d \in Calls \ {c} : call[d] = Returned <=> call'[d] = Returned
         /\ call[c] = Returned
<1> DEFINE items == [i \in DOMAIN facts |-> Item(facts[i][1], facts[i][2], made + i)]
<1>1. /\ made' = made + Len(facts) /\ Begin(c, u, "write", "any", items)
      /\ UNCHANGED <<working, session, longTerm, forgets>>
  BY DEF Remember
<1>2. made \in Nat /\ n \in Nat /\ n >= 1 /\ DOMAIN facts = 1 .. n
  BY DEF MemoryInv
<1>3. Len(facts) = n
  BY <1>2
<1>4. \A i \in 1 .. n : items[i] \in MadeItems /\ items[i].n = made + i
  BY <1>2 DEF Item, MadeItems
<1>5. items \in Seq(MadeItems) /\ DOMAIN items = 1 .. n
  BY <1>2, <1>4
<1> HIDE DEF items
<1>6. Len(items) = n /\ items # << >>
  <2>1. Len(items) = n
    BY <1>2, <1>5
  <2>2. Len(<< >>) = 0
    OBVIOUS
  <2> QED BY <1>2, <2>1, <2>2
<1>7. \A i, k \in 1 .. Len(items) : i < k => items[i].n < items[k].n
  BY <1>2, <1>4, <1>6
<1>8. /\ CallsOK' /\ CallsAlone' /\ call' = [d \in Calls |-> call'[d]]
      /\ call'[c].doing = "write" /\ call[c] = Returned
      /\ \A d \in Calls \ {c} : call[d] = Returned <=> call'[d] = Returned
  BY <1>1, <1>5, <1>6, <1>7, BeginKeepsCalls
<1>9. ScopesOK' /\ made' \in Nat
  <2>1. made' \in Nat /\ \A x \in Nat : x <= made => x <= made'
    BY <1>1, <1>2, <1>3
  <2>2. ASSUME NEW held, ScopeOK(held, made) PROVE ScopeOK(held, made')
    BY <2>1, <2>2 DEF ScopeOK
  <2>3. ScopesOK
    BY DEF MemoryInv
  <2> QED BY <1>1, <2>1, <2>2, <2>3 DEF ScopesOK
<1>10. MemoryInv'
  BY <1>1, <1>8, <1>9 DEF MemoryInv, LongTermOK
<1> QED BY <1>1, <1>8, <1>10

LEMMA ForgetKeeps ==
  ASSUME MemoryInv, NEW c \in Calls, NEW u \in Users, NEW kind \in Kinds, Forget(c, u, kind)
  PROVE  /\ MemoryInv' /\ longTerm' = longTerm /\ call[c] = Returned
         /\ call'[c].user = u /\ call'[c].kind = kind
         /\ Forgotten(working'[u], kind) /\ Forgotten(session'[u], kind)
         /\ \A d \in Calls \ {c} : call[d] = Returned <=> call'[d] = Returned
<1>1. /\ working' = [working EXCEPT ![u] = Without(@, kind)]
      /\ session' = [session EXCEPT ![u] = Without(@, kind)]
      /\ Begin(c, u, "list", kind, << >>)
      /\ UNCHANGED <<longTerm, made>>
  BY DEF Forget
<1>2. /\ working = [v \in Users |-> working[v]] /\ session = [v \in Users |-> session[v]]
      /\ made \in Nat /\ ScopesOK
  BY DEF MemoryInv
<1>3. << >> \in Seq(MadeItems) /\ Len(<< >>) = 0
  OBVIOUS
<1>4. /\ CallsOK' /\ CallsAlone' /\ call' = [d \in Calls |-> call'[d]]
      /\ call[c] = Returned /\ call'[c].user = u /\ call'[c].kind = kind
      /\ \A d \in Calls \ {c} : call[d] = Returned <=> call'[d] = Returned
  <2>1. \A i, k \in 1 .. Len(<< >>) : i < k => << >>[i].n < << >>[k].n
    BY <1>3
  <2> QED BY <1>1, <1>3, <2>1, BeginKeepsCalls
<1>5. ASSUME NEW held
      PROVE  /\ Forgotten(Without(held, kind), kind)
             /\ ScopeOK(held, made) => ScopeOK(Without(held, kind), made)
  BY DEF Forgotten, Without, ScopeOK
<1>6. working' = [v \in Users |-> working'[v]] /\ session' = [v \in Users |-> session'[v]]
  BY <1>1, <1>2
<1>7. ASSUME NEW v \in Users
      PROVE  /\ working'[v] = IF v = u THEN Without(working[u], kind) ELSE working[v]
             /\ session'[v] = IF v = u THEN Without(session[u], kind) ELSE session[v]
  BY <1>1, <1>2
<1>8. ScopesOK'
  BY <1>1, <1>2, <1>5, <1>7 DEF ScopesOK
<1>9. MemoryInv'
  BY <1>1, <1>2, <1>4, <1>6, <1>8 DEF MemoryInv, LongTermOK
<1>10. Forgotten(working'[u], kind) /\ Forgotten(session'[u], kind)
  BY <1>5, <1>7
<1> QED BY <1>1, <1>4, <1>9, <1>10

LEMMA MemoryInvStart == MemoryInit => MemoryInv
<1> SUFFICES ASSUME MemoryInit PROVE MemoryInv
  OBVIOUS
<1>1. /\ working = [u \in Users |-> << >>] /\ session = [u \in Users |-> << >>]
      /\ longTerm = << >> /\ call = [c \in Calls |-> Returned] /\ made = 0
  BY Zenon DEF MemoryInit
<1>2. DOMAIN << >> = {}
  OBVIOUS
<1>3. ScopesOK
  BY <1>1, <1>2 DEF ScopesOK, ScopeOK
<1>4. LongTermOK(longTerm)
  BY <1>1, <1>2 DEF LongTermOK
<1>5. \A c \in Calls : call[c] = Returned
  BY <1>1
<1>6. CallsOK /\ CallsAlone
  BY <1>5 DEF CallsOK, CallsAlone
<1> QED BY <1>1, <1>3, <1>4, <1>6 DEF MemoryInv

\* What a step may do, with the invariant kept: the three conjuncts below are the
\* parts of the action properties that concern a call.
RememberedStep(c) ==
  Ends(c) /\ call[c].doing = "write" /\ longTerm' # longTerm =>
    \A item \in Range(call[c].all) :
      /\ item.key \in DOMAIN longTerm' /\ longTerm'[item.key].user = call[c].user
      /\ longTerm'[item.key].item.n >= item.n

DeletedStep(c) ==
  Ends(c) /\ call[c].doing = "delete" /\ longTerm' # longTerm =>
    \A key \in DOMAIN longTerm' :
      longTerm'[key].item.kind = call[c].kind =>
        call[c].user \notin Public /\ longTerm'[key].user \notin Public \cup {call[c].user}

ForgetsStep(c) ==
  call[c] = Returned /\ call'[c] # Returned /\ call'[c].doing = "list" =>
    Forgotten(working'[call'[c].user], call'[c].kind) /\ Forgotten(session'[call'[c].user], call'[c].kind)

SparesStep(c) ==
  call[c] # Returned /\ call[c].doing = "delete" =>
    \A key \in DOMAIN longTerm \ DOMAIN longTerm' :
      \/ call'[c] # Returned
      \/ longTerm[key].item.kind = call[c].kind
         /\ (call[c].user \in Public \/ longTerm[key].user \in Public \cup {call[c].user})
      \/ longTerm[key].item.n \in call[c].since

Steps == \A c \in Calls : RememberedStep(c) /\ DeletedStep(c) /\ ForgetsStep(c) /\ SparesStep(c)

\* A step that leaves long-term memory alone and starts no forget.
LEMMA QuietSteps ==
  ASSUME longTerm' = longTerm,
         \A c \in Calls : call[c] = Returned => call'[c] = Returned \/ call'[c].doing # "list"
  PROVE  Steps
BY DEF Steps, RememberedStep, DeletedStep, ForgetsStep, SparesStep

LEMMA MemoryStep ==
  ASSUME MemoryInv, MemoryNext
  PROVE  MemoryInv' /\ Steps
<1>1. ASSUME NEW u \in Users, NEW key \in Keys, NEW kind \in Kinds,
             WriteWorking(u, key, kind) \/ WriteSession(u, key, kind)
      PROVE  MemoryInv' /\ Steps
  <2>1. MemoryInv'
    BY <1>1, WriteScopeInv, Zenon DEF WriteWorking, WriteSession
  <2>2. longTerm' = longTerm /\ call' = call
    BY <1>1 DEF WriteWorking, WriteSession
  <2> QED BY <2>1, <2>2, QuietSteps
<1>2. ASSUME NEW u \in Users, ClearWorking(u) PROVE MemoryInv' /\ Steps
  <2>1. longTerm' = longTerm /\ call' = call
    BY <1>2 DEF ClearWorking
  <2> QED BY <1>2, <2>1, ClearInv, QuietSteps
<1>3. ASSUME NEW c \in Calls, NEW u \in Users, NEW n \in 1 .. 2,
             NEW facts \in [1 .. n -> Keys \X Kinds], Remember(c, u, facts)
      PROVE  MemoryInv' /\ Steps
  <2>1. /\ MemoryInv' /\ longTerm' = longTerm /\ call'[c].doing = "write"
        /\ \A d \in Calls \ {c} : call[d] = Returned <=> call'[d] = Returned
    BY <1>3, RememberKeeps
  <2> QED BY <2>1, QuietSteps
<1>4. ASSUME NEW c \in Calls, NEW u \in Users, NEW kind \in Kinds, Forget(c, u, kind)
      PROVE  MemoryInv' /\ Steps
  <2>1. /\ MemoryInv' /\ longTerm' = longTerm /\ call[c] = Returned
        /\ call'[c].user = u /\ call'[c].kind = kind
        /\ Forgotten(working'[u], kind) /\ Forgotten(session'[u], kind)
        /\ \A d \in Calls \ {c} : call[d] = Returned <=> call'[d] = Returned
    BY <1>4, ForgetKeeps
  <2>2. ASSUME NEW d \in Calls
        PROVE  RememberedStep(d) /\ DeletedStep(d) /\ SparesStep(d)
    BY <2>1 DEF RememberedStep, DeletedStep, SparesStep
  <2>3. ASSUME NEW d \in Calls PROVE ForgetsStep(d)
    BY <2>1 DEF ForgetsStep
  <2> QED BY <2>1, <2>2, <2>3 DEF Steps
<1>5. ASSUME NEW c \in Calls, BreakOff(c) PROVE MemoryInv' /\ Steps
  <2>1. call' = [call EXCEPT ![c] = Returned] /\ longTerm' = longTerm
    BY <1>5 DEF BreakOff
  <2>2. \A d \in Calls : call'[d] = Returned \/ call'[d] = call[d]
    BY <2>1 DEF MemoryInv
  <2>3. \A d \in Calls : call[d] = Returned => call'[d] = Returned
    BY <2>2
  <2> QED BY <1>5, <2>1, <2>3, BreakOffInv, QuietSteps
<1>6. ASSUME NEW c \in Calls, List(c) PROVE MemoryInv' /\ Steps
  <2>1. call[c] # Returned
    BY <1>6, ReturnedIsIdle DEF List
  <2>2. longTerm' = longTerm /\ \A d \in Calls : call[d] = Returned => call'[d] = Returned
    <3> DEFINE its == IF ListedKeys(call[c].user, call[c].kind) = {} THEN Returned
                      ELSE [call[c] EXCEPT !.doing = "delete", !.keys = ListedKeys(call[c].user, call[c].kind)]
    <3>1. call' = [call EXCEPT ![c] = its] /\ longTerm' = longTerm
      BY <1>6, Zenon DEF List
    <3> HIDE DEF its
    <3>2. call = [d \in Calls |-> call[d]]
      BY DEF MemoryInv
    <3> QED BY <2>1, <3>1, <3>2
  <2> QED BY <1>6, <2>2, ListInv, QuietSteps
<1>7. ASSUME NEW c \in Calls, Land(c) PROVE MemoryInv' /\ Steps
  <2>1. /\ MemoryInv'
        /\ DOMAIN longTerm \subseteq DOMAIN longTerm'
        /\ \A d \in Calls \ {c} : call[d] = Returned <=> call'[d] = Returned
        /\ call[c].doing = "write" /\ call[c] # Returned
        /\ call[c].alone /\ call'[c] = Returned =>
             Landed(call[c], Len(call[c].all), longTerm')
    BY <1>7, LandKeeps
  <2>2. RememberedStep(c)
    <3>1. SUFFICES ASSUME Ends(c), NEW item \in Range(call[c].all)
                   PROVE  /\ item.key \in DOMAIN longTerm' /\ longTerm'[item.key].user = call[c].user
                          /\ longTerm'[item.key].item.n >= item.n
      BY DEF RememberedStep
    <3>2. Landed(call[c], Len(call[c].all), longTerm')
      BY <2>1, <3>1 DEF Ends
    <3>3. call[c].all \in Seq(MadeItems)
      BY <2>1 DEF MemoryInv, CallsOK, CallOK, CallTyped
    <3>4. PICK i \in 1 .. Len(call[c].all) : item = call[c].all[i]
      BY <3>1, <3>3, LenProperties DEF Range
    <3> QED BY <3>2, <3>4 DEF Landed
  <2>3. ASSUME NEW d \in Calls PROVE RememberedStep(d) /\ DeletedStep(d) /\ SparesStep(d)
    <3>1. CASE d = c
      BY <2>1, <2>2, <3>1 DEF DeletedStep, SparesStep
    <3>2. CASE d # c
      BY <2>1, <3>2 DEF RememberedStep, DeletedStep, SparesStep, Ends
    <3> QED BY <3>1, <3>2
  <2>4. ASSUME NEW d \in Calls PROVE ForgetsStep(d)
    <3>1. SUFFICES ASSUME call[d] = Returned PROVE call'[d] = Returned
      BY DEF ForgetsStep
    <3>2. d # c
      BY <2>1, <3>1
    <3> QED BY <2>1, <3>1, <3>2
  <2> QED BY <2>1, <2>3, <2>4 DEF Steps
<1>8. ASSUME NEW c \in Calls, Delete(c) PROVE MemoryInv' /\ Steps
  <2>1. /\ MemoryInv' /\ call[c] # Returned /\ call[c].doing = "delete"
        /\ call[c].alone =>
             \A key \in DOMAIN longTerm' :
               longTerm'[key].item.kind = call[c].kind => ~Visible(call[c].user, longTerm'[key])
        /\ \A key \in DOMAIN longTerm \ DOMAIN longTerm' :
             \/ longTerm[key].item.kind = call[c].kind /\ Visible(call[c].user, longTerm[key])
             \/ longTerm[key].item.n \in call[c].since
    BY <1>8, DeleteKeeps
  <2>2. call = [d \in Calls |-> call[d]] /\ call' = [call EXCEPT ![c] = Returned]
    BY <1>8 DEF Delete, MemoryInv
  <2>3. \A d \in Calls \ {c} : call'[d] = call[d]
    BY <2>2
  <2>4. ASSUME NEW d \in Calls
        PROVE  RememberedStep(d) /\ DeletedStep(d) /\ SparesStep(d) /\ ForgetsStep(d)
    <3>1. CASE d = c
      <4>1. RememberedStep(c) /\ ForgetsStep(c)
        BY <2>1 DEF RememberedStep, ForgetsStep
      <4>2. DeletedStep(c)
        BY <2>1 DEF DeletedStep, Ends, Visible
      <4>3. SparesStep(c)
        BY <2>1 DEF SparesStep, Visible
      <4> QED BY <3>1, <4>1, <4>2, <4>3
    <3>2. CASE d # c
      BY <2>3, <3>2 DEF RememberedStep, DeletedStep, SparesStep, ForgetsStep, Ends
    <3> QED BY <3>1, <3>2
  <2> QED BY <2>1, <2>4 DEF Steps
<1> QED BY <1>1, <1>2, <1>3, <1>4, <1>5, <1>6, <1>7, <1>8, Zenon DEF MemoryNext

LEMMA MemoryInvStep == MemoryInv /\ [MemoryNext]_memoryVars => MemoryInv'
<1> SUFFICES ASSUME MemoryInv, [MemoryNext]_memoryVars PROVE MemoryInv'
  OBVIOUS
<1>1. CASE UNCHANGED memoryVars
  BY <1>1 DEF memoryVars, MemoryInv, ScopesOK, LongTermOK, CallsOK, CallsAlone
<1> QED BY <1>1, MemoryStep

THEOREM MemoryInvariant == MemorySpec => []MemoryInv
BY MemoryInvStart, MemoryInvStep, PTL DEF MemorySpec

\* Consolidations and forgets of any number of owners that overlap and break off
\* remember, forget and spare what they should.
THEOREM MemoryHolds == MemorySpec => MemorySound
<1>1. MemoryInv => MemoryTypeOK
  BY MemoryInvTypes
<1>2. MemoryInv /\ [MemoryNext]_memoryVars
        => [\A c \in Calls :
              /\ Ends(c) /\ call[c].doing = "write" /\ longTerm' # longTerm =>
                   \A item \in Range(call[c].all) :
                     /\ item.key \in DOMAIN longTerm' /\ longTerm'[item.key].user = call[c].user
                     /\ longTerm'[item.key].item.n >= item.n
              /\ Ends(c) /\ call[c].doing = "delete" /\ longTerm' # longTerm =>
                   \A key \in DOMAIN longTerm' :
                     longTerm'[key].item.kind = call[c].kind =>
                       call[c].user \notin Public /\ longTerm'[key].user \notin Public \cup {call[c].user}
              /\ call[c] = Returned /\ call'[c] # Returned /\ call'[c].doing = "list" =>
                   LET u == call'[c].user IN
                   Forgotten(working'[u], call'[c].kind) /\ Forgotten(session'[u], call'[c].kind)]_memoryVars
  BY MemoryStep, Zenon DEF Steps, RememberedStep, DeletedStep, ForgetsStep
<1>3. MemoryInv /\ [MemoryNext]_memoryVars
        => [\A c \in Calls : call[c] # Returned /\ call[c].doing = "delete" =>
              \A key \in DOMAIN longTerm \ DOMAIN longTerm' :
                LET gone == longTerm[key] IN
                \/ call'[c] # Returned
                \/ gone.item.kind = call[c].kind /\ (call[c].user \in Public \/ gone.user \in Public \cup {call[c].user})
                \/ gone.item.n \in call[c].since]_memoryVars
  BY MemoryStep, Zenon DEF Steps, SparesStep
<1> QED BY <1>1, <1>2, <1>3, MemoryInvariant, PTL
        DEF MemorySpec, MemorySound, RememberedOrForgotten, ForgetSparesOthers

-----------------------------------------------------------------------------
(***************************************************************************)
(* Skills, for any directories, contents, names and selections: the        *)
(* registry's manifests only grow, and a listing that is still true of the *)
(* disk tells where the instructions of its names are.                     *)
(***************************************************************************)

SkillOnDisk == Contents \cup {NoSkill}
ManifestLine == [name : SkillNames, dir : SkillDirs]
LoadedSkill == [name : SkillNames, body : {c.body : c \in SkillOnDisk}]
SkillOutcome ==
  [kind : {"none", "unknown", "unread"}]
    \cup [kind : {"loaded"}, of : Seq(ManifestLine), named : Seq(SkillNames), got : Seq(LoadedSkill)]

SkillsTypeOK ==
  skills \in [disk : [SkillDirs -> SkillOnDisk], manifests : UNION {[N -> SkillDirs] : N \in SUBSET SkillNames},
              listed : Seq(ManifestLine), asked : Seq(ManifestLine), outcome : SkillOutcome,
              edits : Nat, fresh : BOOLEAN]

\* The registry knows a listed name, that no other directory listed has, by its
\* directory, as long as the disk is as it was listed.
ManifestsAsListed ==
  skills.fresh = TRUE =>
    \A i \in DOMAIN skills.listed :
      (\A j \in DOMAIN skills.listed : skills.listed[j].name = skills.listed[i].name => j = i)
        => skills.manifests[skills.listed[i].name] = skills.listed[i].dir

SkillsInv == SkillsTypeOK /\ ListedStayLoadable /\ SelectionKept /\ ManifestsAsListed

\* The walk finds directories with a skill whose front matter can be read.
LEMMA WalkedPresent ==
  ASSUME SkillsTypeOK
  PROVE  Walked \in Seq({d \in Present : d \notin Broken})
<1> DEFINE readable == {d \in Present : \A b \in Broken : d < b}
           R == {p \in readable \X readable : p[1] < p[2]}
           W == {d \in Present : d \notin Broken}
<1>1. readable \in SUBSET W /\ readable \in SUBSET Int /\ readable \in SUBSET SkillDirs
  <2>1. Present \in SUBSET SkillDirs /\ SkillDirs \in SUBSET Nat
    BY SkillsAssumption DEF Present
  <2>2. ASSUME NEW d \in readable PROVE d \in Int /\ d \notin Broken
    <3>1. d \in Nat /\ ~(d < d)
      BY <2>1
    <3> QED BY <3>1
  <2> QED BY <2>1, <2>2
<1>2. IsFiniteSet(readable)
  BY <1>1, FS_Subset, SkillsAssumption
<1>3. Enumerates(InOrder(readable, R), readable, R)
  BY <1>1, <1>2, NumbersInOrder
<1>4. Walked = InOrder(readable, R)
  BY DEF Walked
<1> HIDE DEF readable, R, W
<1>5. Walked \in Seq(readable)
  BY <1>3, <1>4 DEF Enumerates
<1>6. Len(Walked) \in Nat /\ Walked \in [1 .. Len(Walked) -> readable]
  BY <1>5
<1>7. Walked \in [1 .. Len(Walked) -> W]
  BY <1>1, <1>6
<1>8. Walked \in Seq(W)
  BY <1>6, <1>7
<1> QED BY <1>8 DEF W

\* A discovery's findings are lines of manifests.
LEMMA FoundTyped ==
  ASSUME SkillsTypeOK, NEW found, found = [i \in DOMAIN Walked |-> Manifest(Walked[i])]
  PROVE  found \in Seq(ManifestLine)
<1> DEFINE W == {d \in Present : d \notin Broken}
<1>1. Walked \in Seq(W)
  BY WalkedPresent
<1>2. Len(Walked) \in Nat /\ DOMAIN Walked = 1 .. Len(Walked) /\ \A i \in 1 .. Len(Walked) : Walked[i] \in W
  BY <1>1
<1>3. ASSUME NEW d \in W PROVE Manifest(d) \in ManifestLine
  <2>1. d \in SkillDirs /\ skills.disk[d] \in Contents /\ OwnName[d] \in SkillNames
    BY SkillsAssumption DEF Present, SkillsTypeOK, SkillOnDisk
  <2>2. skills.disk[d].front = "named" => skills.disk[d].name \in SkillNames
    BY <2>1, SkillsAssumption
  <2> QED BY <2>1, <2>2 DEF Manifest, ManifestLine
<1>4. found \in [1 .. Len(Walked) -> ManifestLine]
  BY <1>2, <1>3
<1> QED BY <1>2, <1>4

\* Registering keeps every name known and knows those found by directories
\* found under that name.
LEMMA RegisterTyped ==
  ASSUME SkillsTypeOK, NEW ms \in Seq(ManifestLine)
  PROVE  /\ Register(ms) \in UNION {[N -> SkillDirs] : N \in SUBSET SkillNames}
         /\ DOMAIN Register(ms) = NamesIn(ms) \cup DOMAIN skills.manifests
         /\ \A i \in DOMAIN ms :
              (\A j \in DOMAIN ms : ms[j].name = ms[i].name => j = i) => Register(ms)[ms[i].name] = ms[i].dir
<1> DEFINE Of(n) == {i \in DOMAIN ms : ms[i].name = n}
           N == NamesIn(ms) \cup DOMAIN skills.manifests
<1>1. Len(ms) \in Nat /\ DOMAIN ms = 1 .. Len(ms) /\ \A i \in 1 .. Len(ms) : ms[i] \in ManifestLine
  OBVIOUS
<1>2. NamesIn(ms) = {ms[i].name : i \in DOMAIN ms}
  BY DEF NamesIn, ToSet
<1>3. /\ DOMAIN skills.manifests \in SUBSET SkillNames
      /\ \A n \in DOMAIN skills.manifests : skills.manifests[n] \in SkillDirs
  BY DEF SkillsTypeOK
<1>4. ASSUME NEW n \in NamesIn(ms) PROVE Max(Of(n)) \in Of(n)
  <2>1. Of(n) # {} /\ Of(n) \in SUBSET (1 .. Len(ms)) /\ Of(n) \in SUBSET Int
    BY <1>1, <1>2
  <2>2. IsFiniteSet(Of(n))
    <3>1. IsFiniteSet(1 .. Len(ms))
      BY <1>1, FS_Interval
    <3> QED BY <2>1, <3>1, FS_Subset
  <2> HIDE DEF Of
  <2> QED BY <2>1, <2>2, FiniteMax
<1>5. ASSUME NEW i \in DOMAIN ms, \A j \in DOMAIN ms : ms[j].name = ms[i].name => j = i
      PROVE  Max(Of(ms[i].name)) = i
  <2>1. Of(ms[i].name) = {i} /\ ms[i].name \in NamesIn(ms)
    BY <1>2, <1>5
  <2> QED BY <1>4, <2>1
<1>6. Register(ms) = [n \in N |-> IF n \in NamesIn(ms) THEN ms[Max(Of(n))].dir ELSE skills.manifests[n]]
  BY DEF Register
<1>7. N \in SUBSET SkillNames
  BY <1>1, <1>2, <1>3 DEF ManifestLine
<1>8. \A n \in N : (IF n \in NamesIn(ms) THEN ms[Max(Of(n))].dir ELSE skills.manifests[n]) \in SkillDirs
  BY <1>1, <1>3, <1>4 DEF ManifestLine
<1> HIDE DEF Of, N
<1>9. Register(ms) \in [N -> SkillDirs]
  BY <1>6, <1>8
<1>10. Register(ms) \in UNION {[M -> SkillDirs] : M \in SUBSET SkillNames}
  BY <1>7, <1>9
<1>11. DOMAIN Register(ms) = NamesIn(ms) \cup DOMAIN skills.manifests
  BY <1>6 DEF N
<1>12. ASSUME NEW i \in DOMAIN ms, \A j \in DOMAIN ms : ms[j].name = ms[i].name => j = i
       PROVE  Register(ms)[ms[i].name] = ms[i].dir
  <2>1. ms[i].name \in NamesIn(ms) /\ ms[i].name \in N
    BY <1>2 DEF N
  <2> QED BY <1>5, <1>6, <1>12, <2>1
<1> QED BY <1>10, <1>11, <1>12

\* What is selected of the names: the first k that are listed.
FirstListed(names, listed, chosen) ==
  /\ chosen \in Seq(SkillNames) /\ Len(chosen) <= MostSkills
  /\ \A i \in DOMAIN chosen : chosen[i] \in listed
  /\ \A i, j \in DOMAIN chosen : i < j =>
       \E p, q \in DOMAIN names : p < q /\ names[p] = chosen[i] /\ names[q] = chosen[j]
  /\ \A q \in DOMAIN names : (names[q] \in listed /\ \A i \in DOMAIN chosen : chosen[i] # names[q]) =>
       /\ Len(chosen) = MostSkills
       /\ \A i \in DOMAIN chosen : \E p \in 1 .. q - 1 : names[p] = chosen[i]

LEMMA SelectedFirst ==
  ASSUME NEW names \in Seq(SkillNames)
  PROVE  FirstListed(names, NamesIn(skills.asked), Selected(names))
<1> DEFINE listed == NamesIn(skills.asked)
           known == {i \in DOMAIN names : names[i] \in listed}
           R == {p \in known \X known : p[1] < p[2]}
           places == InOrder(known, R)
           all == Cardinality(known)
           chosen == Selected(names)
<1>1. Len(names) \in Nat /\ DOMAIN names = 1 .. Len(names) /\ \A i \in 1 .. Len(names) : names[i] \in SkillNames
  OBVIOUS
<1>2. known \in SUBSET (1 .. Len(names)) /\ known \in SUBSET Int /\ IsFiniteSet(known) /\ all \in Nat
  <2>1. known \in SUBSET (1 .. Len(names)) /\ known \in SUBSET Int
    BY <1>1
  <2>2. IsFiniteSet(known)
    <3>1. IsFiniteSet(1 .. Len(names))
      BY <1>1, FS_Interval
    <3> QED BY <2>1, <3>1, FS_Subset
  <2> QED BY <2>1, <2>2, FS_CardinalityType
<1>3. Enumerates(places, known, R)
  BY <1>2, NumbersInOrder
<1>4. \A i, j \in known : <<i, j>> \in R <=> i < j
  OBVIOUS
<1>5. MostSkills \in Nat
  BY SkillsAssumption
<1>6. Min({all, MostSkills}) \in Nat /\ Min({all, MostSkills}) <= all /\ Min({all, MostSkills}) <= MostSkills
      /\ Min({all, MostSkills}) \in {all, MostSkills}
  <2> HIDE DEF all
  <2> QED BY <1>2, <1>5, MinOfTwo
<1> DEFINE few == Min({all, MostSkills})
<1>7. chosen = [n \in 1 .. few |-> names[places[n]]]
  BY DEF Selected
<1>8. \A i \in known : names[i] \in listed
  OBVIOUS
<1>9. \A q \in 1 .. Len(names) : names[q] \in listed => q \in known
  BY <1>1
<1> HIDE DEF known, R, places, all, chosen, few
<1>10. /\ \A n \in 1 .. all : places[n] \in known
       /\ \A i \in known : \E n \in 1 .. all : places[n] = i
       /\ \A m, n \in 1 .. all : m < n => places[m] < places[n]
  <2>1. /\ places \in Seq(known) /\ Len(places) = all /\ DOMAIN places = 1 .. all
        /\ \A i \in known : \E n \in DOMAIN places : places[n] = i
        /\ \A m, n \in DOMAIN places : m < n => <<places[m], places[n]>> \in R
    BY <1>3 DEF Enumerates, all
  <2>2. \A n \in 1 .. all : places[n] \in known
    BY <1>2, <2>1
  <2>3. \A m, n \in 1 .. all : m < n => places[m] < places[n]
    BY <1>4, <2>1, <2>2
  <2> QED BY <2>1, <2>2, <2>3
<1>11. few \in Nat /\ few <= all /\ few <= MostSkills /\ few \in {all, MostSkills}
  BY <1>6 DEF few
<1>12. \A n \in 1 .. few : n \in 1 .. all
  BY <1>2, <1>11
<1>13. chosen \in [1 .. few -> SkillNames]
  BY <1>1, <1>2, <1>7, <1>10, <1>12
<1>14. chosen \in Seq(SkillNames) /\ Len(chosen) = few /\ DOMAIN chosen = 1 .. few
  BY <1>11, <1>13
<1>15. \A n \in 1 .. few : chosen[n] = names[places[n]] /\ places[n] \in known
  BY <1>7, <1>10, <1>12
<1>16. ASSUME NEW i \in 1 .. few, NEW j \in 1 .. few, i < j
       PROVE  \E p, q \in DOMAIN names : p < q /\ names[p] = chosen[i] /\ names[q] = chosen[j]
  <2>1. places[i] < places[j]
    BY <1>10, <1>12, <1>16
  <2> QED BY <1>1, <1>2, <1>15, <2>1
<1>17. ASSUME NEW q \in DOMAIN names, names[q] \in listed, \A i \in 1 .. few : chosen[i] # names[q]
       PROVE  Len(chosen) = MostSkills /\ \A i \in 1 .. few : \E p \in 1 .. q - 1 : names[p] = chosen[i]
  <2>1. q \in known
    BY <1>1, <1>9, <1>17
  <2>2. PICK n \in 1 .. all : places[n] = q
    BY <1>10, <2>1
  <2>3. n \notin 1 .. few
    BY <1>15, <1>17, <2>2
  <2>4. few < n /\ few < all
    BY <1>2, <1>11, <2>2, <2>3
  <2>5. few = MostSkills
    BY <1>2, <1>11, <2>4
  <2>6. ASSUME NEW i \in 1 .. few PROVE places[i] \in 1 .. q - 1 /\ names[places[i]] = chosen[i]
    <3>1. i \in 1 .. all /\ i < n
      BY <1>2, <1>11, <1>12, <2>2, <2>4
    <3>2. places[i] < q
      BY <1>10, <2>2, <3>1
    <3>3. places[i] \in 1 .. Len(names) /\ names[places[i]] = chosen[i]
      BY <1>2, <1>15
    <3>4. q \in Int
      BY <1>1
    <3> QED BY <3>2, <3>3, <3>4
  <2> QED BY <1>14, <2>5, <2>6
<1>18. \A i \in 1 .. few : chosen[i] \in listed
  BY <1>8, <1>15
<1> HIDE DEF listed
<1>19. FirstListed(names, listed, chosen)
  <2>1. Len(chosen) <= MostSkills /\ \A i \in DOMAIN chosen : chosen[i] \in listed
    BY <1>11, <1>14, <1>18
  <2>2. \A i, j \in DOMAIN chosen : i < j =>
          \E p, q \in DOMAIN names : p < q /\ names[p] = chosen[i] /\ names[q] = chosen[j]
    BY <1>14, <1>16
  <2>3. \A q \in DOMAIN names : (names[q] \in listed /\ \A i \in DOMAIN chosen : chosen[i] # names[q]) =>
          /\ Len(chosen) = MostSkills
          /\ \A i \in DOMAIN chosen : \E p \in 1 .. q - 1 : names[p] = chosen[i]
    BY <1>14, <1>17
  <2> QED BY <1>14, <2>1, <2>2, <2>3 DEF FirstListed
<1> QED BY <1>19 DEF listed, chosen

\* Every step of the registry keeps the invariant: a discovery finds all names
\* again or adds names, and the selection waiting was listed before.
LEMMA SkillsInvariant == SkillsSpec => []SkillsInv
<1>1. SkillsInit => SkillsInv
  <2> SUFFICES ASSUME SkillsInit PROVE SkillsInv
    OBVIOUS
  <2>1. PICK disk \in [SkillDirs -> SkillOnDisk] :
          skills = [disk |-> disk, manifests |-> << >>, listed |-> << >>, asked |-> << >>,
                    outcome |-> [kind |-> "none"], edits |-> 0, fresh |-> FALSE]
    BY DEF SkillsInit, SkillOnDisk
  <2> DEFINE M == {[N -> SkillDirs] : N \in SUBSET SkillNames}
  <2>2. << >> \in UNION M
    <3>1. [n \in {} |-> n] \in [{} -> SkillDirs] /\ {} \in SUBSET SkillNames
      OBVIOUS
    <3>2. << >> = [n \in {} |-> n]
      OBVIOUS
    <3> QED BY <3>1, <3>2
  <2> HIDE DEF M
  <2>3. << >> \in Seq(ManifestLine)
    OBVIOUS
  <2>4. [kind |-> "none"] \in SkillOutcome
    BY DEF SkillOutcome
  <2>5. skills \in [disk : [SkillDirs -> SkillOnDisk], manifests : UNION M,
                    listed : Seq(ManifestLine), asked : Seq(ManifestLine), outcome : SkillOutcome,
                    edits : Nat, fresh : BOOLEAN]
    BY <2>1, <2>2, <2>3, <2>4
  <2>6. SkillsTypeOK
    BY <2>5 DEF SkillsTypeOK, M
  <2>7. ListedStayLoadable
    BY <2>1 DEF ListedStayLoadable, NamesIn, ToSet
  <2>8. SelectionKept
    BY <2>1 DEF SelectionKept
  <2>9. ManifestsAsListed
    BY <2>1 DEF ManifestsAsListed
  <2> QED BY <2>6, <2>7, <2>8, <2>9 DEF SkillsInv
<1>2. SkillsInv /\ [SkillsNext]_skills => SkillsInv'
  <2> SUFFICES ASSUME SkillsInv, [SkillsNext]_skills PROVE SkillsInv'
    OBVIOUS
  <2> USE DEF SkillsInv
  <2>0. /\ skills.manifests \in UNION {[N -> SkillDirs] : N \in SUBSET SkillNames}
        /\ skills.disk \in [SkillDirs -> SkillOnDisk] /\ skills.listed \in Seq(ManifestLine)
        /\ skills.asked \in Seq(ManifestLine) /\ skills.outcome \in SkillOutcome /\ skills.edits \in Nat
        /\ skills.fresh \in BOOLEAN
    BY DEF SkillsTypeOK
  <2>1. CASE Discover
    <3> DEFINE found == [i \in DOMAIN Walked |-> Manifest(Walked[i])]
               whole == Broken = {}
    <3>1. found \in Seq(ManifestLine)
      BY FoundTyped
    <3>2. skills' = [skills EXCEPT !.manifests = Register(found),
                                   !.listed = IF whole THEN found ELSE @, !.fresh = whole]
      BY <2>1 DEF Discover
    <3> HIDE DEF found
    <3>3. /\ Register(found) \in UNION {[N -> SkillDirs] : N \in SUBSET SkillNames}
          /\ DOMAIN Register(found) = NamesIn(found) \cup DOMAIN skills.manifests
          /\ \A i \in DOMAIN found :
               (\A j \in DOMAIN found : found[j].name = found[i].name => j = i)
                 => Register(found)[found[i].name] = found[i].dir
      BY <3>1, RegisterTyped
    <3>4. whole \in BOOLEAN
      OBVIOUS
    <3> HIDE DEF whole
    <3> DEFINE M == UNION {[N -> SkillDirs] : N \in SUBSET SkillNames}
    <3>5. /\ skills'.manifests = Register(found) /\ skills'.listed = (IF whole THEN found ELSE skills.listed)
          /\ skills'.fresh = whole /\ skills'.asked = skills.asked /\ skills'.outcome = skills.outcome
          /\ skills'.disk = skills.disk
      BY <3>2 DEF SkillsTypeOK
    <3>6. SkillsTypeOK'
      BY <3>1, <3>2, <3>3, <3>4 DEF SkillsTypeOK
    <3>7. ListedStayLoadable'
      BY <3>3, <3>5 DEF ListedStayLoadable
    <3>8. SelectionKept'
      BY <3>5 DEF SelectionKept
    <3>9. ManifestsAsListed'
      BY <3>3, <3>4, <3>5 DEF ManifestsAsListed
    <3> QED BY <3>6, <3>7, <3>8, <3>9
  <2>2. ASSUME NEW d \in SkillDirs, NEW content \in SkillOnDisk, EditSkill(d, content) PROVE SkillsInv'
    <3> DEFINE disk == [skills.disk EXCEPT ![d] = content]
               edits == skills.edits + 1
    <3>1. skills' = [skills EXCEPT !.disk = disk, !.edits = edits, !.fresh = FALSE]
      BY <2>2 DEF EditSkill
    <3>2. disk \in [SkillDirs -> SkillOnDisk] /\ edits \in Nat
      BY <2>0
    <3> HIDE DEF disk, edits
    <3>3. /\ skills'.manifests = skills.manifests /\ skills'.listed = skills.listed
          /\ skills'.asked = skills.asked /\ skills'.outcome = skills.outcome /\ skills'.fresh = FALSE
      BY <3>1 DEF SkillsTypeOK
    <3>4. SkillsTypeOK'
      BY <3>1, <3>2 DEF SkillsTypeOK
    <3> QED BY <3>3, <3>4 DEF ListedStayLoadable, SelectionKept, ManifestsAsListed
  <2>3. CASE AskClassifier
    <3>1. skills' = [skills EXCEPT !.asked = skills.listed, !.outcome = [kind |-> "none"]]
      BY <2>3 DEF AskClassifier
    <3>2. [kind |-> "none"] \in SkillOutcome
      BY DEF SkillOutcome
    <3>3. /\ skills'.manifests = skills.manifests /\ skills'.listed = skills.listed
          /\ skills'.asked = skills.listed /\ skills'.outcome = [kind |-> "none"] /\ skills'.fresh = skills.fresh
      BY <3>1 DEF SkillsTypeOK
    <3>4. SkillsTypeOK'
      BY <3>1, <3>2 DEF SkillsTypeOK
    <3> QED BY <3>3, <3>4 DEF ListedStayLoadable, SelectionKept, ManifestsAsListed
  <2>4. ASSUME NEW names \in BoundedSeq(SkillNames, MostSkills + 1), LoadSelected(names) PROVE SkillsInv'
    <3> DEFINE chosen == Selected(names)
               unknown == \E n \in ToSet(chosen) : n \notin DOMAIN skills.manifests
               unread == \E n \in ToSet(chosen) : Load(n).front \in {"absent", "broken"}
               got == [i \in DOMAIN chosen |-> [name |-> chosen[i], body |-> Load(chosen[i]).body]]
               loaded == [kind |-> "loaded", of |-> skills.asked, named |-> names, got |-> got]
               result == IF unknown THEN [kind |-> "unknown"] ELSE IF unread THEN [kind |-> "unread"] ELSE loaded
    <3>1. names \in Seq(SkillNames)
      <4>1. PICK m \in 0 .. MostSkills + 1 : names \in [1 .. m -> SkillNames]
        BY <2>4 DEF BoundedSeq, SeqOf
      <4>2. m \in Nat
        BY SkillsAssumption
      <4> QED BY <4>1, <4>2
    <3>2. FirstListed(names, NamesIn(skills.asked), chosen)
      BY <3>1, SelectedFirst
    <3>3. skills' = [skills EXCEPT !.asked = << >>, !.outcome = result]
      BY <2>4 DEF LoadSelected
    <3> HIDE DEF chosen
    <3>4. /\ Len(chosen) \in Nat /\ DOMAIN chosen = 1 .. Len(chosen) /\ Len(chosen) <= MostSkills
          /\ \A i \in DOMAIN chosen : chosen[i] \in SkillNames /\ chosen[i] \in NamesIn(skills.asked)
      BY <3>2 DEF FirstListed
    <3>5. ~unknown
      BY <3>4 DEF ListedStayLoadable, ToSet
    <3>6. \A i \in DOMAIN chosen : Load(chosen[i]) \in SkillOnDisk
      BY <2>0, <3>4 DEF Load, ListedStayLoadable
    <3>7. got \in [1 .. Len(chosen) -> LoadedSkill]
      BY <3>4, <3>6 DEF LoadedSkill
    <3>8. got \in Seq(LoadedSkill) /\ Len(got) = Len(chosen) /\ DOMAIN got = DOMAIN chosen
      BY <3>4, <3>7
    <3>9. \A i \in DOMAIN chosen : got[i].name = chosen[i]
      OBVIOUS
    <3> HIDE DEF got, unknown, unread
    <3>10. loaded \in SkillOutcome /\ [kind |-> "unread"] \in SkillOutcome
      BY <2>0, <3>1, <3>8 DEF SkillOutcome
    <3>11. result \in {loaded, [kind |-> "unread"]}
      BY <3>5
    <3> HIDE DEF result
    <3>12. << >> \in Seq(ManifestLine)
      OBVIOUS
    <3>13. SkillsTypeOK'
      <4>1. result \in SkillOutcome
        BY <3>10, <3>11
      <4> HIDE DEF loaded
      <4> QED BY <3>3, <3>12, <4>1 DEF SkillsTypeOK
    <3>14. /\ skills'.manifests = skills.manifests /\ skills'.listed = skills.listed
           /\ skills'.asked = << >> /\ skills'.outcome = result /\ skills'.fresh = skills.fresh
      <4> HIDE DEF loaded
      <4> QED BY <3>3 DEF SkillsTypeOK
    <3>15. ListedStayLoadable'
      <4>1. NamesIn(<< >>) = {}
        BY DEF NamesIn, ToSet
      <4>2. result.kind # "unknown"
        BY <3>11
      <4> HIDE DEF loaded
      <4> QED BY <3>14, <4>1, <4>2 DEF ListedStayLoadable
    <3>16. SelectionKept'
      <4>1. CASE result = loaded
        <5>1. /\ skills'.outcome.named = names /\ skills'.outcome.got = got /\ skills'.outcome.of = skills.asked
          BY <3>14, <4>1
        <5> HIDE DEF loaded
        <5> DEFINE listed == NamesIn(skills.asked)
        <5>2. \A i \in DOMAIN got : got[i].name \in listed
          BY <3>4, <3>8, <3>9
        <5>3. \A i, j \in DOMAIN got : i < j =>
                \E p, q \in DOMAIN names : p < q /\ names[p] = got[i].name /\ names[q] = got[j].name
          BY <3>2, <3>8, <3>9 DEF FirstListed
        <5>4. \A q \in DOMAIN names :
                (names[q] \in listed /\ ~\E i \in DOMAIN got : got[i].name = names[q]) =>
                  /\ Len(got) = MostSkills
                  /\ \A i \in DOMAIN got : \E p \in 1 .. q - 1 : names[p] = got[i].name
          BY <3>2, <3>8, <3>9 DEF FirstListed
        <5>5. Len(got) <= MostSkills
          BY <3>4, <3>8
        <5> QED BY <5>1, <5>2, <5>3, <5>4, <5>5 DEF SelectionKept
      <4>2. CASE result = [kind |-> "unread"]
        BY <3>14, <4>2 DEF SelectionKept
      <4> QED BY <3>11, <4>1, <4>2
    <3>17. ManifestsAsListed'
      BY <3>14 DEF ManifestsAsListed
    <3> QED BY <3>13, <3>15, <3>16, <3>17
  <2>5. CASE UNCHANGED skills
    BY <2>5 DEF SkillsTypeOK, ListedStayLoadable, SelectionKept, ManifestsAsListed
  <2> QED BY <2>1, <2>2, <2>3, <2>4, <2>5 DEF SkillsNext, SkillOnDisk
<1> QED BY <1>1, <1>2, PTL DEF SkillsSpec

\* What a selection reads while the disk is as it was listed is what was listed:
\* the manifest of a name that one listed directory has is that directory's.
LEMMA StepReadsListed ==
  ASSUME SkillsInv, [SkillsNext]_skills,
         NEW i \in DOMAIN skills.listed,
         skills.fresh = TRUE, skills'.outcome # skills.outcome, skills'.outcome.kind = "loaded",
         \A j \in DOMAIN skills.listed : skills.listed[j].name = skills.listed[i].name => j = i,
         NEW g \in ToSet(skills'.outcome.got), g.name = skills.listed[i].name
  PROVE  g.body = skills.disk[skills.listed[i].dir].body
<1>1. PICK names \in BoundedSeq(SkillNames, MostSkills + 1) : LoadSelected(names)
  <2>1. Discover => skills'.outcome = skills.outcome
    BY DEF Discover, SkillsInv, SkillsTypeOK
  <2>2. AskClassifier => skills'.outcome.kind = "none"
    BY DEF AskClassifier, SkillsInv, SkillsTypeOK
  <2>3. ASSUME NEW d \in SkillDirs, NEW content \in Contents \cup {NoSkill}, EditSkill(d, content)
        PROVE  skills'.outcome = skills.outcome
    BY <2>3 DEF EditSkill, SkillsInv, SkillsTypeOK
  <2> QED BY <2>1, <2>2, <2>3 DEF SkillsNext
<1> DEFINE chosen == Selected(names)
           unknown == \E n \in ToSet(chosen) : n \notin DOMAIN skills.manifests
           unread == \E n \in ToSet(chosen) : Load(n).front \in {"absent", "broken"}
           got == [k \in DOMAIN chosen |-> [name |-> chosen[k], body |-> Load(chosen[k]).body]]
           loaded == [kind |-> "loaded", of |-> skills.asked, named |-> names, got |-> got]
           result == IF unknown THEN [kind |-> "unknown"] ELSE IF unread THEN [kind |-> "unread"] ELSE loaded
<1>2. skills' = [skills EXCEPT !.asked = << >>, !.outcome = result]
  BY <1>1 DEF LoadSelected
<1> HIDE DEF chosen, unknown, unread
<1>3. skills'.outcome = result
  <2> HIDE DEF result
  <2> QED BY <1>2 DEF SkillsInv, SkillsTypeOK
<1>4. skills'.outcome.got = got
  <2>1. result = loaded
    BY <1>3
  <2> HIDE DEF got
  <2> QED BY <1>3, <2>1
<1>5. PICK k \in DOMAIN chosen : g = [name |-> chosen[k], body |-> Load(chosen[k]).body]
  BY <1>4 DEF ToSet
<1>6. chosen[k] = skills.listed[i].name /\ g.body = Load(skills.listed[i].name).body
  BY <1>5
<1>7. skills.manifests[skills.listed[i].name] = skills.listed[i].dir
  BY DEF SkillsInv, ManifestsAsListed
<1> QED BY <1>6, <1>7 DEF Load

\* SkillsSound, for any skills and selections: discovered and edited while the
\* classifier thinks, skills that are listed can be loaded, the selection is kept in
\* its order, and what is loaded is what was listed.
THEOREM SkillsHold == SkillsSpec => SkillsSound
<1>1. SkillsInv => ListedStayLoadable /\ SelectionKept
  BY DEF SkillsInv
<1>2. SkillsInv /\ [SkillsNext]_skills =>
        [\A i \in DOMAIN skills.listed :
           LET m == skills.listed[i]
           IN (skills.fresh /\ skills'.outcome # skills.outcome /\ skills'.outcome.kind = "loaded"
                 /\ \A j \in DOMAIN skills.listed : skills.listed[j].name = m.name => j = i)
              => \A g \in ToSet(skills'.outcome.got) :
                   g.name = m.name => g.body = skills.disk[m.dir].body]_skills
  <2> SUFFICES ASSUME SkillsInv, [SkillsNext]_skills, NEW i \in DOMAIN skills.listed,
                      skills.fresh, skills'.outcome # skills.outcome, skills'.outcome.kind = "loaded",
                      \A j \in DOMAIN skills.listed : skills.listed[j].name = skills.listed[i].name => j = i,
                      NEW g \in ToSet(skills'.outcome.got), g.name = skills.listed[i].name
               PROVE  g.body = skills.disk[skills.listed[i].dir].body
    BY Zenon
  <2>1. skills.fresh = TRUE
    BY DEF SkillsInv, SkillsTypeOK
  <2> QED BY <2>1, StepReadsListed
<1> QED BY <1>1, <1>2, SkillsInvariant, PTL DEF SkillsSpec, SkillsSound, InstructionsOfTheListed

-----------------------------------------------------------------------------
(***************************************************************************)
(* Answers.  The text grows segment by segment; how many of its characters *)
(* are a segment's, and where, is known after each.                        *)
(***************************************************************************)

Count(s, x) == Cardinality({p \in DOMAIN s : s[p] = x})

\* What counts in a text is finite.
LEMMA CountNat ==
  ASSUME NEW T, NEW s \in Seq(T), NEW x
  PROVE  IsFiniteSet({p \in DOMAIN s : s[p] = x}) /\ Count(s, x) \in Nat
<1>1. Len(s) \in Nat /\ DOMAIN s = 1 .. Len(s)
  OBVIOUS
<1>2. IsFiniteSet(1 .. Len(s))
  <2>1. 1 \in Int /\ Len(s) \in Int
    BY <1>1
  <2> QED BY <2>1, FS_Interval
<1> DEFINE at == {p \in DOMAIN s : s[p] = x}
<1>3. at \in SUBSET (1 .. Len(s))
  BY <1>1
<1> HIDE DEF at
<1>4. IsFiniteSet(at)
  BY <1>2, <1>3, FS_Subset
<1>5. Cardinality(at) \in Nat
  BY <1>4, FS_CardinalityType
<1> QED BY <1>4, <1>5 DEF at, Count

\* Characters of two texts joined are those of one and those of the other.
LEMMA CountConcat ==
  ASSUME NEW T, NEW s \in Seq(T), NEW t \in Seq(T), NEW x
  PROVE  Count(s \o t, x) = Count(s, x) + Count(t, x)
<1> DEFINE n == Len(s)
           A == {p \in DOMAIN s : s[p] = x}
           B == {p \in DOMAIN t : t[p] = x}
           C == {p \in DOMAIN (s \o t) : (s \o t)[p] = x}
           D == {p \in C : p > n}
           f == [p \in B |-> p + n]
<1>1. /\ n \in Nat /\ Len(t) \in Nat /\ DOMAIN s = 1 .. n /\ DOMAIN t = 1 .. Len(t)
      /\ s \o t \in Seq(T) /\ DOMAIN (s \o t) = 1 .. n + Len(t)
  <2>1. s \o t \in Seq(T) /\ Len(s \o t) = n + Len(t)
    BY ConcatProperties
  <2> QED BY <2>1
<1>2. /\ \A p \in 1 .. n : (s \o t)[p] = s[p]
      /\ \A p \in n + 1 .. n + Len(t) : (s \o t)[p] = t[p - n]
  BY <1>1, ConcatProperties
<1>3. IsFiniteSet(A) /\ IsFiniteSet(B) /\ IsFiniteSet(C)
  BY <1>1, CountNat
<1>4. A = {p \in C : p <= n}
  BY <1>1, <1>2
<1>5. \A p \in B : p + n \in D
  BY <1>1, <1>2
<1>6. \A q \in D : q - n \in B
  BY <1>1, <1>2
<1>7. B \in SUBSET Nat /\ D \in SUBSET Nat /\ A \in SUBSET Nat /\ C \in SUBSET Nat
  BY <1>1
<1>8. C = A \cup D /\ A \cap D = {}
  BY <1>1, <1>4, <1>7
<1> HIDE DEF A, B, C, D
<1>9. f \in Bijection(B, D)
  <2>1. \A p, q \in B : p + n = q + n => p = q
    BY <1>1, <1>7
  <2>2. \A q \in D : \E p \in B : p + n = q
    <3>1. \A q \in D : (q - n) + n = q
      BY <1>1, <1>7
    <3> QED BY <1>6, <3>1
  <2>3. f \in [B -> D] /\ \A p \in B : f[p] = p + n
    BY <1>5
  <2> HIDE DEF f
  <2>4. f \in Injection(B, D)
    BY <2>1, <2>3 DEF Injection, IsInjective
  <2>5. f \in Surjection(B, D)
    BY <2>2, <2>3 DEF Surjection
  <2> QED BY <2>4, <2>5 DEF Bijection
<1>10. IsFiniteSet(D) /\ Cardinality(D) = Cardinality(B)
  <2> HIDE DEF f
  <2>1. ExistsBijection(B, D)
    BY <1>9 DEF ExistsBijection
  <2> QED BY <1>3, <2>1, FS_Bijection
<1>11. Cardinality(A \cup D) = Cardinality(A) + Cardinality(D) - Cardinality(A \cap D)
  BY <1>3, <1>10, FS_Union
<1>12. Cardinality(A \cap D) = 0
  BY <1>8, FS_EmptySet
<1>13. Cardinality(A) \in Nat /\ Cardinality(B) \in Nat
  BY <1>3, FS_CardinalityType
<1>14. Cardinality(C) = Cardinality(A) + Cardinality(B)
  BY <1>8, <1>10, <1>11, <1>12, <1>13
<1> QED BY <1>14 DEF A, B, C, Count

\* Of the same character, all or none.
LEMMA CountChars ==
  ASSUME NEW c \in Int, NEW n \in Nat, NEW x
  PROVE  /\ Chars(c, n) \in Seq(Int) /\ Len(Chars(c, n)) = n
         /\ \A p \in 1 .. n : Chars(c, n)[p] = c
         /\ Count(Chars(c, n), x) = IF c = x THEN n ELSE 0
<1>1. Chars(c, n) \in [1 .. n -> Int]
  BY DEF Chars
<1>2. Chars(c, n) \in Seq(Int) /\ Len(Chars(c, n)) = n /\ DOMAIN Chars(c, n) = 1 .. n
  BY <1>1
<1>3. \A p \in 1 .. n : Chars(c, n)[p] = c
  BY DEF Chars
<1>4. CASE c = x
  <2>1. {p \in DOMAIN Chars(c, n) : Chars(c, n)[p] = x} = 1 .. n
    BY <1>2, <1>3, <1>4
  <2>2. Cardinality(1 .. n) = n
    <3>1. 1 \in Int /\ n \in Int
      OBVIOUS
    <3>2. Cardinality(1 .. n) = IF 1 > n THEN 0 ELSE n - 1 + 1
      BY <3>1, FS_Interval
    <3> QED BY <3>2
  <2> QED BY <1>2, <1>3, <1>4, <2>1, <2>2 DEF Count
<1>5. CASE c # x
  <2>1. {p \in DOMAIN Chars(c, n) : Chars(c, n)[p] = x} = {}
    BY <1>2, <1>3, <1>5
  <2> QED BY <1>2, <1>3, <1>5, <2>1, FS_EmptySet DEF Count
<1> QED BY <1>4, <1>5

LEMMA CountEmpty ==
  ASSUME NEW x
  PROVE  Count(<< >>, x) = 0
<1>1. {p \in DOMAIN << >> : << >>[p] = x} = {}
  OBVIOUS
<1> QED BY <1>1, FS_EmptySet DEF Count

\* A segment has valid citations exactly if one of its ids was retrieved.
LEMMA SupportsRight ==
  ASSUME NEW segment, segment.cites \in Seq(Nat), NEW evidence
  PROVE  /\ Supports(segment, evidence) \in Seq(Nat)
         /\ Range(Supports(segment, evidence)) = Range(segment.cites) \cap Range(evidence)
         /\ Supports(segment, evidence) = << >> <=> Range(segment.cites) \cap Range(evidence) = {}
<1> DEFINE cites == segment.cites
           valid == {k \in DOMAIN cites : cites[k] \in Range(evidence)}
           R == {p \in valid \X valid : p[1] < p[2]}
           places == InOrder(valid, R)
           sup == Supports(segment, evidence)
<1>1. Len(cites) \in Nat /\ DOMAIN cites = 1 .. Len(cites) /\ \A k \in DOMAIN cites : cites[k] \in Nat
  OBVIOUS
<1>2. valid \in SUBSET (1 .. Len(cites))
  BY <1>1
<1>3. sup = [n \in DOMAIN places |-> cites[places[n]]]
  BY DEF Supports
<1>4. \A k \in DOMAIN cites : k \in valid <=> cites[k] \in Range(evidence)
  OBVIOUS
<1> HIDE DEF valid
<1>5. IsFiniteSet(valid)
  <2>1. 1 \in Int /\ Len(cites) \in Int
    BY <1>1
  <2>2. IsFiniteSet(1 .. Len(cites))
    BY <2>1, FS_Interval
  <2> QED BY <1>2, <2>2, FS_Subset
<1>6. Enumerates(places, valid, R)
  <2>1. valid \in SUBSET Int
    BY <1>2
  <2> QED BY <1>5, <2>1, NumbersInOrder
<1> HIDE DEF places, R
<1>7. /\ places \in Seq(valid) /\ DOMAIN places = 1 .. Len(places) /\ Len(places) \in Nat
      /\ \A x \in valid : \E n \in DOMAIN places : places[n] = x
      /\ \A n \in DOMAIN places : places[n] \in valid
  BY <1>6 DEF Enumerates
<1>8. \A n \in DOMAIN places : cites[places[n]] \in Nat
  BY <1>1, <1>2, <1>7
<1>9. sup \in Seq(Nat) /\ DOMAIN sup = DOMAIN places /\ Len(sup) = Len(places)
  <2>1. sup \in [1 .. Len(places) -> Nat]
    BY <1>3, <1>7, <1>8
  <2> HIDE DEF sup
  <2> QED BY <1>7, <2>1
<1>10. \A n \in DOMAIN sup : sup[n] = cites[places[n]]
  BY <1>3, <1>9
<1> HIDE DEF sup
<1>11. Range(sup) = Range(cites) \cap Range(evidence)
  <2>1. ASSUME NEW x \in Range(sup) PROVE x \in Range(cites) \cap Range(evidence)
    <3>1. PICK n \in DOMAIN sup : x = sup[n]
      BY DEF Range
    <3>2. places[n] \in valid /\ places[n] \in DOMAIN cites
      BY <1>1, <1>2, <1>7, <1>9
    <3> QED BY <1>4, <1>10, <3>1, <3>2 DEF Range
  <2>2. ASSUME NEW x \in Range(cites) \cap Range(evidence) PROVE x \in Range(sup)
    <3>1. PICK k \in DOMAIN cites : x = cites[k]
      BY DEF Range
    <3>2. k \in valid
      BY <1>4, <3>1
    <3>3. PICK n \in DOMAIN places : places[n] = k
      BY <1>7, <3>2
    <3> QED BY <1>9, <1>10, <3>1, <3>3 DEF Range
  <2> QED BY <2>1, <2>2
<1>12. sup = << >> <=> Range(sup) = {}
  <2>1. sup = << >> => Range(sup) = {}
    BY DEF Range
  <2>2. sup # << >> => Len(sup) \in Nat \ {0}
    BY <1>9, EmptySeq
  <2>3. sup # << >> => 1 \in DOMAIN sup
    BY <1>9, <2>2
  <2> QED BY <2>1, <2>3 DEF Range
<1> QED BY <1>9, <1>11, <1>12 DEF sup

SegmentSet == [length : Nat, cites : Seq(Nat)]
CiteSet == [id : Nat, of : Nat, span : Nat \X Nat]
OutSet == [text : Seq(Int), cursor : Nat, kept : SUBSET Nat, citations : Seq(CiteSet)]

LEMMA NothingTyped == Nothing \in OutSet /\ Nothing.cursor = Len(Nothing.text)
<1>1. << >> \in Seq(Int) /\ << >> \in Seq(CiteSet) /\ Len(<< >>) = 0
  BY EmptySeq
<1> QED BY <1>1 DEF Nothing, OutSet

\* A segment as written.
LEMMA RenderedRight ==
  ASSUME NEW segment \in SegmentSet, NEW i \in Nat \ {0}, NEW evidence, NEW mode
  PROVE  LET w == Rendered(segment, i, evidence, mode)
             bare == Supports(segment, evidence) = << >>
         IN  /\ w \in Seq(Int) /\ Len(w) \in Nat /\ Len(w) >= segment.length
             /\ \A p \in 1 .. segment.length : w[p] = i
             /\ ~bare => Len(w) = segment.length
             /\ \A x : Count(w, x) = (IF x = i THEN segment.length ELSE 0)
                                     + (IF x = Mark /\ mode = "loose" /\ bare THEN MarkLength ELSE 0)
<1> DEFINE bare == Supports(segment, evidence) = << >>
           body == Chars(i, segment.length)
           mark == IF mode = "loose" /\ bare THEN Chars(Mark, MarkLength) ELSE << >>
<1>1. segment.length \in Nat /\ i \in Int /\ Mark \in Int /\ MarkLength \in Nat
  BY DEF SegmentSet, Mark, MarkLength
<1>2. /\ body \in Seq(Int) /\ Len(body) = segment.length
      /\ \A p \in 1 .. segment.length : body[p] = i
      /\ \A x : Count(body, x) = IF i = x THEN segment.length ELSE 0
  <2>1. /\ Chars(i, segment.length) \in Seq(Int) /\ Len(Chars(i, segment.length)) = segment.length
        /\ \A p \in 1 .. segment.length : Chars(i, segment.length)[p] = i
    BY <1>1, CountChars
  <2>2. \A x : Count(Chars(i, segment.length), x) = IF i = x THEN segment.length ELSE 0
    BY <1>1, CountChars
  <2> QED BY <2>1, <2>2
<1>3. /\ mark \in Seq(Int) /\ Len(mark) \in Nat /\ (~bare => Len(mark) = 0)
      /\ \A x : Count(mark, x) = IF x = Mark /\ mode = "loose" /\ bare THEN MarkLength ELSE 0
  <2>1. CASE mode = "loose" /\ bare
    <3>1. /\ Chars(Mark, MarkLength) \in Seq(Int) /\ Len(Chars(Mark, MarkLength)) = MarkLength
          /\ \A x : Count(Chars(Mark, MarkLength), x) = IF Mark = x THEN MarkLength ELSE 0
      BY <1>1, CountChars
    <3>2. mark = Chars(Mark, MarkLength)
      BY <2>1
    <3> HIDE DEF mark
    <3> QED BY <1>1, <2>1, <3>1, <3>2
  <2>2. CASE ~(mode = "loose" /\ bare)
    <3>1. mark = << >>
      BY <2>2
    <3> HIDE DEF mark
    <3> QED BY <2>2, <3>1, EmptySeq, CountEmpty
  <2> QED BY <2>1, <2>2
<1>4. Rendered(segment, i, evidence, mode) = body \o mark
  BY DEF Rendered
<1> HIDE DEF body, mark
<1>5. /\ body \o mark \in Seq(Int) /\ Len(body \o mark) = segment.length + Len(mark)
      /\ \A p \in 1 .. segment.length : (body \o mark)[p] = i
  <2>1. /\ body \o mark \in Seq(Int) /\ Len(body \o mark) = Len(body) + Len(mark)
        /\ \A p \in 1 .. Len(body) + Len(mark) :
             (body \o mark)[p] = IF p <= Len(body) THEN body[p] ELSE mark[p - Len(body)]
    BY <1>2, <1>3, ConcatProperties
  <2>2. \A p \in 1 .. segment.length : p \in 1 .. Len(body) + Len(mark) /\ p <= Len(body)
    BY <1>1, <1>2, <1>3
  <2> QED BY <1>2, <2>1, <2>2
<1>6. \A x : Count(body \o mark, x) = Count(body, x) + Count(mark, x)
  BY <1>2, <1>3, CountConcat
<1>7. \A x : Count(body \o mark, x) = (IF x = i THEN segment.length ELSE 0)
                                      + (IF x = Mark /\ mode = "loose" /\ bare THEN MarkLength ELSE 0)
  BY <1>2, <1>3, <1>6
<1> QED BY <1>1, <1>3, <1>4, <1>5, <1>7

\* What a segment that is not left out adds.
Added(new, out, segment, i, sup, mode) ==
  /\ new \in OutSet /\ new.cursor = Len(new.text) /\ Len(new.text) >= Len(out.text)
  /\ \A p \in 1 .. Len(out.text) : new.text[p] = out.text[p]
  /\ \A x \in Int \ {Join} :
       Count(new.text, x) = Count(out.text, x) + ((IF x = i THEN segment.length ELSE 0)
         + (IF x = Mark /\ mode = "loose" /\ sup = << >> THEN MarkLength ELSE 0))
  /\ \A k \in DOMAIN new.citations :
       \/ k \in DOMAIN out.citations /\ new.citations[k] = out.citations[k]
       \/ LET c == new.citations[k] IN
          /\ c.id \in Range(sup) /\ c.of = i
          /\ c.span[1] \in Nat /\ c.span[2] = c.span[1] + segment.length
          /\ c.span[2] <= Len(new.text)
          /\ \A p \in c.span[1] + 1 .. c.span[2] : new.text[p] = i
  /\ \A k \in DOMAIN out.citations : k \in DOMAIN new.citations /\ new.citations[k] = out.citations[k]
  /\ \A id \in Range(sup) : \E k \in DOMAIN new.citations :
       new.citations[k].id = id /\ new.citations[k].of = i

LEMMA WriteAdds ==
  ASSUME NEW out \in OutSet, out.cursor = Len(out.text), NEW segment \in SegmentSet,
         NEW i \in Nat \ {0}, NEW evidence, NEW mode, ~LeftOut(segment, evidence, mode)
  PROVE  Added(Write(out, segment, i, evidence, mode), out, segment, i, Supports(segment, evidence), mode)
<1> DEFINE new == Write(out, segment, i, evidence, mode)
           sup == Supports(segment, evidence)
           w == Rendered(segment, i, evidence, mode)
           gap == IF out.kept = {} THEN << >> ELSE <<Join>>
           start == out.cursor + (IF out.kept = {} THEN 0 ELSE 1)
           more == [k \in DOMAIN sup |-> [id |-> sup[k], of |-> i, span |-> <<start, start + Len(w)>>]]
           before == out.text \o gap
<1>1. /\ out.text \in Seq(Int) /\ out.cursor \in Nat /\ out.kept \in SUBSET Nat /\ out.citations \in Seq(CiteSet)
      /\ segment.length \in Nat /\ segment.cites \in Seq(Nat)
  BY DEF OutSet, SegmentSet
<1>2. /\ new = [text |-> before \o w, cursor |-> start + Len(w), kept |-> out.kept \cup {i},
                citations |-> out.citations \o more]
  BY DEF Write
<1>3. /\ sup \in Seq(Nat) /\ DOMAIN sup = 1 .. Len(sup) /\ Len(sup) \in Nat /\ \A k \in DOMAIN sup : sup[k] \in Nat
  <2>1. sup \in Seq(Nat)
    BY <1>1, SupportsRight
  <2> HIDE DEF sup
  <2> QED BY <2>1
<1>4. /\ w \in Seq(Int) /\ Len(w) \in Nat /\ Len(w) >= segment.length
      /\ \A p \in 1 .. segment.length : w[p] = i
      /\ sup # << >> => Len(w) = segment.length
      /\ \A x : Count(w, x) = (IF x = i THEN segment.length ELSE 0)
                              + (IF x = Mark /\ mode = "loose" /\ sup = << >> THEN MarkLength ELSE 0)
  BY RenderedRight
<1>5. gap \in Seq(Int) /\ start = Len(out.text) + Len(gap) /\ Len(gap) \in Nat /\ \A x \in Int \ {Join} : Count(gap, x) = 0
  <2>1. CASE out.kept = {}
    BY <1>1, <2>1, EmptySeq, CountEmpty
  <2>2. CASE out.kept # {}
    <3>1. gap = <<Join>> /\ Len(gap) = 1 /\ gap \in Seq(Int) /\ DOMAIN gap = 1 .. 1 /\ gap[1] = Join
      BY <2>2 DEF Join
    <3>2. ASSUME NEW x \in Int \ {Join} PROVE Count(gap, x) = 0
      <4>1. {p \in DOMAIN gap : gap[p] = x} = {}
        BY <3>1
      <4> QED BY <4>1, FS_EmptySet DEF Count
    <3> QED BY <1>1, <2>2, <3>1, <3>2
  <2> QED BY <2>1, <2>2
<1> HIDE DEF sup, w, gap
<1>6. /\ before \in Seq(Int) /\ Len(before) = start /\ start \in Nat /\ start >= Len(out.text)
      /\ \A p \in 1 .. Len(out.text) : before[p] = out.text[p]
      /\ \A x \in Int \ {Join} : Count(before, x) = Count(out.text, x)
  <2>1. /\ before \in Seq(Int) /\ Len(before) = Len(out.text) + Len(gap)
        /\ \A p \in 1 .. Len(out.text) + Len(gap) :
             before[p] = IF p <= Len(out.text) THEN out.text[p] ELSE gap[p - Len(out.text)]
    BY <1>1, <1>5, ConcatProperties
  <2>2. \A x : Count(before, x) = Count(out.text, x) + Count(gap, x)
    BY <1>1, <1>5, CountConcat
  <2>3. \A x : Count(out.text, x) \in Nat
    BY <1>1, CountNat
  <2>4. Len(out.text) \in Nat /\ \A p \in 1 .. Len(out.text) : p \in 1 .. Len(out.text) + Len(gap) /\ p <= Len(out.text)
    BY <1>1, <1>5
  <2> HIDE DEF before, start
  <2> QED BY <1>5, <2>1, <2>2, <2>3, <2>4
<1> HIDE DEF before, start
<1>7. /\ new.text = before \o w /\ new.text \in Seq(Int) /\ Len(new.text) = start + Len(w)
      /\ \A p \in 1 .. start + Len(w) : new.text[p] = IF p <= start THEN before[p] ELSE w[p - start]
  <2>1. new.text = before \o w
    BY <1>2
  <2>2. /\ before \o w \in Seq(Int) /\ Len(before \o w) = Len(before) + Len(w)
        /\ \A p \in 1 .. Len(before) + Len(w) :
             (before \o w)[p] = IF p <= Len(before) THEN before[p] ELSE w[p - Len(before)]
    <3>1. before \in Seq(Int) /\ w \in Seq(Int)
      BY <1>4, <1>6
    <3> QED BY <3>1, ConcatProperties
  <2> HIDE DEF new
  <2> QED BY <1>6, <2>1, <2>2
<1>8. \A x \in Int \ {Join} : Count(new.text, x) = Count(out.text, x) + Count(w, x)
  <2>1. \A x : Count(before \o w, x) = Count(before, x) + Count(w, x)
    BY <1>4, <1>6, CountConcat
  <2> QED BY <1>6, <1>7, <2>1
<1>9. more \in Seq(CiteSet) /\ DOMAIN more = 1 .. Len(sup) /\ Len(more) = Len(sup)
  <2>1. \A k \in DOMAIN sup : [id |-> sup[k], of |-> i, span |-> <<start, start + Len(w)>>] \in CiteSet
    BY <1>3, <1>4, <1>6 DEF CiteSet
  <2>2. more \in [1 .. Len(sup) -> CiteSet]
    BY <1>3, <2>1
  <2> HIDE DEF more
  <2> QED BY <1>3, <2>2
<1>10. \A k \in DOMAIN more : more[k] = [id |-> sup[k], of |-> i, span |-> <<start, start + Len(w)>>]
  BY <1>3
<1> HIDE DEF more
<1>11. /\ new.citations \in Seq(CiteSet)
       /\ DOMAIN new.citations = 1 .. Len(out.citations) + Len(sup)
       /\ DOMAIN out.citations = 1 .. Len(out.citations) /\ Len(out.citations) \in Nat
       /\ \A k \in 1 .. Len(out.citations) : new.citations[k] = out.citations[k]
       /\ \A k \in 1 .. Len(sup) : new.citations[Len(out.citations) + k] = more[k]
  <2>1. /\ out.citations \o more \in Seq(CiteSet)
        /\ Len(out.citations \o more) = Len(out.citations) + Len(sup)
        /\ \A k \in 1 .. Len(out.citations) + Len(sup) :
             (out.citations \o more)[k] = IF k <= Len(out.citations) THEN out.citations[k] ELSE more[k - Len(out.citations)]
    <3>1. /\ out.citations \o more \in Seq(CiteSet)
          /\ Len(out.citations \o more) = Len(out.citations) + Len(more)
          /\ \A k \in 1 .. Len(out.citations) + Len(more) :
               (out.citations \o more)[k] = IF k <= Len(out.citations) THEN out.citations[k] ELSE more[k - Len(out.citations)]
      <4>1. out.citations \in Seq(CiteSet) /\ more \in Seq(CiteSet)
        BY <1>1, <1>9
      <4> HIDE DEF new, before
      <4> QED BY <4>1, ConcatProperties
    <3> QED BY <1>9, <3>1
  <2>2. new.citations = out.citations \o more
    BY <1>2
  <2>3. Len(out.citations) \in Nat /\ DOMAIN out.citations = 1 .. Len(out.citations)
    BY <1>1
  <2>4. DOMAIN new.citations = 1 .. Len(new.citations)
    BY <2>1, <2>2
  <2>5. \A k \in 1 .. Len(out.citations) : k \in 1 .. Len(out.citations) + Len(sup) /\ k <= Len(out.citations)
    BY <1>3, <2>3
  <2>6. \A k \in 1 .. Len(sup) : /\ Len(out.citations) + k \in 1 .. Len(out.citations) + Len(sup)
                                 /\ ~(Len(out.citations) + k <= Len(out.citations))
                                 /\ (Len(out.citations) + k) - Len(out.citations) = k
    BY <1>3, <2>3
  <2> QED BY <2>1, <2>2, <2>3, <2>4, <2>5, <2>6
<1>12. new \in OutSet /\ new.cursor = Len(new.text) /\ Len(new.text) >= Len(out.text)
  <2>1. start + Len(w) \in Nat /\ start + Len(w) >= Len(out.text)
    BY <1>1, <1>4, <1>6
  <2>2. new.cursor = start + Len(w) /\ new.kept = out.kept \cup {i}
    BY <1>2
  <2>3. new = [text |-> new.text, cursor |-> new.cursor, kept |-> new.kept, citations |-> new.citations]
    BY <1>2
  <2>4. new.kept \in SUBSET Nat
    BY <1>1, <2>2
  <2> HIDE DEF new
  <2> QED BY <1>7, <1>11, <2>1, <2>2, <2>3, <2>4 DEF OutSet
<1> HIDE DEF new
<1>13. \A p \in 1 .. Len(out.text) : new.text[p] = out.text[p]
  <2>1. Len(out.text) \in Nat
    BY <1>1
  <2>2. \A p \in 1 .. Len(out.text) : p \in 1 .. start + Len(w) /\ p <= start
    BY <1>4, <1>6, <2>1
  <2> QED BY <1>6, <1>7, <2>2
<1>14. \A p \in start + 1 .. start + segment.length : new.text[p] = i
  <2>1. \A p \in start + 1 .. start + segment.length :
          p \in 1 .. start + Len(w) /\ ~(p <= start) /\ p - start \in 1 .. segment.length
    BY <1>1, <1>4, <1>6
  <2> QED BY <1>4, <1>7, <2>1
<1>15. ASSUME NEW k \in DOMAIN new.citations, k \notin DOMAIN out.citations
       PROVE  LET c == new.citations[k] IN
                /\ c.id \in Range(sup) /\ c.of = i
                /\ c.span[1] \in Nat /\ c.span[2] = c.span[1] + segment.length
                /\ c.span[2] <= Len(new.text)
                /\ \A p \in c.span[1] + 1 .. c.span[2] : new.text[p] = i
  <2> DEFINE m == k - Len(out.citations)
  <2>1. m \in 1 .. Len(sup) /\ k = Len(out.citations) + m
    BY <1>3, <1>11, <1>15
  <2> HIDE DEF m
  <2>2. new.citations[k] = [id |-> sup[m], of |-> i, span |-> <<start, start + Len(w)>>]
    BY <1>9, <1>10, <1>11, <2>1
  <2>3. sup # << >> /\ sup[m] \in Range(sup)
    BY <1>3, <2>1 DEF Range
  <2>4. Len(w) = segment.length
    BY <1>4, <2>3
  <2> QED BY <1>4, <1>6, <1>7, <1>14, <2>2, <2>3, <2>4
<1>16. ASSUME NEW id \in Range(sup)
       PROVE  \E k \in DOMAIN new.citations : new.citations[k].id = id /\ new.citations[k].of = i
  <2>1. PICK m \in DOMAIN sup : id = sup[m]
    BY DEF Range
  <2>2. m \in 1 .. Len(sup) /\ Len(out.citations) + m \in DOMAIN new.citations
    BY <1>3, <1>11, <2>1
  <2>3. new.citations[Len(out.citations) + m] = [id |-> sup[m], of |-> i, span |-> <<start, start + Len(w)>>]
    BY <1>9, <1>10, <1>11, <2>2
  <2> QED BY <2>1, <2>2, <2>3
<1>17. \A k \in DOMAIN out.citations : k \in DOMAIN new.citations /\ new.citations[k] = out.citations[k]
  BY <1>3, <1>11
<1>18. \A x \in Int \ {Join} :
         Count(new.text, x) = Count(out.text, x) + ((IF x = i THEN segment.length ELSE 0)
           + (IF x = Mark /\ mode = "loose" /\ sup = << >> THEN MarkLength ELSE 0))
  BY <1>4, <1>8
<1>19. Added(new, out, segment, i, sup, mode)
  BY <1>12, <1>13, <1>15, <1>16, <1>17, <1>18 DEF Added
<1> QED BY <1>19 DEF new, sup

-----------------------------------------------------------------------------
Unsupported(draft, evidence, n) ==
  {i \in 1 .. n : Range(draft[i].cites) \cap Range(evidence) = {} /\ draft[i].length > 0}

\* What is known after n segments.
Good(out, n, draft, evidence, mode) ==
  /\ out.cursor = Len(out.text)
  /\ \A k \in DOMAIN out.citations : LET c == out.citations[k] IN
       /\ c.id \in Range(evidence) /\ c.of \in 1 .. n
       /\ c.span[1] \in Nat /\ c.span[2] = c.span[1] + draft[c.of].length
       /\ c.span[2] <= Len(out.text)
       /\ \A p \in c.span[1] + 1 .. c.span[2] : out.text[p] = c.of
  /\ \A i \in 1 .. n :
       /\ Count(out.text, i) = IF mode = "strict" /\ Range(draft[i].cites) \cap Range(evidence) = {}
                               THEN 0 ELSE draft[i].length
       /\ draft[i].length > 0 => \A id \in Range(draft[i].cites) \cap Range(evidence) :
            \E k \in DOMAIN out.citations : out.citations[k].of = i /\ out.citations[k].id = id
  /\ \A i \in Nat : i > n => Count(out.text, i) = 0
  /\ Count(out.text, Mark) =
       MarkLength * (IF mode = "loose" THEN Cardinality(Unsupported(draft, evidence, n)) ELSE 0)

\* One more unsupported segment, or as many as before.
LEMMA UnsupportedNext ==
  ASSUME NEW draft \in Seq(SegmentSet), NEW evidence, NEW n \in 0 .. Len(draft) - 1
  PROVE  /\ Cardinality(Unsupported(draft, evidence, n)) \in Nat
         /\ Cardinality(Unsupported(draft, evidence, n + 1)) =
              Cardinality(Unsupported(draft, evidence, n)) +
              (IF Range(draft[n + 1].cites) \cap Range(evidence) = {} /\ draft[n + 1].length > 0 THEN 1 ELSE 0)
<1> DEFINE U == Unsupported(draft, evidence, n)
           V == Unsupported(draft, evidence, n + 1)
           more == Range(draft[n + 1].cites) \cap Range(evidence) = {} /\ draft[n + 1].length > 0
<1>1. n \in Nat /\ n + 1 \in 1 .. n + 1 /\ n + 1 \notin 1 .. n /\ 1 .. n + 1 = (1 .. n) \cup {n + 1}
  OBVIOUS
<1>2. U \in SUBSET (1 .. n)
  BY DEF Unsupported
<1>3. V = U \cup (IF more THEN {n + 1} ELSE {})
  BY <1>1 DEF Unsupported
<1>4. IsFiniteSet(U)
  <2>1. 1 \in Int /\ n \in Int
    BY <1>1
  <2>2. IsFiniteSet(1 .. n)
    BY <2>1, FS_Interval
  <2> HIDE DEF U
  <2> QED BY <1>2, <2>2, FS_Subset
<1>5. n + 1 \notin U
  BY <1>1, <1>2
<1> HIDE DEF U, V, more
<1>6. Cardinality(U) \in Nat
  BY <1>4, FS_CardinalityType
<1>7. CASE more
  <2>1. V = U \cup {n + 1}
    BY <1>3, <1>7
  <2>2. Cardinality(V) = Cardinality(U) + 1
    BY <1>4, <1>5, <2>1, FS_AddElement
  <2> QED BY <1>6, <1>7, <2>2 DEF U, V, more
<1>8. CASE ~more
  <2>1. V = U
    BY <1>3, <1>8
  <2> QED BY <1>6, <1>8, <2>1 DEF U, V, more
<1> QED BY <1>7, <1>8

LEMMA GoodStart ==
  ASSUME NEW draft, NEW evidence, NEW mode
  PROVE  Good(Nothing, 0, draft, evidence, mode)
<1>1. /\ Nothing.text = << >> /\ Nothing.citations = << >> /\ DOMAIN << >> = {}
      /\ Nothing.cursor = Len(Nothing.text) /\ 1 .. 0 = {}
  BY NothingTyped DEF Nothing
<1>2. \A x : Count(Nothing.text, x) = 0
  BY <1>1, CountEmpty
<1>3. Cardinality(Unsupported(draft, evidence, 0)) = 0
  <2>1. Unsupported(draft, evidence, 0) = {}
    BY <1>1 DEF Unsupported
  <2> QED BY <2>1, FS_EmptySet
<1>4. MarkLength * 0 = 0 /\ MarkLength \in Nat
  BY DEF MarkLength
<1> QED BY <1>1, <1>2, <1>3, <1>4 DEF Good

LEMMA GoodNext ==
  ASSUME NEW draft \in Seq(SegmentSet), NEW evidence, NEW mode, NEW n \in 0 .. Len(draft) - 1,
         NEW out \in OutSet, Good(out, n, draft, evidence, mode)
  PROVE  LET new == Write(out, draft[n + 1], n + 1, evidence, mode)
         IN  new \in OutSet /\ Good(new, n + 1, draft, evidence, mode)
<1> DEFINE segment == draft[n + 1]
           i == n + 1
           new == Write(out, segment, i, evidence, mode)
           sup == Supports(segment, evidence)
           bare == Range(segment.cites) \cap Range(evidence) = {}
           U(m) == Cardinality(Unsupported(draft, evidence, m))
<1>1. /\ Len(draft) \in Nat /\ DOMAIN draft = 1 .. Len(draft) /\ i \in Nat \ {0} /\ i \in 1 .. Len(draft)
      /\ n \in Nat /\ 1 .. i = (1 .. n) \cup {i} /\ i \notin 1 .. n
  OBVIOUS
<1>2. segment \in SegmentSet /\ segment.length \in Nat /\ segment.cites \in Seq(Nat)
  <2>1. segment \in SegmentSet
    BY <1>1, ElementOfSeq
  <2> HIDE DEF segment
  <2> QED BY <2>1 DEF SegmentSet
<1>3. /\ Range(sup) = Range(segment.cites) \cap Range(evidence)
      /\ sup = << >> <=> bare
  BY <1>2, SupportsRight
<1>4. U(n) \in Nat /\ U(i) = U(n) + (IF bare /\ segment.length > 0 THEN 1 ELSE 0)
  BY UnsupportedNext
<1>5. Mark \in Int \ {Join} /\ (\A m \in Nat \ {0} : m \in Int \ {Join} /\ m # Mark) /\ MarkLength \in Nat
  BY DEF Mark, Join, MarkLength
<1>6. \A x \in Int : Count(out.text, x) \in Nat
  BY CountNat DEF OutSet
<1>7. /\ out.cursor = Len(out.text) /\ Len(out.text) \in Nat
      /\ \A m \in Nat : m > n => Count(out.text, m) = 0
      /\ Count(out.text, Mark) = MarkLength * (IF mode = "loose" THEN U(n) ELSE 0)
      /\ out.text \in Seq(Int) /\ DOMAIN out.text = 1 .. Len(out.text)
  <2>1. out.text \in Seq(Int)
    BY DEF OutSet
  <2> QED BY <2>1 DEF Good
<1> HIDE DEF U
<1>8. CASE LeftOut(segment, evidence, mode)
  <2>1. new = out
    BY <1>8 DEF Write
  <2>2. segment.length = 0 \/ (mode = "strict" /\ bare)
    BY <1>3, <1>8 DEF LeftOut
  <2> HIDE DEF new, segment, sup
  <2>3. Count(out.text, i) = 0
    BY <1>1, <1>7
  <2>4. Count(out.text, i) = IF mode = "strict" /\ bare THEN 0 ELSE segment.length
    BY <1>2, <2>2, <2>3
  <2>5. segment.length > 0 => Range(segment.cites) \cap Range(evidence) = {}
    BY <1>2, <2>2
  <2>6. mode = "loose" => U(i) = U(n)
    BY <1>2, <1>4, <2>2
  <2>7. \A m \in Nat : m > i => m > n
    BY <1>1
  <2>8. \A m \in 1 .. i : m \in 1 .. n \/ m = i
    BY <1>1
  <2>9. 1 .. n \subseteq 1 .. i
    BY <1>1
  <2>10. Good(out, i, draft, evidence, mode)
    <3>1. \A m \in 1 .. i :
            /\ Count(out.text, m) = IF mode = "strict" /\ Range(draft[m].cites) \cap Range(evidence) = {}
                                    THEN 0 ELSE draft[m].length
            /\ draft[m].length > 0 => \A id \in Range(draft[m].cites) \cap Range(evidence) :
                 \E k \in DOMAIN out.citations : out.citations[k].of = m /\ out.citations[k].id = id
      <4>1. ASSUME NEW m \in 1 .. n
            PROVE  /\ Count(out.text, m) = IF mode = "strict" /\ Range(draft[m].cites) \cap Range(evidence) = {}
                                           THEN 0 ELSE draft[m].length
                   /\ draft[m].length > 0 => \A id \in Range(draft[m].cites) \cap Range(evidence) :
                        \E k \in DOMAIN out.citations : out.citations[k].of = m /\ out.citations[k].id = id
        BY DEF Good
      <4> QED BY <2>4, <2>5, <2>8, <4>1 DEF segment
    <3>2. \A k \in DOMAIN out.citations : LET c == out.citations[k] IN
            /\ c.id \in Range(evidence) /\ c.of \in 1 .. i
            /\ c.span[1] \in Nat /\ c.span[2] = c.span[1] + draft[c.of].length
            /\ c.span[2] <= Len(out.text)
            /\ \A p \in c.span[1] + 1 .. c.span[2] : out.text[p] = c.of
      BY <2>9 DEF Good
    <3>3. Count(out.text, Mark) = MarkLength * (IF mode = "loose" THEN U(i) ELSE 0)
      BY <1>7, <2>6
    <3>4. \A m \in Nat : m > i => Count(out.text, m) = 0
      BY <1>7, <2>7
    <3> QED BY <1>7, <3>1, <3>2, <3>3, <3>4 DEF Good, U
  <2> QED BY <2>1, <2>10 DEF new, segment
<1>9. CASE ~LeftOut(segment, evidence, mode)
  <2>1. /\ new \in OutSet /\ new.cursor = Len(new.text) /\ Len(new.text) >= Len(out.text)
        /\ \A p \in 1 .. Len(out.text) : new.text[p] = out.text[p]
        /\ \A x \in Int \ {Join} :
             Count(new.text, x) = Count(out.text, x) + ((IF x = i THEN segment.length ELSE 0)
               + (IF x = Mark /\ mode = "loose" /\ sup = << >> THEN MarkLength ELSE 0))
        /\ \A k \in DOMAIN new.citations :
             \/ k \in DOMAIN out.citations /\ new.citations[k] = out.citations[k]
             \/ LET c == new.citations[k] IN
                /\ c.id \in Range(sup) /\ c.of = i
                /\ c.span[1] \in Nat /\ c.span[2] = c.span[1] + segment.length
                /\ c.span[2] <= Len(new.text)
                /\ \A p \in c.span[1] + 1 .. c.span[2] : new.text[p] = i
        /\ \A k \in DOMAIN out.citations : k \in DOMAIN new.citations /\ new.citations[k] = out.citations[k]
        /\ \A id \in Range(sup) : \E k \in DOMAIN new.citations :
             new.citations[k].id = id /\ new.citations[k].of = i
    <3>1. /\ out \in OutSet /\ out.cursor = Len(out.text) /\ segment \in SegmentSet /\ i \in Nat \ {0}
          /\ ~LeftOut(segment, evidence, mode)
      BY <1>1, <1>2, <1>7, <1>9
    <3>2. Added(new, out, segment, i, sup, mode)
      <4> HIDE DEF segment, i
      <4> QED BY <3>1, WriteAdds
    <3> HIDE DEF new, sup, segment, i
    <3> QED BY <3>2 DEF Added
  <2>2. segment.length > 0 /\ ~(mode = "strict" /\ bare)
    BY <1>2, <1>3, <1>9 DEF LeftOut
  <2> HIDE DEF new, sup, segment
  <2>3. Len(new.text) \in Nat
    <3>1. new.text \in Seq(Int)
      BY <2>1 DEF OutSet
    <3> QED BY <3>1
  <2>4. Count(new.text, i) = segment.length
    <3>1. Count(out.text, i) = 0 /\ i # Mark /\ i \in Int \ {Join}
      BY <1>1, <1>5, <1>7
    <3> QED BY <1>2, <2>1, <3>1
  <2>5. \A m \in Nat \ {0} : m # i => Count(new.text, m) = Count(out.text, m)
    BY <1>5, <1>6, <2>1
  <2>6. Count(new.text, Mark) = MarkLength * (IF mode = "loose" THEN U(i) ELSE 0)
    <3>1. Count(new.text, Mark) = Count(out.text, Mark) + (IF mode = "loose" /\ bare THEN MarkLength ELSE 0)
      <4>1. Mark # i
        BY <1>1, <1>5
      <4>2. Count(new.text, Mark) = Count(out.text, Mark)
              + (0 + (IF mode = "loose" /\ sup = << >> THEN MarkLength ELSE 0))
        BY <1>5, <2>1, <4>1
      <4> QED BY <1>3, <1>5, <4>2
    <3>2. CASE mode = "loose" /\ bare
      <4>1. U(i) = U(n) + 1
        BY <1>4, <2>2, <3>2
      <4> QED BY <1>4, <1>7, <3>1, <3>2, <4>1 DEF MarkLength
    <3>3. CASE ~(mode = "loose" /\ bare)
      <4>1. mode = "loose" => U(i) = U(n)
        BY <1>4, <3>3
      <4>2. Count(new.text, Mark) = Count(out.text, Mark)
        <5>1. Count(out.text, Mark) \in Nat
          BY <1>5, <1>6
        <5>2. Count(new.text, Mark) = Count(out.text, Mark) + 0
          BY <3>1, <3>3
        <5> QED BY <5>1, <5>2
      <4> QED BY <1>7, <4>1, <4>2
    <3> QED BY <3>2, <3>3
  <2>7. ASSUME NEW k \in DOMAIN new.citations
        PROVE  LET c == new.citations[k] IN
                 /\ c.id \in Range(evidence) /\ c.of \in 1 .. i
                 /\ c.span[1] \in Nat /\ c.span[2] = c.span[1] + draft[c.of].length
                 /\ c.span[2] <= Len(new.text)
                 /\ \A p \in c.span[1] + 1 .. c.span[2] : new.text[p] = c.of
    <3>1. CASE k \in DOMAIN out.citations
      <4> DEFINE c == out.citations[k]
      <4>1. /\ c.id \in Range(evidence) /\ c.of \in 1 .. n
            /\ c.span[1] \in Nat /\ c.span[2] = c.span[1] + draft[c.of].length
            /\ c.span[2] <= Len(out.text)
            /\ \A p \in c.span[1] + 1 .. c.span[2] : out.text[p] = c.of
        BY <3>1 DEF Good
      <4>2. new.citations[k] = c
        BY <2>1, <3>1
      <4> HIDE DEF c
      <4>3. c.of \in 1 .. Len(draft) /\ c.of \in 1 .. i
        BY <1>1, <4>1
      <4>4. draft[c.of].length \in Nat
        <5>1. draft[c.of] \in SegmentSet
          BY <4>3, ElementOfSeq
        <5> QED BY <5>1 DEF SegmentSet
      <4>5. c.span[2] <= Len(new.text)
        BY <1>7, <2>1, <2>3, <4>1, <4>4
      <4>6. \A p \in c.span[1] + 1 .. c.span[2] : p \in 1 .. Len(out.text)
        BY <1>7, <4>1, <4>4
      <4>7. \A p \in c.span[1] + 1 .. c.span[2] : new.text[p] = c.of
        BY <2>1, <4>1, <4>6
      <4> QED BY <4>1, <4>2, <4>3, <4>5, <4>7
    <3>2. CASE k \notin DOMAIN out.citations
      <4>1. LET c == new.citations[k] IN
              /\ c.id \in Range(sup) /\ c.of = i
              /\ c.span[1] \in Nat /\ c.span[2] = c.span[1] + segment.length
              /\ c.span[2] <= Len(new.text)
              /\ \A p \in c.span[1] + 1 .. c.span[2] : new.text[p] = i
        BY <2>1, <3>2
      <4>2. \A id \in Range(sup) : id \in Range(evidence)
        BY <1>3
      <4>3. i \in 1 .. i
        BY <1>1
      <4> QED BY <4>1, <4>2, <4>3 DEF segment
    <3> QED BY <3>1, <3>2
  <2>8. ASSUME NEW m \in 1 .. i
        PROVE  /\ Count(new.text, m) = IF mode = "strict" /\ Range(draft[m].cites) \cap Range(evidence) = {}
                                       THEN 0 ELSE draft[m].length
               /\ draft[m].length > 0 => \A id \in Range(draft[m].cites) \cap Range(evidence) :
                    \E k \in DOMAIN new.citations : new.citations[k].of = m /\ new.citations[k].id = id
    <3>1. CASE m = i
      <4>1. draft[m] = segment
        BY <3>1 DEF segment
      <4>2. Count(new.text, m) = IF mode = "strict" /\ bare THEN 0 ELSE segment.length
        BY <2>2, <2>4, <3>1
      <4>3. \A id \in Range(segment.cites) \cap Range(evidence) :
              \E k \in DOMAIN new.citations : new.citations[k].of = i /\ new.citations[k].id = id
        BY <1>3, <2>1
      <4> QED BY <3>1, <4>1, <4>2, <4>3
    <3>2. CASE m \in 1 .. n
      <4>1. /\ Count(out.text, m) = IF mode = "strict" /\ Range(draft[m].cites) \cap Range(evidence) = {}
                                    THEN 0 ELSE draft[m].length
            /\ draft[m].length > 0 => \A id \in Range(draft[m].cites) \cap Range(evidence) :
                 \E k \in DOMAIN out.citations : out.citations[k].of = m /\ out.citations[k].id = id
        BY <3>2 DEF Good
      <4>2. Count(new.text, m) = Count(out.text, m)
        BY <1>1, <2>5, <3>2
      <4>3. \A k \in DOMAIN out.citations : k \in DOMAIN new.citations /\ new.citations[k] = out.citations[k]
        BY <2>1
      <4> QED BY <4>1, <4>2, <4>3
    <3> QED BY <1>1, <3>1, <3>2
  <2>9. \A m \in Nat : m > i => Count(new.text, m) = 0
    <3>1. \A m \in Nat : m > i => m \in Nat \ {0} /\ m # i /\ m > n
      BY <1>1
    <3> QED BY <1>7, <2>5, <3>1
  <2>10. Good(new, i, draft, evidence, mode)
    <3> HIDE DEF i
    <3> QED BY <2>1, <2>6, <2>7, <2>8, <2>9 DEF Good, U
  <2> QED BY <2>1, <2>10 DEF new, segment
<1> QED BY <1>8, <1>9

\* Drafts are of segments.
LEMMA SegmentsOnly ==
  ASSUME NEW c \in Cases
  PROVE  c.draft \in Seq(Segments) /\ c.sizes \in Seq(Nat)
<1>1. \A S : \A n \in Nat : SeqOf(S, n) \subseteq Seq(S)
  BY DEF SeqOf
<1>2. << >> \in Seq(Segments)
  BY EmptySeq
<1>3. Sizes \subseteq Nat /\ MaxRanked \in Nat /\ MaxSegments \in Nat
  BY AnsweringAssumption DEF AnsweringAssumption
<1>4. SeqOf(Sizes, MaxRanked) \subseteq Seq(Nat) /\ SeqOf(Segments, MaxSegments) \subseteq Seq(Segments)
  BY <1>1, <1>3, SeqMonotonic
<1>5. {[i \in 1 .. n |-> 4] : n \in 0 .. MaxRanked} \subseteq Seq(Nat)
  BY <1>3
<1> QED BY <1>2, <1>4, <1>5 DEF Cases

\* The answer is what is known after the last segment.
LEMMA EnforceGood ==
  ASSUME NEW draft \in Seq(SegmentSet), NEW evidence, NEW mode
  PROVE  /\ Enforce(draft, evidence, mode) \in OutSet
         /\ Good(Enforce(draft, evidence, mode), Len(draft), draft, evidence, mode)
<1> DEFINE L == Len(draft)
           Fun(g) == [n \in 0 .. L |-> IF n = 0 THEN Nothing ELSE Write(g[n - 1], draft[n], n, evidence, mode)]
           written == CHOOSE g : g = Fun(g)
           X == {o \in OutSet : o.cursor = Len(o.text)}
           step == [n \in 1 .. L |-> [o \in X |-> Write(o, draft[n], n, evidence, mode)]]
<1>1. Enforce(draft, evidence, mode) = written[L]
  BY DEF Enforce
<1>2. L \in Nat /\ \A n \in 1 .. L : draft[n] \in SegmentSet /\ n \in Nat \ {0}
  BY ElementOfSeq
<1>3. Nothing \in X
  BY NothingTyped
<1>4. \A n \in 1 .. L : \A o \in X : Write(o, draft[n], n, evidence, mode) \in X
  <2>1. ASSUME NEW n \in 1 .. L, NEW o \in X PROVE Write(o, draft[n], n, evidence, mode) \in X
    <3>1. draft[n] \in SegmentSet /\ n \in Nat \ {0} /\ o \in OutSet /\ o.cursor = Len(o.text)
      BY <1>2
    <3>2. CASE LeftOut(draft[n], evidence, mode)
      <4>1. Write(o, draft[n], n, evidence, mode) = o
        BY <3>2 DEF Write
      <4> QED BY <4>1
    <3>3. CASE ~LeftOut(draft[n], evidence, mode)
      <4> DEFINE new == Write(o, draft[n], n, evidence, mode)
      <4>1. new \in OutSet /\ new.cursor = Len(new.text)
        <5>1. Added(new, o, draft[n], n, Supports(draft[n], evidence), mode)
          <6> HIDE DEF X, L
          <6> QED BY <3>1, <3>3, WriteAdds
        <5> HIDE DEF new
        <5> QED BY <5>1 DEF Added
      <4> HIDE DEF new
      <4>2. new \in X
        BY <4>1
      <4> QED BY <4>2 DEF new
    <3> QED BY <3>2, <3>3
  <2> HIDE DEF X, L
  <2> QED BY <2>1
<1> HIDE DEF X, L
<1>5. step \in [1 .. L -> [X -> X]] /\ \A n \in 1 .. L, o \in X : step[n][o] = Write(o, draft[n], n, evidence, mode)
  BY <1>4
<1> HIDE DEF step
<1>6. \E g : g = Fun(g)
  <2>1. PICK g : Iterated(g, L, X, Nothing, step)
    BY <1>2, <1>3, <1>5, Iterates
  <2>2. g \in [0 .. L -> X] /\ g[0] = Nothing /\ \A n \in 1 .. L : g[n] = step[n][g[n - 1]]
    BY <2>1 DEF Iterated
  <2>3. ASSUME NEW n \in 0 .. L
        PROVE  g[n] = IF n = 0 THEN Nothing ELSE Write(g[n - 1], draft[n], n, evidence, mode)
    <3>1. CASE n = 0
      BY <2>2, <3>1
    <3>2. CASE n # 0
      <4>1. n \in 1 .. L /\ n - 1 \in 0 .. L
        BY <1>2, <3>2
      <4>2. g[n - 1] \in X
        BY <2>2, <4>1
      <4> QED BY <1>5, <2>2, <3>2, <4>1, <4>2
    <3> QED BY <3>1, <3>2
  <2>4. g = Fun(g)
    BY <2>2, <2>3
  <2> QED BY <2>4
<1>7. written = Fun(written)
  <2> HIDE DEF Fun
  <2> QED BY <1>6
<1> HIDE DEF written
<1>8. /\ written[0] = Nothing
      /\ \A n \in 1 .. L : written[n] = Write(written[n - 1], draft[n], n, evidence, mode)
  <2>1. \A n \in 0 .. L : written[n] = IF n = 0 THEN Nothing ELSE Write(written[n - 1], draft[n], n, evidence, mode)
    BY <1>7
  <2>2. 0 \in 0 .. L /\ \A n \in 1 .. L : n \in 0 .. L /\ n # 0
    BY <1>2
  <2> HIDE DEF Fun
  <2> QED BY <2>1, <2>2
<1> HIDE DEF Fun
<1> DEFINE Done(n) == written[n] \in OutSet /\ Good(written[n], n, draft, evidence, mode)
           S == {n \in 0 .. L : Done(n)}
<1>9. Done(0)
  BY <1>8, NothingTyped, GoodStart
<1>10. ASSUME NEW n \in 0 .. L - 1, Done(n) PROVE Done(n + 1)
  <2>1. n + 1 \in 1 .. L /\ (n + 1) - 1 = n /\ n \in 0 .. Len(draft) - 1
    BY <1>2 DEF L
  <2>2. written[n + 1] = Write(written[n], draft[n + 1], n + 1, evidence, mode)
    BY <1>8, <2>1
  <2> QED BY <1>10, <2>1, <2>2, GoodNext
<1> HIDE DEF Done
<1>11. 0 \in S /\ \A n \in 0 .. L - 1 : n \in S => n + 1 \in S
  <2>1. 0 \in 0 .. L /\ \A n \in 0 .. L - 1 : n + 1 \in 0 .. L
    BY <1>2
  <2> QED BY <1>9, <1>10, <2>1
<1>12. Done(L)
  <2> HIDE DEF S
  <2>1. 0 .. L \subseteq S
    BY <1>2, <1>11, UpTo
  <2>2. L \in S
    BY <1>2, <2>1
  <2> QED BY <2>2 DEF S
<1> QED BY <1>1, <1>12 DEF Done, L

\* The span of a citation holds its segment, and every segment is written as it should be.
LEMMA AnswerGood ==
  ASSUME AnsweringAssumption, answering \in Cases
  PROVE  SpansHoldTheirClaims
<1> DEFINE draft == answering.draft
           evidence == Evidence(answering)
           mode == answering.mode
           out == Enforce(draft, evidence, mode)
<1>1. draft \in Seq(SegmentSet)
  <2>1. Segments \subseteq SegmentSet
    BY DEF AnsweringAssumption, SegmentSet
  <2> HIDE DEF draft
  <2>2. draft \in Seq(Segments)
    BY SegmentsOnly DEF draft
  <2> QED BY <2>1, <2>2, SeqMonotonic
<1>2. out \in OutSet /\ Good(out, Len(draft), draft, evidence, mode)
  BY <1>1, EnforceGood
<1>3. Len(draft) \in Nat /\ DOMAIN draft = 1 .. Len(draft) /\ \A i \in DOMAIN draft : draft[i] \in SegmentSet
  <2> HIDE DEF draft
  <2> QED BY <1>1, ElementOfSeq
<1>4. out.text \in Seq(Int) /\ DOMAIN out.text = 1 .. Len(out.text) /\ Len(out.text) \in Nat
  <2>1. out.text \in Seq(Int)
    BY <1>2 DEF OutSet
  <2> QED BY <2>1
<1>5. out.citations \in Seq(CiteSet)
  BY <1>2 DEF OutSet
<1> HIDE DEF draft, evidence, mode, out
<1>6. ASSUME NEW c \in Range(out.citations)
      PROVE  /\ c.id \in Range(evidence)
             /\ SubSeq(out.text, c.span[1] + 1, c.span[2]) = Chars(c.of, draft[c.of].length)
  <2>1. PICK k \in DOMAIN out.citations : c = out.citations[k]
    BY DEF Range
  <2>2. /\ c.id \in Range(evidence) /\ c.of \in 1 .. Len(draft)
        /\ c.span[1] \in Nat /\ c.span[2] = c.span[1] + draft[c.of].length
        /\ c.span[2] <= Len(out.text)
        /\ \A p \in c.span[1] + 1 .. c.span[2] : out.text[p] = c.of
    BY <1>2, <2>1 DEF Good
  <2>3. draft[c.of].length \in Nat
    BY <1>3, <2>2 DEF SegmentSet
  <2> DEFINE a == c.span[1]
             n == draft[c.of].length
             s == SubSeq(out.text, a + 1, a + n)
  <2>4. a \in Nat /\ n \in Nat /\ c.span[2] = a + n /\ a + n <= Len(out.text)
    BY <2>2, <2>3
  <2>5. \A p \in a + 1 .. a + n : out.text[p] = c.of
    BY <2>2, <2>4
  <2> HIDE DEF a, n
  <2>6. s = Chars(c.of, n)
    <3>1. \A p \in a + 1 .. a + n : out.text[p] \in Int
      BY <2>2, <2>5, <1>3
    <3>2. a + 1 \in Int /\ a + n \in Int
      BY <2>4
    <3>3. /\ s \in Seq(Int) /\ Len(s) = IF a + 1 <= a + n THEN (a + n) - (a + 1) + 1 ELSE 0
          /\ \A i \in 1 .. (a + n) - (a + 1) + 1 : s[i] = out.text[(a + 1) + i - 1]
      BY <3>1, <3>2, SubSeqProperties
    <3>4. Len(s) = n /\ DOMAIN s = 1 .. n
      BY <2>4, <3>3
    <3>5. \A i \in 1 .. n : s[i] = c.of
      <4>1. \A i \in 1 .. n : i \in 1 .. (a + n) - (a + 1) + 1 /\ (a + 1) + i - 1 \in a + 1 .. a + n
        BY <2>4
      <4> QED BY <2>5, <3>3, <4>1
    <3>6. c.of \in Int
      BY <1>3, <2>2
    <3>7. Chars(c.of, n) \in Seq(Int) /\ Len(Chars(c.of, n)) = n /\ \A i \in 1 .. n : Chars(c.of, n)[i] = c.of
      BY <2>4, <3>6, CountChars
    <3> HIDE DEF s
    <3> QED BY <3>3, <3>4, <3>5, <3>7, SeqEqual
  <2> QED BY <2>2, <2>4, <2>6 DEF a, n
<1>7. ASSUME NEW i \in DOMAIN draft
      PROVE  LET supported == Range(draft[i].cites) \cap Range(evidence) # {} IN
             /\ Cardinality({p \in DOMAIN out.text : out.text[p] = i}) =
                  IF mode = "strict" /\ ~supported THEN 0 ELSE draft[i].length
             /\ supported /\ draft[i].length > 0 =>
                  \A id \in Range(draft[i].cites) \cap Range(evidence) :
                    \E c \in Range(out.citations) : c.of = i /\ c.id = id
  <2>1. i \in 1 .. Len(draft)
    BY <1>3
  <2>2. /\ Count(out.text, i) = IF mode = "strict" /\ Range(draft[i].cites) \cap Range(evidence) = {}
                                THEN 0 ELSE draft[i].length
        /\ draft[i].length > 0 => \A id \in Range(draft[i].cites) \cap Range(evidence) :
             \E k \in DOMAIN out.citations : out.citations[k].of = i /\ out.citations[k].id = id
    BY <1>2, <2>1 DEF Good
  <2>3. \A k \in DOMAIN out.citations : out.citations[k] \in Range(out.citations)
    BY DEF Range
  <2> QED BY <2>2, <2>3 DEF Count
<1>8. Cardinality({p \in DOMAIN out.text : out.text[p] = Mark}) = MarkLength * (IF mode = "loose"
        THEN Cardinality({i \in DOMAIN draft : ~(Range(draft[i].cites) \cap Range(evidence) # {}) /\ draft[i].length > 0}) ELSE 0)
  <2>1. {i \in DOMAIN draft : ~(Range(draft[i].cites) \cap Range(evidence) # {}) /\ draft[i].length > 0}
          = Unsupported(draft, evidence, Len(draft))
    BY <1>3 DEF Unsupported
  <2>2. Count(out.text, Mark) =
          MarkLength * (IF mode = "loose" THEN Cardinality(Unsupported(draft, evidence, Len(draft))) ELSE 0)
    BY <1>2 DEF Good
  <2> QED BY <2>1, <2>2 DEF Count
<1> QED BY <1>6, <1>7, <1>8 DEF SpansHoldTheirClaims, draft, evidence, mode, out

-----------------------------------------------------------------------------
\* The evidence is numbered, odd numbers from the front and even ones from the back.
LEMMA ReorderPlaces ==
  ASSUME NEW n \in Nat
  PROVE  LET e == Reorder([i \in 1 .. n |-> i])
             half == (n + 1) \div 2
         IN  /\ e \in Seq(Nat) /\ Len(e) = n /\ DOMAIN e = 1 .. n
             /\ \A i \in 1 .. n : e[i] = IF i <= half THEN 2 * i - 1 ELSE 2 * (n + 1 - i)
<1> DEFINE ranked == [i \in 1 .. n |-> i]
           half == (n + 1) \div 2
           rest == n \div 2
           front == [i \in 1 .. half |-> ranked[2 * i - 1]]
           back == [i \in 1 .. rest |-> ranked[2 * i]]
           e == Reorder(ranked)
<1>1. /\ half \in Nat /\ rest \in Nat /\ half + rest = n
      /\ 2 * half <= n + 1 /\ 2 * rest <= n
  OBVIOUS
<1>2. Len(ranked) = n /\ \A i \in 1 .. n : ranked[i] = i
  OBVIOUS
<1>3. e = front \o Reverse(back)
  <2> HIDE DEF ranked
  <2> QED BY <1>2 DEF Reorder
<1> HIDE DEF ranked, half, rest
<1>4. \A i \in 1 .. half : 2 * i - 1 \in 1 .. n
  BY <1>1
<1>5. \A i \in 1 .. rest : 2 * i \in 1 .. n
  BY <1>1
<1>6. front \in [1 .. half -> Nat] /\ \A i \in 1 .. half : front[i] = 2 * i - 1
  BY <1>2, <1>4
<1>7. back \in [1 .. rest -> Nat] /\ \A i \in 1 .. rest : back[i] = 2 * i
  BY <1>2, <1>5
<1> HIDE DEF front, back
<1>8. front \in Seq(Nat) /\ Len(front) = half /\ back \in Seq(Nat) /\ Len(back) = rest
  BY <1>1, <1>6, <1>7
<1> DEFINE turned == Reverse(back)
<1>9. turned \in [1 .. rest -> Nat] /\ \A i \in 1 .. rest : turned[i] = 2 * (rest + 1 - i)
  <2>1. turned = [i \in 1 .. rest |-> back[(rest - i) + 1]]
    BY <1>8 DEF Reverse
  <2>2. \A i \in 1 .. rest : (rest - i) + 1 \in 1 .. rest /\ (rest - i) + 1 = rest + 1 - i
    BY <1>1
  <2> HIDE DEF turned
  <2> QED BY <1>7, <2>1, <2>2
<1> HIDE DEF turned
<1>10. turned \in Seq(Nat) /\ Len(turned) = rest
  BY <1>1, <1>9
<1>11. /\ front \o turned \in Seq(Nat) /\ Len(front \o turned) = Len(front) + Len(turned)
       /\ \A i \in 1 .. Len(front) + Len(turned) :
            (front \o turned)[i] = IF i <= Len(front) THEN front[i] ELSE turned[i - Len(front)]
  BY <1>8, <1>10, ConcatProperties
<1>12. e = front \o turned
  BY <1>3 DEF turned
<1> HIDE DEF e
<1>13. e \in Seq(Nat) /\ Len(e) = n /\ DOMAIN e = 1 .. n
  <2>1. e \in Seq(Nat) /\ Len(e) = n
    BY <1>1, <1>8, <1>10, <1>11, <1>12
  <2> QED BY <2>1
<1>14. \A i \in 1 .. n : e[i] = IF i <= half THEN front[i] ELSE turned[i - half]
  BY <1>1, <1>8, <1>10, <1>11, <1>12
<1>15. ASSUME NEW i \in 1 .. n PROVE e[i] = IF i <= half THEN 2 * i - 1 ELSE 2 * (n + 1 - i)
  <2>1. CASE i <= half
    <3>1. i \in 1 .. half
      BY <2>1
    <3> QED BY <1>6, <1>14, <2>1, <3>1
  <2>2. CASE ~(i <= half)
    <3>1. i - half \in 1 .. rest /\ rest + 1 - (i - half) = n + 1 - i
      BY <1>1, <2>2
    <3> QED BY <1>9, <1>14, <2>2, <3>1
  <2> QED BY <2>1, <2>2
<1> QED BY <1>13, <1>15 DEF e, half, ranked

\* How much evidence fits: so much, and no more.
LEMMA FitsBest ==
  ASSUME NEW sizes \in Seq(Nat), NEW budget
  PROVE  \E n \in 0 .. Len(sizes) :
           /\ Fit(sizes, budget) = [i \in 1 .. n |-> i]
           /\ n > 0 => Tokens(SubSeq(sizes, 1, n)) <= budget
           /\ n < Len(sizes) => ~(Tokens(SubSeq(sizes, 1, n + 1)) <= budget)
<1> DEFINE fitting == {n \in 1 .. Len(sizes) : Tokens(SubSeq(sizes, 1, n)) <= budget}
           S == fitting \cup {0}
           n == Max(S)
<1>1. Len(sizes) \in Nat
  OBVIOUS
<1>2. S \in SUBSET (0 .. Len(sizes)) /\ 0 \in S
  BY <1>1
<1>3. n \in S /\ \A m \in S : m <= n
  <2>1. 0 \in Int /\ Len(sizes) \in Int /\ 0 .. Len(sizes) \subseteq Int
    BY <1>1
  <2>2. IsFiniteSet(0 .. Len(sizes))
    BY <2>1, FS_Interval
  <2> HIDE DEF S
  <2>3. IsFiniteSet(S)
    BY <1>2, <2>2, FS_Subset
  <2>4. S \in SUBSET Int /\ S # {}
    BY <1>2, <2>1
  <2> QED BY <2>3, <2>4, FiniteMax
<1>4. Fit(sizes, budget) = [i \in 1 .. n |-> i]
  BY DEF Fit
<1> HIDE DEF n
<1>5. n \in 0 .. Len(sizes)
  BY <1>2, <1>3
<1>6. n > 0 => Tokens(SubSeq(sizes, 1, n)) <= budget
  BY <1>3, <1>5
<1>7. n < Len(sizes) => ~(Tokens(SubSeq(sizes, 1, n + 1)) <= budget)
  <2>1. ASSUME n < Len(sizes), Tokens(SubSeq(sizes, 1, n + 1)) <= budget PROVE FALSE
    <3>1. n + 1 \in 1 .. Len(sizes) /\ ~(n + 1 <= n)
      BY <1>1, <1>5, <2>1
    <3>2. n + 1 \in S
      BY <2>1, <3>1
    <3> QED BY <1>3, <3>1, <3>2
  <2> QED BY <2>1
<1> QED BY <1>4, <1>5, <1>6, <1>7

\* The best evidence stands at the ends.
LEMMA EvidenceGood ==
  ASSUME answering \in Cases
  PROVE  EvidenceEndLoaded
<1> DEFINE sizes == answering.sizes
           budget == answering.budget
           e == Evidence(answering)
<1>1. sizes \in Seq(Nat) /\ Len(sizes) \in Nat
  <2>1. sizes \in Seq(Nat)
    BY SegmentsOnly
  <2> QED BY <2>1
<1>2. PICK n \in 0 .. Len(sizes) :
        /\ Fit(sizes, budget) = [i \in 1 .. n |-> i]
        /\ n > 0 => Tokens(SubSeq(sizes, 1, n)) <= budget
        /\ n < Len(sizes) => ~(Tokens(SubSeq(sizes, 1, n + 1)) <= budget)
  BY <1>1, FitsBest
<1>3. n \in Nat
  BY <1>1
<1> DEFINE half == (n + 1) \div 2
<1>4. /\ e \in Seq(Nat) /\ Len(e) = n /\ DOMAIN e = 1 .. n
      /\ \A i \in 1 .. n : e[i] = IF i <= half THEN 2 * i - 1 ELSE 2 * (n + 1 - i)
  <2>1. e = Reorder([i \in 1 .. n |-> i])
    BY <1>2 DEF Evidence
  <2>2. LET r == Reorder([i \in 1 .. n |-> i]) IN
          /\ r \in Seq(Nat) /\ Len(r) = n /\ DOMAIN r = 1 .. n
          /\ \A i \in 1 .. n : r[i] = IF i <= half THEN 2 * i - 1 ELSE 2 * (n + 1 - i)
    BY <1>3, ReorderPlaces
  <2> HIDE DEF e, half
  <2> QED BY <2>1, <2>2
<1>5. half \in Nat /\ 2 * half <= n + 1 /\ n <= 2 * half
  BY <1>3
<1> HIDE DEF sizes, budget, e, half
<1>6. Range(e) = 1 .. n
  <2>1. ASSUME NEW x \in Range(e) PROVE x \in 1 .. n
    <3>1. PICK i \in 1 .. n : x = e[i]
      BY <1>4 DEF Range
    <3> QED BY <1>3, <1>4, <1>5, <3>1
  <2>2. ASSUME NEW x \in 1 .. n PROVE x \in Range(e)
    <3>1. \E i \in 1 .. n : x = e[i]
      <4>1. PICK k \in Nat : x = 2 * k \/ x = 2 * k + 1
        <5>1. x \in Nat /\ x \div 2 \in Nat /\ (x = 2 * (x \div 2) \/ x = 2 * (x \div 2) + 1)
          BY <1>3
        <5> QED BY <5>1
      <4>2. CASE x = 2 * k
        <5>1. n + 1 - k \in 1 .. n /\ ~(n + 1 - k <= half) /\ 2 * (n + 1 - (n + 1 - k)) = x
          BY <1>3, <1>5, <4>1, <4>2
        <5>2. e[n + 1 - k] = x
          BY <1>4, <5>1
        <5> QED BY <5>1, <5>2
      <4>3. CASE x = 2 * k + 1
        <5>1. k + 1 \in 1 .. n /\ k + 1 <= half /\ 2 * (k + 1) - 1 = x
          BY <1>3, <1>5, <4>1, <4>3
        <5>2. e[k + 1] = x
          BY <1>4, <5>1
        <5> QED BY <5>1, <5>2
      <4> QED BY <4>1, <4>2, <4>3
    <3> QED BY <1>4, <3>1 DEF Range
  <2> QED BY <2>1, <2>2
<1>7. n > 0 => e[1] = 1
  BY <1>3, <1>4, <1>5
<1>8. ASSUME NEW i \in 1 .. n, NEW j \in 1 .. n, Min({i - 1, n - i}) < Min({j - 1, n - j})
      PROVE  e[i] < e[j]
  <2>1. \A m \in 1 .. n : Min({m - 1, n - m}) = IF m - 1 <= n - m THEN m - 1 ELSE n - m
    <3>1. \A m \in 1 .. n : m - 1 \in Int /\ n - m \in Int
      BY <1>3
    <3> QED BY <3>1, MinOfTwo
  <2>2. \A m \in 1 .. n : (m - 1 <= n - m) <=> (m <= half)
    BY <1>3, <1>5
  <2>3. \A m \in 1 .. n : IF m <= half THEN e[m] = 2 * Min({m - 1, n - m}) + 1 ELSE e[m] = 2 * Min({m - 1, n - m}) + 2
    <3>1. ASSUME NEW m \in 1 .. n
          PROVE  IF m <= half THEN e[m] = 2 * Min({m - 1, n - m}) + 1 ELSE e[m] = 2 * Min({m - 1, n - m}) + 2
      <4>1. CASE m <= half
        <5>1. e[m] = 2 * m - 1 /\ Min({m - 1, n - m}) = m - 1
          BY <1>4, <2>1, <2>2, <4>1
        <5> QED BY <1>3, <4>1, <5>1
      <4>2. CASE ~(m <= half)
        <5>1. e[m] = 2 * (n + 1 - m) /\ Min({m - 1, n - m}) = n - m
          BY <1>4, <2>1, <2>2, <4>2
        <5> QED BY <1>3, <4>2, <5>1
      <4> QED BY <4>1, <4>2
    <3> QED BY <3>1
  <2>4. \A m \in 1 .. n : Min({m - 1, n - m}) \in Int
    BY <1>3, <2>1
  <2> DEFINE a == Min({i - 1, n - i})
             b == Min({j - 1, n - j})
  <2>5. a \in Int /\ b \in Int /\ a < b /\ e[i] \in {2 * a + 1, 2 * a + 2} /\ e[j] \in {2 * b + 1, 2 * b + 2}
    BY <1>8, <2>3, <2>4
  <2> HIDE DEF a, b
  <2> QED BY <2>5
<1>9. n < Len(sizes) => ~(Tokens(SubSeq(sizes, 1, n + 1)) <= budget)
  BY <1>2
<1> QED BY <1>2, <1>4, <1>6, <1>7, <1>8, <1>9 DEF EvidenceEndLoaded, sizes, budget, e

\* AnsweringSpec => []AnswerSound: for any candidates, budget and draft, the best evidence
\* that fits stands at the ends of the prompt, and every citation of the answer holds the
\* segment it supports, at its place in the text as joined.
THEOREM AnswerHolds == AnsweringSpec => []AnswerSound
<1>1. AnsweringInit => AnswerSound
  BY AnsweringAssumption, EvidenceGood, AnswerGood DEF AnsweringInit, AnswerSound
<1>2. AnsweringInit => answering \in Cases
  BY DEF AnsweringInit
<1>3. answering \in Cases /\ [UNCHANGED answering]_answering => (answering \in Cases)'
  OBVIOUS
<1>4. answering \in Cases => AnswerSound
  BY AnsweringAssumption, EvidenceGood, AnswerGood DEF AnswerSound
<1> QED BY <1>2, <1>3, <1>4, PTL DEF AnsweringSpec

=============================================================================
