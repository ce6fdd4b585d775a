-------------------------- MODULE Orchestrator_proofs --------------------------
(***************************************************************************)
(* The safety properties of Orchestrator, for every corpus, deployment and *)
(* bound.  One inductive invariant carries them all: it adds what holds    *)
(* while a turn is on its way to a hop, to a spawn or to its answer.       *)
(***************************************************************************)
EXTENDS Orchestrator, TLAPS

\* A hop that is under way was still due.
HopDue == pc \in {"retrieve", "dci_tool"} => hops < request.max_hops

\* On the way to a spawn nothing has been delegated, and the turn may delegate.
SpawnPending ==
  pc \in {"gate", "paused", "sub_agent"} =>
    /\ ~delegated /\ ~denied
    /\ request.depth < MaxDepth

\* The spawn about to run is within the cap or somebody has answered for it.
SpawnCleared ==
  pc = "sub_agent" /\ "gates" \in deps => plan <= MaxConcurrent \/ answered # NoReply

\* A refusal the gate node can read is latched as a denial.
RefusalLatched == Refused => denied

\* The latch tells whether the turn has delegated or been denied to.
LatchTells ==
  /\ ~delegated => spawns = 0 /\ results.count = 0 /\ ~denied
  /\ denied => spawns = 0

\* All evidence at hand was gathered in this turn.
EvidenceGathered == candidates \subseteq gathered

\* There is a result at the end of a turn only.
ResultAtEnd == pc # "END" => result = Nothing

\* Calls are queued or have a result, and none is queued at the answer.
CallsConserved ==
  "tools" \in deps =>
    /\ calls + toolResults = request.calls
    /\ pc \in {"answer", "finalize", "END"} => calls = 0

IInv ==
  /\ TypeOK
  /\ HopDue
  /\ SpawnPending /\ SpawnCleared /\ LatchTells /\ RefusalLatched
  /\ SpawnAuthorised /\ DelegatesOnce
  /\ EvidenceGathered /\ ResultAtEnd /\ CitationsGrounded
  /\ CallsConserved

\* The names of nodes are told apart everywhere.
USE DEF Stopped, Nodes, MaxDepth

-----------------------------------------------------------------------------

\* The first question starts with nothing gathered, spawned, approved or denied.
LEMMA InitHolds == Init => IInv
<1> SUFFICES ASSUME Init PROVE IInv
  OBVIOUS
<1>1. TypeOK
  <2>1. request \in Requests /\ request.max_hops \in Nat /\ request.calls \in Nat
    BY DEF Init, Requests
  <2>2. Nothing \in Outcomes
    BY DEF Nothing, Outcomes
  <2>3. NoResults \in [count : Legs, cited : SUBSET Chunks]
    BY DEF NoResults, Legs
  <2>4. NoDecision \in [intent : Intents, strategy : Strategies]
    BY DEF NoDecision, Intents, Strategies
  <2>5. deps \in SUBSET Components /\ turn \in 1 .. MaxTurns /\ budget \in Nat
    BY OrchestratorAssumption DEF Init
  <2>6. hops \in 0 .. request.max_hops /\ dciHops \in 0 .. hops
    BY <2>1 DEF Init
  <2>7. plan \in Legs
    BY DEF Init, Legs
  <2> QED
    BY <2>1, <2>2, <2>3, <2>4, <2>5, <2>6, <2>7 DEF Init, TypeOK
<1>2. HopDue /\ SpawnPending /\ SpawnCleared /\ EvidenceGathered /\ ResultAtEnd
  BY DEF Init, HopDue, SpawnPending, SpawnCleared, EvidenceGathered, ResultAtEnd
<1>3. LatchTells /\ RefusalLatched /\ SpawnAuthorised /\ DelegatesOnce
  BY OrchestratorAssumption
  DEF Init, NoResults, Replies, NoReply, LatchTells, RefusalLatched, Refused,
      SpawnAuthorised, DelegatesOnce
<1>4. CitationsGrounded
  BY DEF Init, Nothing, CitationsGrounded
<1>5. CallsConserved
  <2>1. request.calls \in Nat
    BY DEF Init, Requests
  <2> QED BY <2>1 DEF Init, CallsConserved
<1> QED BY <1>1, <1>2, <1>3, <1>4, <1>5 DEF IInv

\* Every node, every answer of a person and every new question keeps IInv: for
\* each, the parts of IInv that relate the same variables are shown together.
LEMMA StepHolds == IInv /\ [Next]_vars => IInv'
<1> SUFFICES ASSUME IInv, [Next]_vars PROVE IInv'
  OBVIOUS
<1>t. TypeOK
  BY DEF IInv
<1>1. CASE Plan
  <2>1. TypeOK'
    BY <1>t, <1>1
    DEF TypeOK, Plan, Legs, control, evidence, delegation, tooling, outcome
  <2>2. (HopDue /\ SpawnPending /\ SpawnCleared /\ LatchTells)'
    BY <1>1
    DEF IInv, HopDue, SpawnPending, SpawnCleared, LatchTells, Plan, control,
        delegation
  <2>3. (RefusalLatched /\ SpawnAuthorised /\ DelegatesOnce)'
    BY <1>1
    DEF IInv, RefusalLatched, Refused, SpawnAuthorised, DelegatesOnce, Plan,
        control, delegation
  <2>4. (EvidenceGathered /\ ResultAtEnd /\ CitationsGrounded)'
    BY <1>1
    DEF IInv, EvidenceGathered, ResultAtEnd, CitationsGrounded, Plan, evidence,
        outcome
  <2>5. CallsConserved'
    BY <1>1 DEF IInv, CallsConserved, Plan, control, tooling
  <2> QED BY <2>1, <2>2, <2>3, <2>4, <2>5 DEF IInv
<1>2. CASE Context
  <2>1. TypeOK'
    BY <1>t, <1>2
    DEF TypeOK, Context, Intents, Strategies, control, evidence, delegation,
        tooling, outcome
  <2>2. (HopDue /\ SpawnPending /\ SpawnCleared /\ LatchTells)'
    BY <1>2
    DEF IInv, HopDue, SpawnPending, SpawnCleared, LatchTells, Context, control,
        delegation
  <2>3. (RefusalLatched /\ SpawnAuthorised /\ DelegatesOnce)'
    BY <1>2
    DEF IInv, RefusalLatched, Refused, SpawnAuthorised, DelegatesOnce, Context,
        control, delegation
  <2>4. (EvidenceGathered /\ ResultAtEnd /\ CitationsGrounded)'
    BY <1>2
    DEF IInv, EvidenceGathered, ResultAtEnd, CitationsGrounded, Context,
        evidence, outcome
  <2>5. CallsConserved'
    BY <1>2 DEF IInv, CallsConserved, Context, control, tooling
  <2> QED BY <2>1, <2>2, <2>3, <2>4, <2>5 DEF IInv
<1>3. CASE Route
  <2>1. TypeOK'
    BY <1>t, <1>3
    DEF TypeOK, Route, RouteDecision, DciHopTarget, HopTarget, SpawnTarget,
        ShouldDelegate, Requests, control, evidence, delegation, tooling,
        outcome
  <2>2. (HopDue /\ SpawnPending /\ SpawnCleared /\ LatchTells)'
    BY <1>3
    DEF IInv, HopDue, SpawnPending, SpawnCleared, LatchTells, Route,
        RouteDecision, DciHopTarget, HopTarget, SpawnTarget, ShouldDelegate,
        Requests, control, delegation
  <2>3. (RefusalLatched /\ SpawnAuthorised /\ DelegatesOnce)'
    BY <1>3
    DEF IInv, RefusalLatched, Refused, SpawnAuthorised, DelegatesOnce, Route,
        control, delegation
  <2>4. (EvidenceGathered /\ ResultAtEnd /\ CitationsGrounded)'
    BY <1>3
    DEF IInv, EvidenceGathered, ResultAtEnd, CitationsGrounded, Route, evidence,
        outcome
  <2>5. CallsConserved'
    BY <1>t, <1>3
    DEF IInv, TypeOK, CallsConserved, Route, RouteDecision, DciHopTarget,
        HopTarget, SpawnTarget, ShouldDelegate, control, tooling
  <2> QED BY <2>1, <2>2, <2>3, <2>4, <2>5 DEF IInv
<1>4. CASE Tool
  <2>1. TypeOK'
    BY <1>t, <1>4
    DEF TypeOK, Tool, Requests, control, evidence, delegation, outcome
  <2>2. (HopDue /\ SpawnPending /\ SpawnCleared /\ LatchTells)'
    BY <1>4
    DEF IInv, HopDue, SpawnPending, SpawnCleared, LatchTells, Tool, control,
        delegation
  <2>3. (RefusalLatched /\ SpawnAuthorised /\ DelegatesOnce)'
    BY <1>4
    DEF IInv, RefusalLatched, Refused, SpawnAuthorised, DelegatesOnce, Tool,
        control, delegation
  <2>4. (EvidenceGathered /\ ResultAtEnd /\ CitationsGrounded)'
    BY <1>4
    DEF IInv, EvidenceGathered, ResultAtEnd, CitationsGrounded, Tool, evidence,
        outcome
  <2>5. CallsConserved'
    BY <1>4 DEF IInv, TypeOK, CallsConserved, Tool, control
  <2> QED BY <2>1, <2>2, <2>3, <2>4, <2>5 DEF IInv
<1>5. CASE Observe
  <2>1. TypeOK'
    BY <1>t, <1>5
    DEF TypeOK, Observe, Adapt, CompactDecision, Legs, control, evidence,
        delegation, tooling, outcome
  <2>2. (HopDue /\ SpawnPending /\ SpawnCleared /\ LatchTells)'
    BY <1>5
    DEF IInv, HopDue, SpawnPending, SpawnCleared, LatchTells, Observe, Adapt,
        CompactDecision, Legs, control, delegation
  <2>3. (RefusalLatched /\ SpawnAuthorised /\ DelegatesOnce)'
    BY <1>5
    DEF IInv, RefusalLatched, Refused, SpawnAuthorised, DelegatesOnce, Observe,
        control, delegation
  <2>4. (EvidenceGathered /\ ResultAtEnd /\ CitationsGrounded)'
    BY <1>5
    DEF IInv, EvidenceGathered, ResultAtEnd, CitationsGrounded, Observe,
        evidence, outcome
  <2>5. CallsConserved'
    BY <1>5 DEF IInv, CallsConserved, Observe, CompactDecision, control, tooling
  <2> QED BY <2>1, <2>2, <2>3, <2>4, <2>5 DEF IInv
<1>6. CASE Compact
  <2>1. TypeOK'
    BY <1>t, <1>6
    DEF TypeOK, Compact, Rebuild, control, delegation, tooling, outcome
  <2>2. (HopDue /\ SpawnPending /\ SpawnCleared /\ LatchTells)'
    BY <1>6
    DEF IInv, HopDue, SpawnPending, SpawnCleared, LatchTells, Compact, control,
        delegation
  <2>3. (RefusalLatched /\ SpawnAuthorised /\ DelegatesOnce)'
    BY <1>6
    DEF IInv, RefusalLatched, Refused, SpawnAuthorised, DelegatesOnce, Compact,
        control, delegation
  <2>4. (EvidenceGathered /\ ResultAtEnd /\ CitationsGrounded)'
    BY <1>6
    DEF IInv, EvidenceGathered, ResultAtEnd, CitationsGrounded, Compact,
        Rebuild, outcome
  <2>5. CallsConserved'
    BY <1>6 DEF IInv, CallsConserved, Compact, control, tooling
  <2> QED BY <2>1, <2>2, <2>3, <2>4, <2>5 DEF IInv
<1>7. CASE Gate
  <2>1. TypeOK'
    BY <1>t, <1>7
    DEF TypeOK, Legs, Gate, GateTrips, GateToSpawn, control, evidence,
        delegation, tooling, outcome
  <2>2. (HopDue /\ SpawnPending /\ SpawnCleared /\ LatchTells)'
    BY <1>t, <1>7, OrchestratorAssumption
    DEF IInv, TypeOK, HopDue, SpawnPending, SpawnCleared, LatchTells, Gate,
        GateTrips, GateToSpawn, Legs, control, delegation
  <2>3. (RefusalLatched /\ SpawnAuthorised /\ DelegatesOnce)'
    BY <1>7
    DEF IInv, RefusalLatched, Refused, SpawnAuthorised, DelegatesOnce, Gate,
        control, delegation
  <2>4. (EvidenceGathered /\ ResultAtEnd /\ CitationsGrounded)'
    BY <1>7
    DEF IInv, EvidenceGathered, ResultAtEnd, CitationsGrounded, Gate, evidence,
        outcome
  <2>5. CallsConserved'
    BY <1>7 DEF IInv, CallsConserved, Gate, GateToSpawn, control, tooling
  <2> QED BY <2>1, <2>2, <2>3, <2>4, <2>5 DEF IInv
<1>8. CASE Finalize
  <2>1. TypeOK'
    BY <1>t, <1>8
    DEF TypeOK, Finalize, Enforce, Nothing, Outcomes, control, evidence,
        delegation, tooling
  <2>2. (HopDue /\ SpawnPending /\ SpawnCleared /\ LatchTells)'
    BY <1>8
    DEF IInv, HopDue, SpawnPending, SpawnCleared, LatchTells, Finalize, control,
        delegation
  <2>3. (RefusalLatched /\ SpawnAuthorised /\ DelegatesOnce)'
    BY <1>8
    DEF IInv, RefusalLatched, Refused, SpawnAuthorised, DelegatesOnce, Finalize,
        control, delegation
  <2>4. (EvidenceGathered /\ ResultAtEnd /\ CitationsGrounded)'
    BY <1>8
    DEF IInv, EvidenceGathered, ResultAtEnd, CitationsGrounded, Finalize,
        Enforce, evidence
  <2>5. CallsConserved'
    BY <1>8 DEF IInv, CallsConserved, Finalize, control, tooling
  <2> QED BY <2>1, <2>2, <2>3, <2>4, <2>5 DEF IInv
<1>9. ASSUME NEW found \in SUBSET Chunks, NEW cost \in 0 .. MaxCost,
             Retrieve(found, cost)
      PROVE  IInv'
  <2>a. request.max_hops \in Nat /\ hops < request.max_hops
    BY <1>t, <1>9 DEF IInv, TypeOK, HopDue, Requests, Retrieve
  <2>b. hops' \in 0 .. request'.max_hops /\ dciHops' \in 0 .. hops'
    BY <1>t, <1>9, <2>a DEF TypeOK, Retrieve, Gather, control
  <2>c. budget' \in Nat
    BY <1>t, <1>9, OrchestratorAssumption DEF TypeOK, Retrieve, Gather, Debit
  <2>1. TypeOK'
    BY <1>t, <1>9, <2>b, <2>c
    DEF TypeOK, Retrieve, Gather, Accumulate, control, evidence, delegation,
        tooling, outcome
  <2>2. (HopDue /\ SpawnPending /\ SpawnCleared /\ LatchTells)'
    BY <1>9
    DEF IInv, HopDue, SpawnPending, SpawnCleared, LatchTells, Retrieve, Gather,
        control, delegation
  <2>3. (RefusalLatched /\ SpawnAuthorised /\ DelegatesOnce)'
    BY <1>9
    DEF IInv, RefusalLatched, Refused, SpawnAuthorised, DelegatesOnce, Retrieve,
        Gather, control,
        delegation
  <2>4. (EvidenceGathered /\ ResultAtEnd /\ CitationsGrounded)'
    BY <1>9
    DEF IInv, EvidenceGathered, ResultAtEnd, CitationsGrounded, Retrieve,
        Gather, Accumulate, outcome
  <2>5. CallsConserved'
    BY <1>9 DEF IInv, CallsConserved, Retrieve, Gather, control, tooling
  <2> QED BY <2>1, <2>2, <2>3, <2>4, <2>5 DEF IInv
<1>10. ASSUME NEW found \in SUBSET Chunks, NEW cost \in 0 .. MaxCost,
              DciTool(found, cost)
       PROVE  IInv'
  <2>a. request.max_hops \in Nat /\ hops < request.max_hops
    BY <1>t, <1>10 DEF IInv, TypeOK, HopDue, Requests, DciTool
  <2>b. hops' \in 0 .. request'.max_hops /\ dciHops' \in 0 .. hops'
    BY <1>t, <1>10, <2>a DEF TypeOK, DciTool, Gather, control
  <2>c. budget' \in Nat
    BY <1>t, <1>10, OrchestratorAssumption DEF TypeOK, DciTool, Gather, Debit
  <2>1. TypeOK'
    BY <1>t, <1>10, <2>b, <2>c
    DEF TypeOK, DciTool, Gather, Accumulate, control, evidence, delegation,
        tooling, outcome
  <2>2. (HopDue /\ SpawnPending /\ SpawnCleared /\ LatchTells)'
    BY <1>10
    DEF IInv, HopDue, SpawnPending, SpawnCleared, LatchTells, DciTool, Gather,
        control, delegation
  <2>3. (RefusalLatched /\ SpawnAuthorised /\ DelegatesOnce)'
    BY <1>10
    DEF IInv, RefusalLatched, Refused, SpawnAuthorised, DelegatesOnce, DciTool,
        Gather, control,
        delegation
  <2>4. (EvidenceGathered /\ ResultAtEnd /\ CitationsGrounded)'
    BY <1>10
    DEF IInv, EvidenceGathered, ResultAtEnd, CitationsGrounded, DciTool, Gather,
        Accumulate, outcome
  <2>5. CallsConserved'
    BY <1>10 DEF IInv, CallsConserved, DciTool, Gather, control, tooling
  <2> QED BY <2>1, <2>2, <2>3, <2>4, <2>5 DEF IInv
<1>11. ASSUME NEW cited \in SUBSET Chunks, NEW spent \in 0 .. MaxBudget,
              SubAgent(cited, spent)
       PROVE  IInv'
  <2>1. TypeOK'
    BY <1>t, <1>11
    DEF TypeOK, SubAgent, Accumulate, Legs, Requests, control, tooling, outcome
  <2>2. (HopDue /\ SpawnPending /\ SpawnCleared /\ LatchTells)'
    BY <1>11
    DEF IInv, HopDue, SpawnPending, SpawnCleared, LatchTells, SubAgent, control
  <2>3. (RefusalLatched /\ SpawnAuthorised /\ DelegatesOnce)'
    BY <1>t, <1>11, OrchestratorAssumption
    DEF IInv, TypeOK, SpawnPending, SpawnCleared, LatchTells, RefusalLatched,
        Refused,
        SpawnAuthorised, DelegatesOnce, SubAgent, Legs, control
  <2>4. (EvidenceGathered /\ ResultAtEnd /\ CitationsGrounded)'
    BY <1>11
    DEF IInv, EvidenceGathered, ResultAtEnd, CitationsGrounded, SubAgent,
        Accumulate, outcome
  <2>5. CallsConserved'
    BY <1>11 DEF IInv, CallsConserved, SubAgent, control, tooling
  <2> QED BY <2>1, <2>2, <2>3, <2>4, <2>5 DEF IInv
<1>12. ASSUME NEW kept \in SUBSET Chunks, NEW cites \in SUBSET Chunks,
              NEW refused \in BOOLEAN, NEW cost \in 0 .. MaxCost,
              Answer(kept, cites, refused, cost)
       PROVE  IInv'
  <2>1. TypeOK'
    BY <1>t, <1>12
    DEF TypeOK, Answer, OrderEvidence, Debit, Outcomes, control, delegation,
        tooling
  <2>2. (HopDue /\ SpawnPending /\ SpawnCleared /\ LatchTells)'
    BY <1>12
    DEF IInv, HopDue, SpawnPending, SpawnCleared, LatchTells, Answer, control,
        delegation
  <2>3. (RefusalLatched /\ SpawnAuthorised /\ DelegatesOnce)'
    BY <1>12
    DEF IInv, RefusalLatched, Refused, SpawnAuthorised, DelegatesOnce, Answer,
        control, delegation
  <2>4. (EvidenceGathered /\ ResultAtEnd /\ CitationsGrounded)'
    BY <1>12
    DEF IInv, EvidenceGathered, ResultAtEnd, CitationsGrounded, Answer,
        OrderEvidence, Debit, Outcomes
  <2>5. CallsConserved'
    BY <1>12 DEF IInv, CallsConserved, Answer, control, tooling
  <2> QED BY <2>1, <2>2, <2>3, <2>4, <2>5 DEF IInv
<1>13. CASE Raise
  <2>1. TypeOK'
    BY <1>t, <1>13
    DEF TypeOK, Raise, Fallible, control, evidence, delegation, tooling, outcome
  <2>2. (HopDue /\ SpawnPending /\ SpawnCleared /\ LatchTells)'
    BY <1>13
    DEF IInv, HopDue, SpawnPending, SpawnCleared, LatchTells, Raise, control,
        delegation
  <2>3. (RefusalLatched /\ SpawnAuthorised /\ DelegatesOnce)'
    BY <1>13
    DEF IInv, RefusalLatched, Refused, SpawnAuthorised, DelegatesOnce, Raise,
        control, delegation
  <2>4. (EvidenceGathered /\ ResultAtEnd /\ CitationsGrounded)'
    BY <1>13
    DEF IInv, EvidenceGathered, ResultAtEnd, CitationsGrounded, Raise, Fallible,
        evidence, outcome
  <2>5. CallsConserved'
    BY <1>13 DEF IInv, CallsConserved, Raise, control, tooling
  <2> QED BY <2>1, <2>2, <2>3, <2>4, <2>5 DEF IInv
<1>14. ASSUME NEW reply \in Replies, Resume(reply) PROVE IInv'
  <2>1. TypeOK'
    BY <1>t, <1>14, OrchestratorAssumption
    DEF TypeOK, Resume, Approves, GateToSpawn, control, evidence, delegation,
        tooling,
        outcome
  <2>2. (HopDue /\ SpawnPending /\ SpawnCleared /\ LatchTells)'
    BY <1>t, <1>14
    DEF IInv, TypeOK, HopDue, SpawnPending, SpawnCleared, LatchTells, Resume,
        Approves, Replies, NoReply, GateToSpawn, control
  <2>a. results.count = 0 /\ spawns = 0 /\ ~(0 > MaxConcurrent)
    BY <1>t, <1>14, OrchestratorAssumption
    DEF IInv, TypeOK, SpawnPending, LatchTells, Resume
  <2>b. UNCHANGED <<results, spawns, request>>
    BY <1>14 DEF Resume, control
  <2>c. RefusalLatched'
    BY <1>14 DEF RefusalLatched, Refused, Replies, Approves, Resume
  <2>3. (RefusalLatched /\ SpawnAuthorised /\ DelegatesOnce)'
    BY <2>a, <2>b, <2>c DEF SpawnAuthorised, DelegatesOnce
<2>4. (EvidenceGathered /\ ResultAtEnd /\ CitationsGrounded)'
    BY <1>14
    DEF IInv, EvidenceGathered, ResultAtEnd, CitationsGrounded, Resume,
        evidence, outcome
  <2>5. CallsConserved'
    BY <1>14 DEF IInv, CallsConserved, Resume, GateToSpawn, control, tooling
  <2> QED BY <2>1, <2>2, <2>3, <2>4, <2>5 DEF IInv
<1>15. CASE Ask
  <2>a. request' \in Requests /\ request'.max_hops \in Nat /\ request'.calls \in Nat
    BY <1>15 DEF Ask, Requests
  <2>b. Nothing \in Outcomes /\ NoResults \in [count : Legs, cited : SUBSET Chunks]
    BY DEF Nothing, Outcomes, NoResults, Legs
  <2>c. NoDecision \in [intent : Intents, strategy : Strategies] /\ 0 \in Legs
    BY DEF NoDecision, Intents, Strategies, Legs
  <2>d. turn' \in 1 .. MaxTurns /\ budget' \in Nat
    BY <1>t, <1>15, OrchestratorAssumption DEF TypeOK, Ask
  <2>e. hops' \in 0 .. request'.max_hops /\ dciHops' \in 0 .. hops'
    BY <1>15, <2>a DEF Ask
  <2>1. TypeOK'
    BY <1>t, <1>15, <2>a, <2>b, <2>c, <2>d, <2>e DEF TypeOK, Ask
  <2>2. (HopDue /\ SpawnPending /\ SpawnCleared /\ LatchTells)'
    BY <1>15 DEF HopDue, SpawnPending, SpawnCleared, LatchTells, Ask, NoResults
  <2>3. (RefusalLatched /\ SpawnAuthorised /\ DelegatesOnce)'
    BY <1>15, OrchestratorAssumption
    DEF RefusalLatched, Refused, Replies, NoReply, SpawnAuthorised, DelegatesOnce,
        Ask,
        NoResults
  <2>4. (EvidenceGathered /\ ResultAtEnd /\ CitationsGrounded)'
    BY <1>15 DEF EvidenceGathered, ResultAtEnd, CitationsGrounded, Ask, Nothing
  <2>5. CallsConserved'
    BY <1>15, <2>a DEF CallsConserved, Ask
  <2> QED BY <2>1, <2>2, <2>3, <2>4, <2>5 DEF IInv
<1>16. CASE UNCHANGED vars
  <2>1. TypeOK'
    BY <1>t, <1>16
    DEF TypeOK, vars, control, evidence, delegation, tooling, outcome
  <2>2. (HopDue /\ SpawnPending /\ SpawnCleared /\ LatchTells)'
    BY <1>16
    DEF IInv, HopDue, SpawnPending, SpawnCleared, LatchTells, vars, control,
        delegation
  <2>3. (RefusalLatched /\ SpawnAuthorised /\ DelegatesOnce)'
    BY <1>16
    DEF IInv, RefusalLatched, Refused, SpawnAuthorised, DelegatesOnce, vars,
        control, delegation
  <2>4. (EvidenceGathered /\ ResultAtEnd /\ CitationsGrounded)'
    BY <1>16
    DEF IInv, EvidenceGathered, ResultAtEnd, CitationsGrounded, vars, evidence,
        outcome
  <2>5. CallsConserved'
    BY <1>16 DEF IInv, CallsConserved, vars, control, tooling
  <2> QED BY <2>1, <2>2, <2>3, <2>4, <2>5 DEF IInv
<1> QED
  BY <1>1, <1>2, <1>3, <1>4, <1>5, <1>6, <1>7, <1>8, <1>9, <1>10, <1>11, <1>12,
     <1>13, <1>14, <1>15, <1>16
  DEF Next, Step

-----------------------------------------------------------------------------

\* The invariant of every run of the orchestrator.
THEOREM Invariance == Spec => []IInv
BY InitHolds, StepHolds, PTL DEF Spec

\* Every state of a thread is well typed, and no turn takes more hops than its
\* request allows.
THEOREM TypeCorrect == Spec => []TypeOK
BY Invariance, PTL DEF IInv

\* With gates wired, more sub-agents than the cap run only when a person was asked
\* in the same turn, and none after a refusal that the gate node can read.
THEOREM SpawnsAuthorised == Spec => []SpawnAuthorised
BY Invariance, PTL DEF IInv

\* A turn delegates once at most, and a delegate never.
THEOREM DelegationBounded == Spec => []DelegatesOnce
BY Invariance, PTL DEF IInv

\* Answers cite only what was gathered in their own turn.
THEOREM AnswersGrounded == Spec => []CitationsGrounded
BY Invariance, PTL DEF IInv

\* All queued tool calls have run, once, when a turn answers.
THEOREM ToolsFirst == Spec => []ToolsRunBeforeAnswer
<1>1. IInv => ToolsRunBeforeAnswer
  <2> SUFFICES ASSUME IInv, "tools" \in deps, pc \in {"answer", "finalize", "END"}
               PROVE  calls = 0 /\ toolResults = request.calls
    BY DEF ToolsRunBeforeAnswer
  <2>1. calls = 0 /\ calls + toolResults = request.calls
    BY DEF IInv, CallsConserved
  <2>2. toolResults \in Nat
    BY DEF IInv, TypeOK
  <2> QED BY <2>1, <2>2
<1> QED BY <1>1, Invariance, PTL

\* Over all turns spawns keep to their turn and their depth, and run against no
\* refusal the gate node can read.
THEOREM SpawnsStayInAuthority == Spec => []SpawnsWithinAuthority
<1>1. IInv => SpawnsWithinAuthority
  BY DEF IInv, SpawnsWithinAuthority
<1> QED BY <1>1, Invariance, PTL

\* What a turn answers rests on its own evidence and on all its tool calls.
THEOREM AnswersRestOnEvidence == Spec => []AnswersOnEvidence
<1>1. CitationsGrounded /\ ToolsRunBeforeAnswer => AnswersOnEvidence
  BY DEF AnswersOnEvidence
<1> QED BY <1>1, AnswersGrounded, ToolsFirst, PTL

-----------------------------------------------------------------------------
(***************************************************************************)
(* Gathering: which executor a hop runs on is decided at the route node    *)
(* and carried out a node later, and the evidence of the delegates has to  *)
(* survive every node up to the answer.                                    *)
(***************************************************************************)

\* A router decides before the first hop.
HopsFollowContext == pc \in {"plan", "context"} => hops = 0

\* A hop under way is the one the strategy wants at this count of hops.
HopAimed == pc \in {"retrieve", "dci_tool"} => pc = HopTarget

\* Only a wired compactor runs.
CompactorWired == pc = "compact" => "compactor" \in deps

\* DelegatedEvidenceKept at every node before the packer trims.
DelegatedKept ==
  pc \notin {"finalize", "END"} /\ "compactor" \notin deps =>
    results.cited \subseteq candidates

GInv == /\ HopsFollowContext /\ HopAimed /\ StrategyDecidesHops
        /\ CompactorWired /\ DelegatedKept

\* A turn starts with no hop made and nobody heard.
LEMMA GatheringInit == Init => GInv
<1> SUFFICES ASSUME Init PROVE GInv
  OBVIOUS
<1>1. HopsFollowContext /\ HopAimed /\ CompactorWired
  BY DEF Init, HopsFollowContext, HopAimed, CompactorWired
<1>2. StrategyDecidesHops
  BY DEF Init, StrategyDecidesHops, NoDecision
<1>3. DelegatedKept
  BY DEF Init, DelegatedKept, NoResults
<1> QED BY <1>1, <1>2, <1>3 DEF GInv

\* Nodes that neither hop, decide, delegate nor trim keep the gathering sound as
\* long as they lead on to no hop and to no compactor.
LEMMA GatheringIdle ==
  ASSUME GInv, pc' \notin {"plan", "context", "retrieve", "dci_tool", "compact"},
         pc \notin {"finalize", "END"} \/ pc' \in {"finalize", "END"},
         UNCHANGED <<deps, decision, hops, dciHops, results, candidates>>
  PROVE  GInv'
<1>1. (HopsFollowContext /\ HopAimed /\ CompactorWired)'
  BY DEF HopsFollowContext, HopAimed, CompactorWired
<1>2. StrategyDecidesHops'
  BY DEF GInv, StrategyDecidesHops
<1>3. DelegatedKept'
  BY DEF GInv, DelegatedKept
<1> QED BY <1>1, <1>2, <1>3 DEF GInv

\* A hop counts as the strategy says of the count before it.
LEMMA HopCounts ==
  ASSUME TypeOK, GInv, pc \in {"retrieve", "dci_tool"}, hops' = hops + 1,
         dciHops' = IF pc = "dci_tool" THEN dciHops + 1 ELSE dciHops,
         UNCHANGED <<deps, decision>>
  PROVE  StrategyDecidesHops'
<1>1. hops \in Nat /\ dciHops \in Nat /\ decision.strategy \in Strategies
  BY DEF TypeOK, Requests
<1>2. pc = HopTarget /\ StrategyDecidesHops
  BY DEF GInv, HopAimed
<1>3. CASE "dci" \notin deps
  BY <1>1, <1>2, <1>3 DEF HopTarget, StrategyDecidesHops
<1>4. CASE "dci" \in deps /\ decision.strategy = "hybrid"
  BY <1>1, <1>2, <1>4 DEF HopTarget, StrategyDecidesHops, DCI_STRATEGIES, Strategies
<1>5. CASE "dci" \in deps /\ decision.strategy = "dci"
  BY <1>1, <1>2, <1>5
  DEF HopTarget, DciHopTarget, StrategyDecidesHops, DCI_STRATEGIES, Strategies
<1>6. CASE "dci" \in deps /\ decision.strategy = "dci_then_vector"
  BY <1>1, <1>2, <1>6
  DEF HopTarget, DciHopTarget, StrategyDecidesHops, DCI_STRATEGIES, Strategies
<1>7. CASE "dci" \in deps /\ decision.strategy = "vector_then_dci"
  BY <1>1, <1>2, <1>7
  DEF HopTarget, DciHopTarget, StrategyDecidesHops, DCI_STRATEGIES, Strategies
<1> QED BY <1>1, <1>3, <1>4, <1>5, <1>6, <1>7 DEF Strategies

\* The evidence a turn has gathered is not lost on its way to the answer, and
\* every hop goes where the strategy sends it.
LEMMA GatheringStep == IInv /\ GInv /\ [Next]_vars => GInv'
<1> SUFFICES ASSUME IInv, GInv, [Next]_vars PROVE GInv'
  OBVIOUS
<1>t. TypeOK
  BY DEF IInv
<1>1. CASE Plan
  <2>1. StrategyDecidesHops' /\ DelegatedKept' /\ CompactorWired'
    BY <1>1
    DEF Plan, GInv, StrategyDecidesHops, DelegatedKept, CompactorWired, control,
        evidence, delegation
  <2>2. HopsFollowContext' /\ HopAimed'
    BY <1>1 DEF Plan, GInv, HopsFollowContext, HopAimed
  <2> QED BY <2>1, <2>2 DEF GInv
<1>2. CASE Context
  <2>1. hops' = 0 /\ dciHops' = 0
    BY <1>t, <1>2 DEF Context, GInv, HopsFollowContext, TypeOK, Requests
  <2>2. decision'.strategy \in Strategies
    BY <1>t, <1>2 DEF Context, TypeOK
  <2>3. StrategyDecidesHops'
    BY <2>1, <2>2 DEF StrategyDecidesHops, Strategies
  <2>4. DelegatedKept' /\ CompactorWired' /\ HopsFollowContext' /\ HopAimed'
    BY <1>2
    DEF Context, GInv, DelegatedKept, CompactorWired, HopsFollowContext, HopAimed,
        control, evidence, delegation
  <2> QED BY <2>3, <2>4 DEF GInv
<1>3. CASE Route
  <2>1. StrategyDecidesHops'
    BY <1>3 DEF Route, GInv, StrategyDecidesHops, control
  <2>2. HopTarget' = HopTarget
    BY <1>3 DEF Route, HopTarget, DciHopTarget, control
  <2>3. pc' = RouteDecision
    BY <1>3 DEF Route
  <2>4. HopTarget \in {"retrieve", "dci_tool"} /\ SpawnTarget \in {"gate", "sub_agent"}
    BY DEF HopTarget, DciHopTarget, SpawnTarget
  <2>5. pc' \in {"tool", "answer", SpawnTarget, HopTarget}
    BY <2>3 DEF RouteDecision
  <2>6. HopAimed' /\ CompactorWired' /\ HopsFollowContext'
    BY <2>2, <2>4, <2>5 DEF HopAimed, CompactorWired, HopsFollowContext
  <2>7. DelegatedKept'
    BY <1>3 DEF Route, GInv, DelegatedKept, control, evidence, delegation
  <2> QED BY <2>1, <2>6, <2>7 DEF GInv
<1>4. CASE Tool
  BY <1>4, GatheringIdle DEF Tool, control, evidence, delegation
<1>5. CASE Observe
  <2>1. StrategyDecidesHops'
    BY <1>5 DEF Observe, GInv, StrategyDecidesHops, control
  <2>2. DelegatedKept'
    BY <1>5 DEF Observe, GInv, DelegatedKept, control, evidence, delegation
  <2>3. CompactorWired' /\ HopsFollowContext' /\ HopAimed'
    BY <1>5
    DEF Observe, CompactDecision, ShouldCompact, CompactorWired, HopsFollowContext,
        HopAimed, control
  <2> QED BY <2>1, <2>2, <2>3 DEF GInv
<1>6. CASE Compact
  <2>1. "compactor" \in deps
    BY <1>6 DEF Compact, GInv, CompactorWired
  <2>2. StrategyDecidesHops' /\ HopsFollowContext' /\ HopAimed'
    BY <1>6
    DEF Compact, GInv, StrategyDecidesHops, HopsFollowContext, HopAimed, control
  <2>3. DelegatedKept' /\ CompactorWired'
    BY <1>6, <2>1 DEF Compact, DelegatedKept, CompactorWired, control
  <2> QED BY <2>2, <2>3 DEF GInv
<1>7. CASE Gate
  BY <1>7, GatheringIdle
  DEF Gate, GateToSpawn, IInv, SpawnPending, control, evidence, delegation
<1>8. CASE Finalize
  BY <1>8, GatheringIdle DEF Finalize, control, evidence, delegation
<1>9. ASSUME NEW found \in SUBSET Chunks, NEW cost \in 0 .. MaxCost,
             Retrieve(found, cost)
      PROVE  GInv'
  <2>1. StrategyDecidesHops'
    BY <1>t, <1>9, HopCounts DEF Retrieve, Gather, control
  <2>2. DelegatedKept'
    BY <1>9
    DEF Retrieve, Gather, Accumulate, GInv, DelegatedKept, control, delegation
  <2>3. HopsFollowContext' /\ HopAimed' /\ CompactorWired'
    BY <1>9 DEF Retrieve, Gather, HopsFollowContext, HopAimed, CompactorWired
  <2> QED BY <2>1, <2>2, <2>3 DEF GInv
<1>10. ASSUME NEW found \in SUBSET Chunks, NEW cost \in 0 .. MaxCost,
              DciTool(found, cost)
       PROVE  GInv'
  <2>1. StrategyDecidesHops'
    BY <1>t, <1>10, HopCounts DEF DciTool, Gather, control
  <2>2. DelegatedKept'
    BY <1>10
    DEF DciTool, Gather, Accumulate, GInv, DelegatedKept, control, delegation
  <2>3. HopsFollowContext' /\ HopAimed' /\ CompactorWired'
    BY <1>10 DEF DciTool, Gather, HopsFollowContext, HopAimed, CompactorWired
  <2> QED BY <2>1, <2>2, <2>3 DEF GInv
<1>11. ASSUME NEW cited \in SUBSET Chunks, NEW spent \in 0 .. MaxBudget,
              SubAgent(cited, spent)
       PROVE  GInv'
  <2>1. StrategyDecidesHops'
    BY <1>11 DEF SubAgent, GInv, StrategyDecidesHops, control
  <2>2. DelegatedKept'
    BY <1>11 DEF SubAgent, Accumulate, DelegatedKept
  <2>3. HopsFollowContext' /\ HopAimed' /\ CompactorWired'
    BY <1>11 DEF SubAgent, HopsFollowContext, HopAimed, CompactorWired
  <2> QED BY <2>1, <2>2, <2>3 DEF GInv
<1>12. ASSUME NEW kept \in SUBSET Chunks, NEW cites \in SUBSET Chunks,
              NEW refused \in BOOLEAN, NEW cost \in 0 .. MaxCost,
              Answer(kept, cites, refused, cost)
       PROVE  GInv'
  <2>1. StrategyDecidesHops'
    BY <1>12 DEF Answer, GInv, StrategyDecidesHops, control
  <2>2. DelegatedKept' /\ HopsFollowContext' /\ HopAimed' /\ CompactorWired'
    BY <1>12 DEF Answer, DelegatedKept, HopsFollowContext, HopAimed, CompactorWired
  <2> QED BY <2>1, <2>2 DEF GInv
<1>13. CASE Raise
  BY <1>13, GatheringIdle DEF Raise, Fallible, control, evidence, delegation
<1>14. ASSUME NEW reply \in Replies, Resume(reply) PROVE GInv'
  BY <1>14, GatheringIdle DEF Resume, GateToSpawn, control, evidence
<1>15. CASE Ask
  <2>1. StrategyDecidesHops' /\ DelegatedKept'
    BY <1>15 DEF Ask, StrategyDecidesHops, NoDecision, DelegatedKept, NoResults
  <2>2. HopsFollowContext' /\ HopAimed' /\ CompactorWired'
    BY <1>15 DEF Ask, HopsFollowContext, HopAimed, CompactorWired
  <2> QED BY <2>1, <2>2 DEF GInv
<1>16. CASE UNCHANGED vars
  <2>1. UNCHANGED <<pc, deps, decision, hops, dciHops, results, candidates>>
    BY <1>16 DEF vars, control, evidence, delegation
  <2>2. StrategyDecidesHops' /\ DelegatedKept'
    BY <2>1 DEF GInv, StrategyDecidesHops, DelegatedKept
  <2>3. HopsFollowContext' /\ HopAimed' /\ CompactorWired'
    BY <2>1
    DEF GInv, HopsFollowContext, HopAimed, HopTarget, DciHopTarget, CompactorWired
  <2> QED BY <2>2, <2>3 DEF GInv
<1> QED
  BY <1>1, <1>2, <1>3, <1>4, <1>5, <1>6, <1>7, <1>8, <1>9, <1>10, <1>11, <1>12,
     <1>13, <1>14, <1>15, <1>16
  DEF Next, Step

\* Hop by hop the router's strategy is carried out, whatever tools, delegation
\* and compaction come in between, and short of a compactor the evidence of the
\* delegates is at hand when their parent answers.
THEOREM GatheringHolds == Spec => []GatheringSound
<1>1. GInv => GatheringSound
  BY DEF GInv, GatheringSound, DelegatedKept, DelegatedEvidenceKept
<1>2. Spec => []GInv
  BY GatheringInit, GatheringStep, Invariance, PTL DEF Spec
<1> QED BY <1>1, <1>2, PTL

=============================================================================
