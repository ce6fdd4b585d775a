---------------------------- MODULE Orchestrator ----------------------------
(***************************************************************************)
(* The LangGraph orchestrator (src/harness/orchestrator/graph.py) run on   *)
(* one checkpointed thread.  pc is the node that runs next; one action is  *)
(* one node together with the edge it leaves by, which is the unit the     *)
(* checkpointer makes atomic.  A question is a turn: answer() starts one   *)
(* by writing initial_state over the thread's state, which keeps only the  *)
(* conversation of the turns before.                                       *)
(*                                                                         *)
(* What language models, retrievers and people decide is chosen freely: a  *)
(* plan is the number of legs it offers for delegation, evidence is a set  *)
(* of chunk ids, budget a number of units where 0 stands for everything up *)
(* to MIN_ANSWER_BUDGET.  Components are wired or not (deps), once and for *)
(* all turns.                                                              *)
(***************************************************************************)
EXTENDS Integers, FiniteSets

CONSTANTS
  Chunks,         \* chunk ids of the corpus
  Wirings,        \* the sets of optional components deployments wire
  MaxLegs,        \* bound: independent steps of a plan
  MaxConcurrent,  \* ConcurrencyGate.max_concurrent
  MaxHops,        \* bound: max_hops of a request
  MaxBudget,      \* bound: budget_usd of a request, in units
  MaxCost,        \* bound: what one node costs, in units
  MaxCalls,       \* bound: tool calls a caller queues
  MaxTurns        \* bound: questions asked on the thread

Components ==
  {"todo_planner", "router", "agent_fn", "gates", "compactor", "tools", "dci"}

ASSUME OrchestratorAssumption ==
  /\ Wirings \subseteq SUBSET Components
  /\ {MaxLegs, MaxConcurrent, MaxHops, MaxBudget, MaxCost, MaxCalls} \subseteq Nat
  /\ MaxTurns \in Nat \ {0}

VARIABLES
  deps,         \* OrchestratorDeps: the components wired, the same all along
  pc,           \* the next node, or how the turn ended
  turn,         \* questions asked so far on this thread
  request,      \* max_hops and delegation_depth of this turn, calls queued
  long,         \* messages are beyond the compaction threshold
  plan,         \* delegatable_steps(plan): how many there are
  decision,     \* route_decision
  candidates,   \* chunk ids of the accumulated evidence
  budget,       \* budget_remaining
  hops,
  delegated,
  approval,     \* the gate node took this turn's spawn for approved
  denied,       \* approval_denied
  answered,     \* history: what the person said to this turn's interrupt
  results,      \* subagent_results: how many, and the chunks they cite
  calls,        \* pending_tool_calls, counted
  toolResults,  \* tool_results, counted
  draft,
  result,
  gathered,     \* history: all evidence brought in during this turn
  spawns,       \* history: how often this turn delegated
  dciHops       \* history: how many hops of this turn ran on DCI

control == <<deps, turn, request>>
evidence == <<candidates, gathered>>
delegation == <<delegated, approval, denied, answered, results, spawns>>
tooling == <<calls, toolResults>>
outcome == <<draft, result>>
vars == <<control, pc, long, plan, decision, evidence, budget, hops,
          delegation, tooling, outcome, dciHops>>

Strategies == {"hybrid", "dci", "dci_then_vector", "vector_then_dci"}
DCI_STRATEGIES == Strategies \ {"hybrid"}
Intents == {"comparison", "other"}
MaxDepth == 1   \* max_delegation_depth

NoDecision == [intent |-> "other", strategy |-> "hybrid"]
NoResults == [count |-> 0, cited |-> {}]
Nothing == [made |-> FALSE, refused |-> FALSE, cites |-> {}]

\* The answers a chat layer can resume with: a mapping, an ApprovalResponse, a bare
\* value.
Replies == [form : {"mapping", "object", "bare"}, approved : BOOLEAN]
NoReply == [form |-> "none", approved |-> FALSE]

\* Plans offer no legs, or two and more with a dependent step to follow.
Legs == {0} \cup 2 .. MaxLegs

Requests == [max_hops : 0 .. MaxHops, depth : 0 .. MaxDepth, calls : 0 .. MaxCalls]

Nodes == {"plan", "context", "route", "retrieve", "dci_tool", "tool", "gate",
          "sub_agent", "observe", "compact", "answer", "finalize"}
Stopped == {"END", "paused", "raised"}

\* Nodes that await a component outside the graph, which may raise.
Fallible == Nodes \ {"route", "gate", "finalize"}

-----------------------------------------------------------------------------
\* Decisions of the edges

\* _accumulate: one candidate per chunk id, scores aside
Accumulate(found) == candidates \cup found

\* order_evidence: the packer trims the evidence to the context budget.
OrderEvidence == SUBSET candidates

Debit(cost) == IF cost > budget THEN 0 ELSE budget - cost

ShouldDelegate ==
  /\ "agent_fn" \in deps
  /\ ~delegated /\ request.depth < MaxDepth
  /\ decision.intent = "comparison"
  /\ plan > 0

\* _dci_hop_target at the present hop
DciHopTarget ==
  IF \/ decision.strategy = "dci"
     \/ decision.strategy = "dci_then_vector" /\ hops = 0
     \/ decision.strategy = "vector_then_dci" /\ hops > 0
  THEN "dci_tool" ELSE "retrieve"

HopTarget == IF decision.strategy \in DCI_STRATEGIES /\ "dci" \in deps
             THEN DciHopTarget ELSE "retrieve"
SpawnTarget == IF "gates" \in deps THEN "gate" ELSE "sub_agent"

\* Mutant: the budget is looked at before the queued tool calls.
RouteBudgetFirst ==
  IF budget = 0 THEN "answer"
  ELSE IF "tools" \in deps /\ calls > 0 THEN "tool"
  ELSE IF ShouldDelegate THEN SpawnTarget
  ELSE IF hops < request.max_hops THEN HopTarget ELSE "answer"

RouteDecision ==
  IF "tools" \in deps /\ calls > 0 THEN "tool"
  ELSE IF budget = 0 THEN "answer"
  ELSE IF ShouldDelegate THEN SpawnTarget
  ELSE IF hops < request.max_hops THEN HopTarget ELSE "answer"

ShouldCompact == "compactor" \in deps /\ long

CompactDecision == IF ShouldCompact THEN "compact" ELSE "route"

\* The gates see only the spawn; among the default ones ConcurrencyGate alone
\* can trip on it (active_subagents stays 0, a spawn declares no cost).
GateTrips == plan > MaxConcurrent

GateToSpawn(wasDenied) == IF wasDenied THEN "route" ELSE "sub_agent"

\* enforce(): citations only of the evidence at hand, none in a refusal
Enforce(d) ==
  [d EXCEPT !.cites = IF d.refused THEN {} ELSE d.cites \cap candidates]

-----------------------------------------------------------------------------
\* Turns

Init ==
  /\ deps \in Wirings
  /\ turn = 1
  /\ request \in Requests
  /\ pc = "plan"
  /\ long \in BOOLEAN
  /\ plan = 0
  /\ decision = NoDecision
  /\ candidates = {} /\ gathered = {}
  /\ budget \in 0 .. MaxBudget
  /\ hops = 0 /\ dciHops = 0
  /\ delegated = FALSE /\ approval = FALSE /\ denied = FALSE /\ answered = NoReply
  /\ results = NoResults /\ spawns = 0
  /\ calls = request.calls /\ toolResults = 0
  /\ draft = Nothing /\ result = Nothing

\* answer() on the same thread: initial_state overwrites every field but the
\* messages, whatever became of the turn before.
Ask ==
  /\ pc \in Stopped /\ turn < MaxTurns
  /\ turn' = turn + 1
  /\ request' \in Requests
  /\ pc' = "plan"
  /\ long' \in BOOLEAN
  /\ plan' = 0
  /\ decision' = NoDecision
  /\ candidates' = {} /\ gathered' = {}
  /\ budget' \in 0 .. MaxBudget
  /\ hops' = 0 /\ dciHops' = 0
  /\ delegated' = FALSE /\ approval' = FALSE /\ denied' = FALSE /\ answered' = NoReply
  /\ results' = NoResults /\ spawns' = 0
  /\ calls' = request'.calls /\ toolResults' = 0
  /\ draft' = Nothing /\ result' = Nothing
  /\ UNCHANGED deps

-----------------------------------------------------------------------------
\* Nodes

Plan ==
  /\ pc = "plan"
  /\ plan' \in IF "todo_planner" \in deps THEN Legs ELSE {0}
  /\ pc' = "context"
  /\ UNCHANGED <<control, long, decision, evidence, budget, hops, delegation,
                 tooling, outcome, dciHops>>

Context ==
  /\ pc = "context"
  /\ decision' \in IF "router" \in deps
                   THEN [intent : Intents, strategy : Strategies]
                   ELSE {decision}
  /\ pc' = "route"
  /\ UNCHANGED <<control, long, plan, evidence, budget, hops, delegation,
                 tooling, outcome, dciHops>>

Route ==
  /\ pc = "route"
  /\ pc' = RouteDecision
  /\ UNCHANGED <<control, long, plan, decision, evidence, budget, hops,
                 delegation, tooling, outcome, dciHops>>

\* One hop, over the pipeline or over the DCI executor
Gather(found, cost) ==
  /\ candidates' = Accumulate(found)
  /\ gathered' = gathered \cup found
  /\ budget' = Debit(cost)
  /\ hops' = hops + 1
  /\ pc' = "observe"
  /\ UNCHANGED <<control, long, plan, decision, delegation, tooling, outcome>>

Retrieve(found, cost) ==
  /\ pc = "retrieve"
  /\ Gather(found, cost)
  /\ UNCHANGED dciHops

DciTool(found, cost) ==
  /\ pc = "dci_tool"
  /\ Gather(found, cost)
  /\ dciHops' = dciHops + 1

\* Every queued call leaves a result, that of an unknown tool too.
Tool ==
  /\ pc = "tool"
  /\ toolResults' = toolResults + calls
  /\ calls' = 0
  /\ pc' = "observe"
  /\ UNCHANGED <<control, long, plan, decision, evidence, budget, hops,
                 delegation, outcome, dciHops>>

\* The ReAct planner's adapt never changes the steps; the todo planner replans
\* when nothing was found, and keeps its steps when the model offers none.
Adapt == IF "todo_planner" \in deps /\ candidates = {} THEN Legs ELSE {plan}

Observe ==
  /\ pc = "observe"
  /\ plan' \in Adapt
  /\ pc' = CompactDecision
  /\ UNCHANGED <<control, long, decision, evidence, budget, hops, delegation,
                 tooling, outcome, dciHops>>

\* Compaction keeps the candidates that back a citation of the state, and
\* citations are only there once finalize has run.
Rebuild == candidates \cap result.cites

\* Mutant: compaction is wired back to observe.
CompactToObserve ==
  /\ pc = "compact"
  /\ candidates' = Rebuild
  /\ long' \in BOOLEAN
  /\ pc' = "observe"
  /\ UNCHANGED <<control, plan, decision, gathered, budget, hops, delegation,
                 tooling, outcome, dciHops>>

Compact ==
  /\ pc = "compact"
  /\ candidates' = Rebuild
  /\ long' \in BOOLEAN
  /\ pc' = "route"
  /\ UNCHANGED <<control, plan, decision, gathered, budget, hops, delegation,
                 tooling, outcome, dciHops>>

Gate ==
  /\ pc = "gate"
  /\ pc' = IF GateTrips THEN "paused" ELSE GateToSpawn(denied)
  /\ UNCHANGED <<control, long, plan, decision, evidence, budget, hops,
                 delegation, tooling, outcome, dciHops>>

\* Mutant: a mapping is taken for approved as soon as it is there.
ApprovesMapping(reply) == reply.approved \/ reply.form \in {"object", "mapping"}

\* gate_node reads `approved` of a mapping and takes the truth of anything else,
\* which an object is whatever it says.
Approves(reply) == reply.approved \/ reply.form = "object"

\* A person answers the interrupt and the gate node runs to its end.
Resume(reply) ==
  /\ pc = "paused"
  /\ answered' = reply
  /\ approval' = Approves(reply)
  /\ denied' = ~Approves(reply)
  /\ delegated' = ~Approves(reply)
  /\ pc' = GateToSpawn(denied')
  /\ UNCHANGED <<control, long, plan, decision, evidence, budget, hops,
                 results, spawns, tooling, outcome, dciHops>>

\* Mutant: the parent keeps the prose of its sub-agents only.
SubAgentProse(cited, spent) ==
  /\ pc = "sub_agent"
  /\ spent <= budget
  /\ results' = [count |-> plan, cited |-> cited]
  /\ delegated' = TRUE
  /\ budget' = budget - spent
  /\ spawns' = spawns + 1
  /\ pc' = "observe"
  /\ UNCHANGED <<control, long, plan, decision, evidence, hops, approval, denied,
                 answered, tooling, outcome, dciHops>>

\* spawn_all on all legs; a leg that fails cites nothing.  The tracker carved
\* from budget_remaining keeps the spend within it (BudgetTracker).
SubAgent(cited, spent) ==
  /\ pc = "sub_agent"
  /\ spent <= budget
  /\ results' = [count |-> plan, cited |-> cited]
  /\ candidates' = Accumulate(cited)
  /\ gathered' = gathered \cup cited
  /\ delegated' = TRUE
  /\ budget' = budget - spent
  /\ spawns' = spawns + 1
  /\ pc' = "observe"
  /\ UNCHANGED <<control, long, plan, decision, hops, approval, denied, answered,
                 tooling, outcome, dciHops>>

\* The model drafts on what the packer keeps and may cite what was never there.
Answer(kept, cites, refused, cost) ==
  /\ pc = "answer"
  /\ kept \in OrderEvidence
  /\ candidates' = kept
  /\ draft' = IF budget = 0
              THEN [made |-> TRUE, refused |-> TRUE, cites |-> {}]
              ELSE [made |-> TRUE, refused |-> refused, cites |-> cites]
  /\ budget' = IF budget = 0 THEN budget ELSE Debit(cost)
  /\ pc' = "finalize"
  /\ UNCHANGED <<control, long, plan, decision, gathered, hops, delegation,
                 tooling, result, dciHops>>

Finalize ==
  /\ pc = "finalize"
  /\ result' = Enforce(draft)
  /\ pc' = "END"
  /\ UNCHANGED <<control, long, plan, decision, evidence, budget, hops,
                 delegation, tooling, draft, dciHops>>

\* A component raises: the node's update is lost and so is the call.
Raise ==
  /\ pc \in Fallible
  /\ pc' = "raised"
  /\ UNCHANGED <<control, long, plan, decision, evidence, budget, hops,
                 delegation, tooling, outcome, dciHops>>

Step ==
  \/ Plan \/ Context \/ Route \/ Tool \/ Observe \/ Compact \/ Gate \/ Finalize
  \/ \E found \in SUBSET Chunks, cost \in 0 .. MaxCost :
       Retrieve(found, cost) \/ DciTool(found, cost)
  \/ \E cited \in SUBSET Chunks, spent \in 0 .. MaxBudget : SubAgent(cited, spent)
  \/ \E kept, cites \in SUBSET Chunks, refused \in BOOLEAN, cost \in 0 .. MaxCost :
       Answer(kept, cites, refused, cost)

Next ==
  \/ Step
  \/ Raise
  \/ \E reply \in Replies : Resume(reply)
  \/ Ask

Spec == Init /\ [][Next]_vars

\* The runtime drives a turn from node to node; a component may raise but need
\* not, and people owe nothing.
FairSpec == Spec /\ WF_vars(Step)

-----------------------------------------------------------------------------
\* Properties

Outcomes == [made : BOOLEAN, refused : BOOLEAN, cites : SUBSET Chunks]

\* The type invariant; hops never passes the max_hops of the request.
TypeOK ==
  /\ deps \in SUBSET Components
  /\ pc \in Nodes \cup Stopped
  /\ turn \in 1 .. MaxTurns
  /\ request \in Requests
  /\ long \in BOOLEAN
  /\ plan \in Legs
  /\ decision \in [intent : Intents, strategy : Strategies]
  /\ candidates \subseteq Chunks /\ gathered \subseteq Chunks
  /\ budget \in Nat
  /\ hops \in 0 .. request.max_hops /\ dciHops \in 0 .. hops
  /\ {delegated, approval, denied} \subseteq BOOLEAN
  /\ answered \in Replies \cup {NoReply}
  /\ results \in [count : Legs, cited : SUBSET Chunks]
  /\ spawns \in Nat
  /\ calls \in Nat /\ toolResults \in Nat
  /\ draft \in Outcomes /\ result \in Outcomes

\* A refusal the gate node can read: not in an object (Permissions!DenialsHeld is
\* what the code promises, and breaks, for every form).
Refused == answered \in {r \in Replies : ~r.approved /\ r.form # "object"}

\* Where gates are wired, more sub-agents than the cap ran only after a person had
\* been asked in the same turn and had not refused in a mapping or a bare value;
\* after such a refusal none ran at all, not even few enough of a later replan.
SpawnAuthorised ==
  /\ "gates" \in deps /\ results.count > MaxConcurrent => answered # NoReply
  /\ Refused => results.count = 0

\* A turn delegates at most once, however often it replans, and never from a
\* run that is itself a delegate.
DelegatesOnce == spawns <= 1 /\ (request.depth = MaxDepth => spawns = 0)

\* What an answer cites was found in this turn and survived packing: not
\* invented by the model, not left over from an earlier turn of the thread.
CitationsGrounded == result.cites \subseteq candidates \cap gathered

\* No turn answers while calls are queued: all of them ran exactly once.
ToolsRunBeforeAnswer ==
  "tools" \in deps /\ pc \in {"answer", "finalize", "END"} =>
    calls = 0 /\ toolResults = request.calls

\* A turn comes to an answer, a pause for approval or an error: no cycle
\* through observe, compact, the gate and route goes on for ever.
TurnEnds == pc = "plan" ~> pc \in Stopped

\* The strategy decides which hops go over the DCI executor, however tools,
\* delegation and compaction come in between them: none, the first at least, the
\* first alone, or all but the first.  (What dci does after the first hop:
\* OnlyFirstHopOnDci.)
StrategyDecidesHops ==
  LET strategy == IF "dci" \in deps THEN decision.strategy ELSE "hybrid"
  IN  /\ strategy = "hybrid" => dciHops = 0
      /\ strategy = "dci" /\ hops > 0 => dciHops > 0
      /\ strategy = "dci_then_vector" => dciHops = IF hops = 0 THEN 0 ELSE 1
      /\ strategy = "vector_then_dci" => dciHops = IF hops = 0 THEN 0 ELSE hops - 1

\* graph.py:185, "dci: only the first hop runs against DCI; subsequent hops fall
\* through to answer", and docs/orchestrator-graph.md:110 with it.
OnlyFirstHopOnDci ==
  "dci" \in deps /\ decision.strategy = "dci" => dciHops <= 1

\* docs/orchestrator-graph.md, "Citation preservation across the boundary":
\* what its sub-agents cited is still there when the parent answers, hops and
\* tools later, unless a compactor ran.
DelegatedEvidenceKept ==
  pc = "answer" /\ "compactor" \notin deps => results.cited \subseteq candidates

\* Over all turns of a thread, paused, raised or resumed: sub-agents run as often
\* as a turn and its depth allow, and against no refusal the gate node can read.
SpawnsWithinAuthority == TypeOK /\ SpawnAuthorised /\ DelegatesOnce

\* An answer rests on its own turn: on the evidence still at hand in it, and on the
\* result of every tool call that was queued for it.
AnswersOnEvidence == CitationsGrounded /\ ToolsRunBeforeAnswer

\* Evidence is gathered as the router decided, hop by hop, and what delegates have
\* found is not lost on the way, short of a compaction.
GatheringSound == StrategyDecidesHops /\ DelegatedEvidenceKept

=============================================================================
