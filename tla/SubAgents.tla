----------------------------- MODULE SubAgents -----------------------------
(***************************************************************************)
(* One fan-out to parallel sub-agents: spawn_all (subagents/runner.py)     *)
(* carves a budget per task and runs the default handler                   *)
(* (subagents/orchestrator_agent.py) for each, a child orchestrator whose  *)
(* deps, and with them the CitationEnforcer, are shared with its siblings. *)
(*                                                                         *)
(* The agents are coroutines of one event loop: a step here runs from one  *)
(* await to the next.  What matters of a child's graph is what it costs    *)
(* and when it goes through the enforcer: draft() leaves the price of the  *)
(* call in the shared _last_cost, enforce() reads it in a later superstep. *)
(***************************************************************************)
EXTENDS Integers, Totals

CONSTANTS
  NumAgents,      \* tasks handed to spawn_all
  ParentLimit,    \* budget_remaining of the parent, in units
  MaxUsd,         \* subagent_budget_usd, in units
  MaxRetrieval,   \* bound: what retrieval costs a child
  MaxCost         \* bound: what a draft costs

ASSUME SubAgentsAssumption ==
  {NumAgents, ParentLimit, MaxUsd, MaxRetrieval, MaxCost} \subseteq Nat

Agents == 1 .. NumAgents

VARIABLES
  pc,             \* per agent: the point its coroutine has reached
  ceiling,        \* limit of the child tracker
  consumed,       \* spend booked on the child tracker
  parentConsumed, \* spend booked on the parent tracker
  funds,          \* budget_remaining of the child's graph
  drafted,        \* the price of the child's own draft call
  lastCost,       \* CitationEnforcer._last_cost
  cost            \* GenerationResult.cost of the child's result

vars == <<pc, ceiling, consumed, parentConsumed, funds, drafted, lastCost, cost>>

Lower(m, n) == IF m < n THEN m ELSE n
NonNegative(n) == IF n > 0 THEN n ELSE 0

Requested == Lower(MaxUsd, ParentLimit)

\* A child's ceiling is what is asked for it or, where the children carved before
\* it have left less, the rest.
CarveChild(ceilings, a) ==
  Lower(Requested, ParentLimit - Total(ceilings, 1 .. a - 1))

\* spawn_all carves one child after the other: of all ceilings, the only ones
\* that are each carved from what is then free.
Carvings ==
  {ceilings \in [Agents -> 0 .. ParentLimit] :
     \A a \in Agents : ceilings[a] = CarveChild(ceilings, a)}

-----------------------------------------------------------------------------

\* The moment spawn_all has carved and creates the tasks; the enforcer may
\* have served earlier calls.
Init ==
  /\ pc = [a \in Agents |-> "start"]
  /\ ceiling \in Carvings
  /\ consumed = [a \in Agents |-> 0]
  /\ parentConsumed = 0
  /\ funds = [a \in Agents |-> 0]
  /\ drafted = [a \in Agents |-> 0]
  /\ lastCost \in 0 .. MaxCost
  /\ cost = [a \in Agents |-> 0]

Goes(a, from, to) == pc[a] = from /\ pc' = [pc EXCEPT ![a] = to]

\* The child's graph starts on what its tracker has free and retrieves.
Retrieve(a, price) ==
  /\ Goes(a, "start", "retrieved")
  /\ funds' = [funds EXCEPT ![a] = NonNegative(ceiling[a] - consumed[a] - price)]
  /\ UNCHANGED <<ceiling, consumed, parentConsumed, drafted, lastCost, cost>>

\* Mutant: the price of the call is not kept.
DraftPriceless(a, price) ==
  /\ Goes(a, "retrieved", "drafted")
  /\ funds[a] > 0
  /\ drafted' = [drafted EXCEPT ![a] = price]
  /\ UNCHANGED <<ceiling, consumed, parentConsumed, funds, lastCost, cost>>

\* answer_node pays for a draft
Draft(a, price) ==
  /\ Goes(a, "retrieved", "drafted")
  /\ funds[a] > 0
  /\ drafted' = [drafted EXCEPT ![a] = price]
  /\ lastCost' = price
  /\ UNCHANGED <<ceiling, consumed, parentConsumed, funds, cost>>

\* The call is paid for, but what the model emitted does not validate.
DraftInvalid(a, price) ==
  /\ Goes(a, "retrieved", "failed")
  /\ funds[a] > 0
  /\ drafted' = [drafted EXCEPT ![a] = price]
  /\ lastCost' = price
  /\ UNCHANGED <<ceiling, consumed, parentConsumed, funds, cost>>

\* answer_node refuses, out of budget, without a call
Refuse(a) ==
  /\ Goes(a, "retrieved", "drafted")
  /\ funds[a] = 0
  /\ UNCHANGED <<ceiling, consumed, parentConsumed, funds, drafted, lastCost, cost>>

\* finalize_node: enforce() puts the enforcer's _last_cost on the result.
Finalize(a) ==
  /\ Goes(a, "drafted", "finalized")
  /\ cost' = [cost EXCEPT ![a] = lastCost]
  /\ UNCHANGED <<ceiling, consumed, parentConsumed, funds, drafted, lastCost>>

\* Mutant: the cost is settled whole.
SettlementUncapped(a) == cost[a]

\* The handler reserves and consumes what the result cost, as far as the child
\* has it, and the child's tracker tells the parent's.
Settlement(a) == Lower(cost[a], ceiling[a] - consumed[a])

Settle(a) ==
  /\ Goes(a, "finalized", "ok")
  /\ consumed' = [consumed EXCEPT ![a] = @ + Settlement(a)]
  /\ parentConsumed' = parentConsumed + Settlement(a)
  /\ UNCHANGED <<ceiling, funds, drafted, lastCost, cost>>

\* An exception anywhere in the child becomes a failed result.
Fail(a) ==
  /\ pc[a] \in {"start", "retrieved"}
  /\ pc' = [pc EXCEPT ![a] = "failed"]
  /\ UNCHANGED <<ceiling, consumed, parentConsumed, funds, drafted, lastCost, cost>>

Work(a) ==
  \/ \E price \in 0 .. MaxRetrieval : Retrieve(a, price)
  \/ \E price \in 0 .. MaxCost : Draft(a, price) \/ DraftInvalid(a, price)
  \/ Refuse(a) \/ Finalize(a) \/ Settle(a)

Next == \E a \in Agents : Work(a) \/ Fail(a)

Spec == Init /\ [][Next]_vars

\* The event loop runs every task; an awaited call returns, or raises but need
\* not.
FairSpec == Spec /\ \A a \in Agents : WF_vars(Work(a))

-----------------------------------------------------------------------------
\* Properties

Points == {"start", "retrieved", "drafted", "finalized", "ok", "failed"}

\* Floors hold: no ceiling, spend or price is ever negative, though prices are
\* subtracted from what is left.
TypeOK ==
  /\ pc \in [Agents -> Points]
  /\ {ceiling, consumed, funds} \subseteq [Agents -> 0 .. ParentLimit]
  /\ parentConsumed \in Nat
  /\ {drafted, cost} \subseteq [Agents -> 0 .. MaxCost]
  /\ lastCost \in 0 .. MaxCost

\* However many agents run at once and whatever prices they read off the
\* shared enforcer, all of them together stay within the parent's budget.
ParentWithinLimit == parentConsumed <= ParentLimit

\* The cost spawn_all reports per agent (child.consumed) adds up to what the
\* parent has booked, failed agents included.
CostsAddUp == Total(consumed, Agents) = parentConsumed

\* Every task comes back with a result, whatever becomes of its siblings.
AllReturn == \A a \in Agents : pc[a] = "start" ~> pc[a] \in {"ok", "failed"}

\* orchestrator_agent.py:5, "The child budget is settled with the run's real
\* cost": with its own draft as far as its budget goes, as long as none of its
\* siblings has come to draft.  One that has may have left its price instead.
SettledWithRealCost ==
  \A a \in Agents :
    /\ pc[a] = "ok" /\ drafted[a] > 0
    /\ \A b \in Agents \ {a} : pc[b] \in {"start", "retrieved"}
    => consumed[a] = Lower(drafted[a], ceiling[a])

Account == INSTANCE HardCeiling WITH Limit <- ParentLimit, spent <- parentConsumed

\* The parent's budget is one account under one hard ceiling.
HardCeilingSpec == Account!Spec

\* Sub-agents that settle in any order, each with a cost read from a field all share:
\* every real cost reaches the parent once, within its ceiling.
FanOutSound == TypeOK /\ ParentWithinLimit /\ CostsAddUp /\ SettledWithRealCost

=============================================================================
