----------------------------- MODULE Permissions -----------------------------
(***************************************************************************)
(* Permission gates (src/harness/permissions) on a checkpointed thread: a  *)
(* node that evaluates the gates, asks a person through the runtime's      *)
(* interrupt and is run from its beginning again with the answer.  Of the  *)
(* two nodes there are, make_gate_node takes the action it finds in the    *)
(* state; the orchestrator's own gate_node                                 *)
(* (src/harness/orchestrator/graph.py) writes the spawn it is about to do. *)
(***************************************************************************)
EXTENDS Naturals, SequencesExt, FiniteSets

CONSTANTS
  Threshold,      \* BudgetGate.threshold, in units
  MaxSpawned,     \* ConcurrencyGate.max_concurrent
  MaxActive,      \* bound: active_subagents in a state, and agents asked for
  MaxActions      \* bound: actions put to the gates of one thread

ASSUME PermissionsAssumption == {Threshold, MaxSpawned, MaxActive, MaxActions} \subseteq Nat

VARIABLE thread

NoAction == [type |-> "none", cost |-> 0, spawn |-> 0]
Action(type, cost, spawn) == [type |-> type, cost |-> cost, spawn |-> spawn]
Actions ==
  {Action(type, cost, 0) : type \in {"external_write", "tool"}, cost \in 0 .. Threshold + 1}
    \cup {Action("spawn", cost, n) : cost \in 0 .. Threshold + 1, n \in 1 .. MaxActive}

\* The answers a chat layer can resume with: a mapping, an ApprovalResponse, a bare
\* value; the first two name the request they answer.
Replies == [form : {"mapping", "object", "bare"}, approved : BOOLEAN]
NoReply == [form |-> "none", approved |-> FALSE]

-----------------------------------------------------------------------------
\* default_gates, in their order
Gates == <<"write", "budget", "concurrency">>
Risk(gate) == IF gate = "write" THEN "high" ELSE "medium"

ShouldPause(gate, action, active) ==
  \/ gate = "write" /\ action.type = "external_write"
  \/ gate = "budget" /\ action.cost > Threshold
  \/ gate = "concurrency" /\ action.type = "spawn" /\ active + action.spawn > MaxSpawned

\* Mutant: a gate that lets pass decides for those after it.
EvaluateGatesFirst(action, active) ==
  IF ShouldPause(Gates[1], action, active) THEN Gates[1] ELSE "none"

\* evaluate_gates: the first gate that wants to pause.
EvaluateGates(action, active) ==
  LET tripped == {i \in DOMAIN Gates : ShouldPause(Gates[i], action, active)}
  IN IF tripped = {} THEN "none" ELSE Gates[Min(tripped)]

\* _coerce_response for the one node; the other reads a mapping, and the truth of
\* anything else, which an object is whatever it says.
Approves(node, reply) == reply.approved \/ (node = "spawn" /\ reply.form = "object")

-----------------------------------------------------------------------------
NoApproval == [gate |-> "none", approved |-> FALSE]

\* The orchestrator's state never counts its active sub-agents.
PermissionsInit ==
  \E node \in {"gate", "spawn"}, active \in 0 .. MaxActive :
    /\ node = "spawn" => active = 0
    /\ thread = [node |-> node, at |-> "ready", action |-> NoAction, proposed |-> NoAction, active |-> active, shown |-> "none",
                 denied |-> FALSE, approval |-> NoApproval, answer |-> NoReply, taken |-> 0]

\* A node before the gate sets pending_action; the gate of a spawn makes its own.
Propose(action) ==
  /\ thread.at = "ready" /\ thread.taken < MaxActions
  /\ thread.node = "spawn" => action.type = "spawn" /\ action.cost = 0
  /\ thread' = [thread EXCEPT !.at = "gate", !.proposed = action, !.taken = @ + 1,
                              !.action = IF thread.node = "gate" THEN action ELSE @]

\* The node runs: nothing trips and the action stays, or the graph stops at the
\* interrupt with the state as it was.
RunGate ==
  /\ thread.at = "gate"
  /\ LET gate == EvaluateGates(thread.proposed, thread.active)
     IN thread' = IF gate = "none" THEN [thread EXCEPT !.at = "past", !.action = thread.proposed]
                  ELSE [thread EXCEPT !.at = "paused", !.shown = gate]

\* The answer comes in and the node runs again from its beginning.  One node clears
\* the action either way and records the decision; the other keeps it when it is
\* approved, and records nothing when it is not.
ResumeGate(reply) ==
  /\ thread.at = "paused"
  /\ LET gate == EvaluateGates(thread.proposed, thread.active) yes == Approves(thread.node, reply)
     IN thread' = [thread EXCEPT !.at = "past", !.answer = reply, !.shown = "none", !.denied = @ \/ ~yes,
                    !.action = IF yes /\ thread.node = "spawn" THEN thread.proposed ELSE NoAction,
                    !.approval = IF yes \/ thread.node = "gate" THEN [gate |-> gate, approved |-> yes] ELSE @]

\* The graph goes on past the gate and nothing there takes the approval, the denial
\* or an action that was let pass out of the state again, until in the orchestrator
\* the next question comes with its initial_state.
GoOn ==
  /\ thread.at = "past"
  /\ thread' = [thread EXCEPT !.at = "ready", !.answer = NoReply,
                              !.action = IF thread.node = "gate" THEN @ ELSE NoAction,
                              !.denied = @ /\ thread.node = "gate",
                              !.approval = IF thread.node = "gate" THEN @ ELSE NoApproval]

PermissionsNext ==
  \/ \E action \in Actions : Propose(action)
  \/ RunGate
  \/ \E reply \in Replies : ResumeGate(reply)
  \/ GoOn

PermissionsSpec == PermissionsInit /\ [][PermissionsNext]_thread

-----------------------------------------------------------------------------
\* Properties

Trips(gate) == ShouldPause(gate, thread.proposed, thread.active)

\* An action any gate objects to, the first or a later one, is behind the gates
\* only with a person's yes to it, and a no flags the thread.  (A refusal that is
\* neither a mapping nor a bare value: DenialsHeld.)
NothingRiskyPasses ==
  thread.at = "past" =>
    /\ thread.action # NoAction /\ (\E i \in DOMAIN Gates : Trips(Gates[i]))
         => thread.answer.approved \/ thread.answer.form = "object"
    /\ thread.answer \notin {NoReply} \cup {r \in Replies : r.approved \/ r.form = "object"} => thread.denied

\* gates.py:86, "ordered most-sensitive first": an action that trips several gates
\* is put to the person as the gravest of them, a write never as mere expense.
GravestAsked ==
  thread.at = "paused" =>
    \A i \in DOMAIN Gates : Trips(Gates[i]) /\ Risk(Gates[i]) = "high" => Risk(thread.shown) = "high"

\* graph.py:373, "until a human resumes with an ApprovalResponse ... On denial the
\* spawn is skipped": no action goes on that a person has refused.
DenialsHeld ==
  thread.at = "past" /\ thread.answer # NoReply /\ ~thread.answer.approved => thread.action = NoAction

\* No action runs that a gate holds back and a person has not approved, and what the
\* person is asked is the gravest of its reasons.
PermissionsSound == NothingRiskyPasses /\ GravestAsked

=============================================================================
