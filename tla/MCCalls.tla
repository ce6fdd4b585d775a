-------------------------------- MODULE MCCalls -------------------------------
(***************************************************************************)
(* Calls that must come back, of three components that share no state: the *)
(* tool calls of two threads, three between them, the model calls of an  *)
(* ingestion, and the sub-agents of one fan-out.  One run checks each      *)
(* while the others rest.                                                  *)
(***************************************************************************)
EXTENDS Sandbox, Enrichment, SubAgents, Functions

VARIABLE subject

MCTools ==
  {[name |-> "grep", network |-> FALSE, container |-> FALSE],
   [name |-> "fetch", network |-> TRUE, container |-> TRUE],
   [name |-> "code", network |-> FALSE, container |-> TRUE]}
MCPolicies == "code" :> "allowlist"
MCOverrides == "grep" :> "none"
MCQueues == {<< >>, <<"fetch">>, <<"code", "grep", "fetch">>, <<"nosuch", "code">>}
MCBatch == <<3, 1>>

\* The threads have three calls between them: one has up to three, or one two
\* while the other has one.
FewCalls == SumFunction([l \in Lanes |-> Len(queue[l])]) <= 3

\* Whichever rests has nothing to do, so that no fairness is asked of it.
NoTools == SandboxInit /\ ~docker /\ floor = "unset" /\ \A l \in Lanes : queue[l] = << >>
NoIngestion ==
  /\ ingestion = [try |-> 1, doc |-> Len(Batch) + 1, at |-> "done"]
  /\ tasks = << >> /\ permits = << >> /\ contexts = << >> /\ pointsOf = << >>
NoAgents ==
  /\ pc = [a \in Agents |-> "failed"] /\ ceiling \in Carvings
  /\ consumed = [a \in Agents |-> 0] /\ funds = consumed /\ drafted = consumed /\ cost = consumed /\ parentConsumed = 0 /\ lastCost = 0

MCInit ==
  \/ subject = "sandbox" /\ SandboxInit /\ FewCalls /\ NoIngestion /\ NoAgents
  \/ subject = "enrichment" /\ EnrichmentInit /\ NoTools /\ NoAgents
  \/ subject = "subagents" /\ Init /\ NoTools /\ NoIngestion

MCNext ==
  /\ UNCHANGED subject
  /\ \/ subject = "sandbox" /\ SandboxNext /\ UNCHANGED <<enrichVars, vars>>
     \/ subject = "enrichment" /\ EnrichmentNext /\ UNCHANGED <<sandboxVars, vars>>
     \/ subject = "subagents" /\ Next /\ UNCHANGED <<sandboxVars, enrichVars>>

MCSpec ==
  /\ MCInit /\ [][MCNext]_<<subject, sandboxVars, enrichVars, vars>>
  /\ SandboxFairness /\ EnrichmentFairness /\ \A a \in Agents : WF_vars(Work(a))

\* Nobody waits for ever: every tool call is answered, every piece of an ingestion
\* comes back from its model call, every sub-agent ends.
CallsComeBack == EveryCallAnswered /\ EveryPieceComesBack /\ AllReturn

=============================================================================
