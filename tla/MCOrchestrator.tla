--------------------------- MODULE MCOrchestrator ---------------------------
(* Finite instances of Orchestrator for TLC.                               *)
EXTENDS Orchestrator, TLC

\* The stack of Phase 1, the default stack of build_default_deps, and that
\* stack with a sandbox and a DCI executor, without gates, and without a
\* compactor.
Phase2 == {"todo_planner", "router", "agent_fn", "gates", "compactor"}
Deployments ==
  { {}, {"compactor"}, Phase2, Components, Components \ {"gates"},
    Components \ {"compactor"}, {"router", "dci", "tools"} }

Symmetry == Permutations(Chunks)

=============================================================================
