------------------------------- MODULE Sandbox -------------------------------
(***************************************************************************)
(* Tool calls (src/harness/sandbox): the tool node of a thread hands its   *)
(* queued calls one after the other to SandboxedToolExecutor, which gives  *)
(* each to a LocalSandbox, in this process under a timer, or to a          *)
(* DockerSandbox, in a container watched by a worker thread.  Threads of   *)
(* the graph share executor, disk and daemon; one may be cancelled.        *)
(***************************************************************************)
EXTENDS Naturals, FiniteSets, Sequences, TLC

CONSTANTS
  Lanes,         \* threads of the graph
  Queues,        \* queues of calls a thread may have: sequences of tools
  Tools,         \* registered tools: [name, network, container]
  Policies,      \* partial map, tool names to the policy of the tool
  Floors,        \* what the executor's own policy may be, "unset" for none
  Overrides,     \* partial map, tool names to what the graph passes along
  Unknown        \* the name of a tool that is not registered

\* A policy is a network mode: "none", "allowlist" or "full".
ASSUME SandboxAssumption ==
  /\ \A t \in Tools : {t.network, t.container} \subseteq BOOLEAN /\ t.name # Unknown
  /\ Queues \subseteq Seq({t.name : t \in Tools} \cup {Unknown})

VARIABLES
  docker,      \* which sandbox the executor has
  floor,
  queue,       \* lane to the calls not begun
  running,     \* lane to the call under way, with how it went so far
  workdirs,    \* calls that have a directory on disk
  containers,  \* calls that have a container in the daemon
  orphans,     \* lanes whose worker thread goes on though the call is cancelled
  results,     \* lane to its results
  stuck,       \* history: calls whose directory could not be removed
  asked,       \* history: lane to its queue at first
  cancelled    \* history: lanes that were cancelled

sandboxVars == <<docker, floor, queue, running, workdirs, containers, orphans, results, stuck, asked, cancelled>>
world == <<docker, floor, asked>>

Nothing == [at |-> "idle"]
ToolOf(name) == CHOOSE t \in Tools : t.name = name
Result(name, ok, error, how) == [tool |-> name, ok |-> ok, error |-> error, how |-> how]

\* policy_for: what the call brings, the tool's own, the executor's, none.
PolicyFor(name) ==
  IF name \in DOMAIN Overrides THEN Overrides[name]
  ELSE IF name \in DOMAIN Policies THEN Policies[name]
  ELSE IF floor # "unset" THEN floor ELSE "none"

\* The call a lane works on, or was cancelled at: the first without a result.
This(l) == <<l, Len(results[l]) + 1>>

\* A lane gets a result.
Report(l, result) == results' = [results EXCEPT ![l] = Append(@, result)]

\* A call ends: its lane takes up the next one.
Answer(l, ok, error, how) ==
  /\ Report(l, Result(running[l].tool, ok, error, how))
  /\ running' = [running EXCEPT ![l] = Nothing]

\* rmtree(ignore_errors=True): what cannot be removed stays, and nobody hears.
RemoveDir(call) ==
  \/ workdirs' = workdirs \ {call} /\ UNCHANGED stuck
  \/ stuck' = stuck \cup {call} /\ UNCHANGED workdirs

-----------------------------------------------------------------------------
SandboxInit ==
  /\ docker \in BOOLEAN /\ floor \in Floors
  /\ queue \in [Lanes -> Queues]
  /\ running = [l \in Lanes |-> Nothing]
  /\ workdirs = {} /\ containers = {} /\ orphans = {} /\ stuck = {}
  /\ results = [l \in Lanes |-> << >>]
  /\ asked = queue
  /\ cancelled = {}

\* tool_node and execute, up to the first await: what is refused is answered
\* before anything is allocated, and the disk may have no directory to give.
Call(l) ==
  LET name == Head(queue[l])
      refused == IF name = Unknown THEN "unknown"
                 ELSE IF docker /\ ~ToolOf(name).container THEN "sandbox"
                 ELSE IF ToolOf(name).network /\ PolicyFor(name) = "none" THEN "policy" ELSE ""
  IN
  /\ running[l] = Nothing /\ queue[l] # << >>
  /\ queue' = [queue EXCEPT ![l] = Tail(@)]
  /\ \/ /\ refused # ""
        /\ Report(l, Result(name, FALSE, refused, "refused"))
        /\ UNCHANGED <<running, workdirs>>
     \/ /\ refused = ""
        /\ Report(l, Result(name, FALSE, "tool", "no directory"))
        /\ UNCHANGED <<running, workdirs>>
     \/ /\ refused = ""
        /\ workdirs' = workdirs \cup {This(l)}
        /\ running' = [running EXCEPT ![l] = [at |-> IF docker THEN "thread" ELSE "tool", tool |-> name]]
        /\ UNCHANGED results
  /\ UNCHANGED <<world, containers, orphans, stuck, cancelled>>

\* LocalSandbox: the tool returns, in time or, where it swallows its
\* cancellation, late; it, or making its directory read-only, raises, which may
\* be a TimeoutError of its own.  The directory is removed, unless it cannot be
\* made writable again: that exception takes the place of the answer, and of a
\* cancellation, which is lost.
ToolEnds(l) ==
  /\ running[l].at = "tool"
  /\ \/ /\ \/ \E how \in {"returned", "late"} : Answer(l, TRUE, "", how)
           \/ Answer(l, FALSE, "tool", "raised")
           \/ Answer(l, FALSE, "resource", "own timeout")
        /\ RemoveDir(This(l))
     \/ /\ Answer(l, FALSE, "tool", "unrestored")
        /\ stuck' = stuck \cup {This(l)}
        /\ UNCHANGED workdirs
  /\ UNCHANGED <<world, queue, containers, orphans, cancelled>>

\* wait_for's timer.
Timer(l) ==
  /\ running[l].at = "tool"
  /\ Answer(l, FALSE, "resource", "overran")
  /\ RemoveDir(This(l))
  /\ UNCHANGED <<world, queue, containers, orphans, cancelled>>

\* Whoever awaits the worker thread gets its answer and removes the directory; of
\* a cancelled call nobody does any more.
ThreadEnds(l, ok, error, how) ==
  \/ /\ l \notin orphans
     /\ Answer(l, ok, error, how) /\ RemoveDir(This(l))
     /\ UNCHANGED orphans
  \/ /\ l \in orphans /\ orphans' = orphans \ {l}
     /\ UNCHANGED <<running, results, workdirs, stuck>>

\* DockerSandbox's worker thread: no container can be had; one is started, for
\* which the daemon makes the directory anew if its call was cancelled meanwhile;
\* or one is created and cannot be started, when it stays in the daemon.
StartContainer(l) ==
  /\ running[l].at = "thread" \/ (l \in orphans /\ This(l) \notin containers)
  /\ \/ ThreadEnds(l, FALSE, "tool", "not started") /\ UNCHANGED containers
     \/ ThreadEnds(l, FALSE, "tool", "created") /\ containers' = containers \cup {This(l)}
     \/ /\ containers' = containers \cup {This(l)}
        /\ IF l \in orphans
           THEN workdirs' = workdirs \cup {This(l)} /\ UNCHANGED running
           ELSE running' = [running EXCEPT ![l].at = "container"] /\ UNCHANGED workdirs
        /\ UNCHANGED <<results, orphans, stuck>>
  /\ UNCHANGED <<world, queue, cancelled>>

\* How a call in a container may end, with the error told: the wait fails,
\* whether for its timeout or not; so does the killing, or the reading of logs.
HowEnded == [returned |-> "", exit |-> "exit", overran |-> "resource", failed |-> "tool"]

\* Mutant: that the container cannot be removed is ignored, as for directories.
ContainerEndsQuietly(l) ==
  /\ This(l) \in containers /\ (running[l].at = "container" \/ l \in orphans)
  /\ \E how \in DOMAIN HowEnded : ThreadEnds(l, how = "returned", HowEnded[how], how)
  /\ containers' \in {containers, containers \ {This(l)}}
  /\ UNCHANGED <<world, queue, cancelled>>

\* The thread has waited, and killed or read the container.  It is removed in any
\* case, and where that raises, with the container gone or not, this takes the
\* place of the answer.
ContainerEnds(l) ==
  /\ This(l) \in containers /\ (running[l].at = "container" \/ l \in orphans)
  /\ \/ /\ \E how \in DOMAIN HowEnded : ThreadEnds(l, how = "returned", HowEnded[how], how)
        /\ containers' = containers \ {This(l)}
     \/ /\ ThreadEnds(l, FALSE, "tool", "unremoved")
        /\ containers' \in {containers, containers \ {This(l)}}
  /\ UNCHANGED <<world, queue, cancelled>>

\* The graph's run is cancelled: the call's directory goes, a worker thread that
\* has begun does not; the calls not begun are dropped.
Cancel(l) ==
  /\ l \notin cancelled /\ running[l] # Nothing
  /\ cancelled' = cancelled \cup {l}
  /\ \/ running[l].at # "container" /\ UNCHANGED orphans
     \/ running[l].at # "tool" /\ orphans' = orphans \cup {l}
  /\ RemoveDir(This(l))
  /\ running' = [running EXCEPT ![l] = Nothing]
  /\ queue' = [queue EXCEPT ![l] = << >>]
  /\ UNCHANGED <<world, containers, results>>

SandboxNext ==
  \E l \in Lanes : Call(l) \/ ToolEnds(l) \/ Timer(l) \/ StartContainer(l) \/ ContainerEnds(l) \/ Cancel(l)

\* The loop and the thread go on, the timers ring; that a tool ends by itself
\* is not assumed.
SandboxFairness ==
  \A l \in Lanes : WF_sandboxVars(Call(l) \/ Timer(l)) /\ WF_sandboxVars(StartContainer(l) \/ ContainerEnds(l))

SandboxSpec == SandboxInit /\ [][SandboxNext]_sandboxVars /\ SandboxFairness

-----------------------------------------------------------------------------
\* Properties

\* A lane works on one call at a time, in order; a cancelled lane has no more.
SandboxTypeOK ==
  \A l \in Lanes :
    /\ running[l].at \in {"idle", "tool", "thread", "container"}
    /\ l \in cancelled => running[l] = Nothing /\ queue[l] = << >>
    /\ running[l] # Nothing => l \notin orphans /\ (docker <=> running[l].at # "tool")

\* What is left of a call that is over: a directory only where it could not be
\* removed, or was made anew for a worker thread after the call was cancelled; a
\* container only where the call's result tells, or a cancellation took it away.
NothingLeftBehind ==
  /\ \A call \in workdirs : LET l == call[1] IN
       \/ call = This(l) /\ running[l] # Nothing
       \/ call = This(l) /\ docker /\ l \in cancelled
       \/ call \in stuck
  /\ \A call \in containers : LET l == call[1] IN
       \/ call = This(l) /\ (running[l].at = "container" \/ l \in cancelled)
       \/ /\ call[2] \in DOMAIN results[l]
          /\ ~results[l][call[2]].ok /\ results[l][call[2]].how \in {"unremoved", "created"}

\* A lane not cancelled has one result for every call it began, in the order of
\* the queue, under the name of the tool called.
OneResultEach ==
  \A l \in Lanes \ cancelled :
    [i \in DOMAIN results[l] |-> results[l][i].tool]
      \o (IF running[l] = Nothing THEN << >> ELSE <<running[l].tool>>) \o queue[l] = asked[l]

\* A result says how the call went: a tool that needs the network is not run
\* under a policy without, nor a tool without an image in a container; no call
\* counts as good that raised, exited with an error or was stopped; a breach of
\* resources is reported of no call that returned, exited or failed otherwise.
ResultsTrue ==
  \A l \in Lanes : \A i \in DOMAIN results[l] :
    LET r == results[l][i] IN
    /\ r.ok <=> r.how \in {"returned", "late"}
    /\ r.error = "resource" => r.how \in {"overran", "own timeout"}
    /\ r.tool = Unknown => r.how = "refused"
    /\ r.tool # Unknown /\ r.how # "refused" =>
         /\ ~(ToolOf(r.tool).network /\ PolicyFor(r.tool) = "none")
         /\ docker => ToolOf(r.tool).container

\* Every queued call is answered in the end unless its run is cancelled, also
\* where a directory or a container cannot be removed, and the worker thread of a
\* cancelled call comes to its end.
EveryCallAnswered ==
  /\ \A l \in Lanes : <>(l \in cancelled \/ Len(results[l]) = Len(asked[l]))
  /\ \A l \in Lanes : l \in orphans ~> l \notin orphans

\* Calls that fail, time out or are cancelled give one true result each, in order, and
\* what they leave behind, in spite of all removals, their result tells or a refusal
\* of the disk or the daemon explains.
SandboxSound == SandboxTypeOK /\ NothingLeftBehind /\ OneResultEach /\ ResultsTrue

=============================================================================
