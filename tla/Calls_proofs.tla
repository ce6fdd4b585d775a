----------------------------- MODULE Calls_proofs -----------------------------
(***************************************************************************)
(* The safety properties of the three components whose calls run           *)
(* concurrently: sub-agents on one budget, model calls behind a semaphore, *)
(* and tool calls in sandboxes.  For every number of agents, documents and *)
(* threads, and all limits.                                                *)
(***************************************************************************)
EXTENDS Sandbox, Enrichment, SubAgents, Totals_proofs, SequenceTheorems

-----------------------------------------------------------------------------
(***************************************************************************)
(* Sub-agents.  That all of them together stay within their parent's       *)
(* budget rests on the carving alone: each stays within its own ceiling,   *)
(* and the ceilings add up to no more than there was.                      *)
(***************************************************************************)

Alone(a) == \A b \in Agents \ {a} : pc[b] \in {"start", "retrieved"}

\* All that was carved was there.
CarvedWithinLimit == Total(ceiling, Agents) <= ParentLimit

\* Agents spend within their ceilings, and only when they settle.
SpendWithinCeiling ==
  \A a \in Agents : /\ consumed[a] <= ceiling[a]
                    /\ pc[a] # "ok" => consumed[a] = 0

\* The price of an agent's own draft stays on the enforcer, and then on the
\* result, for as long as no other agent comes to draft.
PriceFollowed ==
  \A a \in Agents :
    /\ pc[a] \in {"start", "retrieved"} => drafted[a] = 0
    /\ drafted[a] > 0 /\ Alone(a) =>
         /\ pc[a] = "drafted" => lastCost = drafted[a]
         /\ pc[a] = "finalized" => cost[a] = drafted[a]

FanOutInv ==
  /\ TypeOK
  /\ CarvedWithinLimit /\ SpendWithinCeiling /\ CostsAddUp
  /\ PriceFollowed /\ SettledWithRealCost

\* There are finitely many agents.
LEMMA AgentsFinite == IsFiniteSet(Agents)
<1>1. NumAgents \in Int /\ 1 \in Int
  BY SubAgentsAssumption
<1> QED BY <1>1, FS_Interval DEF Agents

\* However many children are carved, the ceilings add up to no more than the
\* parent had: the last one carved took at most what was left.
LEMMA CarvingWithinLimit ==
  ASSUME NEW f \in Carvings
  PROVE  Total(f, Agents) <= ParentLimit
<1>0. /\ NumAgents \in Nat /\ ParentLimit \in Nat
      /\ f \in [Agents -> Nat] /\ f \in [Agents -> 0 .. ParentLimit]
  BY SubAgentsAssumption DEF Carvings
<1>1. CASE NumAgents = 0
  <2>1. Agents = {}
    BY <1>1 DEF Agents
  <2> QED BY <1>0, <2>1, TotalEmpty
<1>2. CASE NumAgents > 0
  <2> DEFINE before == 1 .. NumAgents - 1
  <2>1. /\ NumAgents \in Agents /\ NumAgents \notin before
        /\ Agents = before \cup {NumAgents} /\ before \in SUBSET Agents
    BY <1>0, <1>2 DEF Agents
  <2>2. IsFiniteSet(before)
    BY <2>1, AgentsFinite, FS_Subset
  <2> HIDE DEF before
  <2>3. Total(f, Agents) = Total(f, before) + f[NumAgents]
    <3>1. Total(f, before \cup {NumAgents}) = Total(f, before) + f[NumAgents]
      <4>1. /\ f \in [Agents -> Nat] /\ before \in SUBSET Agents
            /\ NumAgents \in Agents /\ NumAgents \notin before
        BY <1>0, <2>1
      <4> QED BY <4>1, <2>2, TotalAdd
    <3> QED BY <2>1, <3>1, Zenon
  <2>4. Total(f, before) \in Nat
    BY <1>0, <2>1, <2>2, TotalNat
  <2>5. f[NumAgents] = Lower(Requested, ParentLimit - Total(f, before))
    BY <2>1 DEF Carvings, CarveChild, before
  <2>6. Requested \in Nat
    BY SubAgentsAssumption DEF Requested, Lower
  <2>7. f[NumAgents] <= ParentLimit - Total(f, before)
    BY <1>0, <2>4, <2>5, <2>6 DEF Lower
  <2>8. f[NumAgents] \in Nat
    BY <1>0, <2>1
  <2> QED BY <1>0, <2>3, <2>4, <2>7, <2>8
<1> QED BY <1>0, <1>1, <1>2

\* What agents have spent within their ceilings is within their parent's limit.
LEMMA FanOutWithinLimit == FanOutInv => ParentWithinLimit
<1> SUFFICES ASSUME FanOutInv PROVE parentConsumed <= ParentLimit
  BY DEF ParentWithinLimit
<1>1. ceiling \in [Agents -> Nat] /\ consumed \in [Agents -> Nat] /\ ParentLimit \in Nat
  BY SubAgentsAssumption DEF FanOutInv, TypeOK
<1>2. \A a \in Agents : consumed[a] <= ceiling[a]
  BY DEF FanOutInv, SpendWithinCeiling
<1>3. Total(consumed, Agents) <= Total(ceiling, Agents)
  BY <1>1, <1>2, AgentsFinite, TotalMono
<1>4. Total(consumed, Agents) \in Nat /\ Total(ceiling, Agents) \in Nat
  BY <1>1, AgentsFinite, TotalNat
<1> QED BY <1>1, <1>3, <1>4 DEF FanOutInv, CostsAddUp, CarvedWithinLimit

\* Nothing is spent when the children are carved.
LEMMA FanOutInit == Init => FanOutInv
<1> SUFFICES ASSUME Init PROVE FanOutInv
  OBVIOUS
<1>0. /\ ParentLimit \in Nat /\ MaxCost \in Nat
      /\ ceiling \in [Agents -> 0 .. ParentLimit]
      /\ consumed \in [Agents -> Nat] /\ consumed = [a \in Agents |-> 0]
  BY SubAgentsAssumption DEF Init, Carvings
<1>1. TypeOK
  BY <1>0 DEF Init, TypeOK, Points
<1>2. CarvedWithinLimit
  BY CarvingWithinLimit DEF Init, CarvedWithinLimit
<1>3. SpendWithinCeiling
  BY <1>0 DEF SpendWithinCeiling
<1>4. CostsAddUp
  <2>1. Units(consumed, Agents) = {}
    BY <1>0 DEF Units
  <2> QED BY <2>1, FS_EmptySet DEF Init, CostsAddUp, Total
<1>5. PriceFollowed /\ SettledWithRealCost
  BY DEF Init, PriceFollowed, SettledWithRealCost
<1> QED BY <1>1, <1>2, <1>3, <1>4, <1>5 DEF FanOutInv

\* A step that books no spend keeps the books.
LEMMA FanOutBooksKept ==
  ASSUME FanOutInv, UNCHANGED <<ceiling, consumed, parentConsumed>>,
         \A a \in Agents : pc'[a] # "ok" => pc[a] # "ok"
  PROVE  (CarvedWithinLimit /\ SpendWithinCeiling /\ CostsAddUp)'
BY DEF FanOutInv, CarvedWithinLimit, SpendWithinCeiling, CostsAddUp

\* The settlement of an agent fits what its ceiling leaves it.
LEMMA SettlementFits ==
  ASSUME FanOutInv, NEW a \in Agents, pc[a] = "finalized"
  PROVE  /\ Settlement(a) \in 0 .. ParentLimit
         /\ Settlement(a) = Lower(cost[a], ceiling[a])
         /\ consumed[a] = 0 /\ Settlement(a) <= ceiling[a]
<1>1. /\ ceiling[a] \in 0 .. ParentLimit /\ cost[a] \in 0 .. MaxCost
      /\ ParentLimit \in Nat /\ MaxCost \in Nat
  BY SubAgentsAssumption DEF FanOutInv, TypeOK
<1>2. consumed[a] = 0
  BY DEF FanOutInv, SpendWithinCeiling
<1> QED BY <1>1, <1>2 DEF Settlement, Lower

\* Whichever agent goes on, from one await to the next, FanOutInv is kept.
LEMMA FanOutStep == FanOutInv /\ [Next]_vars => FanOutInv'
<1> SUFFICES ASSUME FanOutInv, [Next]_vars PROVE FanOutInv'
  OBVIOUS
<1>0. /\ TypeOK /\ ParentLimit \in Nat /\ MaxCost \in Nat /\ MaxRetrieval \in Nat
  BY SubAgentsAssumption DEF FanOutInv
<1>1. ASSUME NEW a \in Agents, NEW price \in 0 .. MaxRetrieval, Retrieve(a, price)
      PROVE  FanOutInv'
  <2>1. TypeOK'
    <3>1. NonNegative(ceiling[a] - consumed[a] - price) \in 0 .. ParentLimit
      <4>1. /\ ceiling[a] \in 0 .. ParentLimit /\ consumed[a] \in 0 .. ParentLimit
            /\ price \in Nat
        BY <1>0 DEF TypeOK
      <4> QED BY <1>0, <4>1 DEF NonNegative
    <3> QED BY <1>0, <1>1, <3>1 DEF TypeOK, Retrieve, Goes, Points
  <2>2. (CarvedWithinLimit /\ SpendWithinCeiling /\ CostsAddUp)'
    BY <1>0, <1>1, FanOutBooksKept DEF TypeOK, Retrieve, Goes
  <2>3. PriceFollowed'
    BY <1>0, <1>1 DEF TypeOK, FanOutInv, PriceFollowed, Alone, Retrieve, Goes
  <2>4. SettledWithRealCost'
    BY <1>0, <1>1 DEF TypeOK, FanOutInv, SettledWithRealCost, Retrieve, Goes
  <2> QED BY <2>1, <2>2, <2>3, <2>4 DEF FanOutInv
<1>2. ASSUME NEW a \in Agents, NEW price \in 0 .. MaxCost,
             Draft(a, price) \/ DraftInvalid(a, price)
      PROVE  FanOutInv'
  <2>1. TypeOK'
    BY <1>0, <1>2 DEF TypeOK, Draft, DraftInvalid, Goes, Points
  <2>2. (CarvedWithinLimit /\ SpendWithinCeiling /\ CostsAddUp)'
    BY <1>0, <1>2, FanOutBooksKept DEF TypeOK, Draft, DraftInvalid, Goes
  <2>3. PriceFollowed'
    BY <1>0, <1>2
    DEF TypeOK, FanOutInv, PriceFollowed, Alone, Draft, DraftInvalid, Goes
  <2>4. SettledWithRealCost'
    BY <1>0, <1>2
    DEF TypeOK, FanOutInv, SettledWithRealCost, Draft, DraftInvalid, Goes
  <2> QED BY <2>1, <2>2, <2>3, <2>4 DEF FanOutInv
<1>3. ASSUME NEW a \in Agents, Refuse(a) PROVE FanOutInv'
  <2>1. TypeOK'
    BY <1>0, <1>3 DEF TypeOK, Refuse, Goes, Points
  <2>2. (CarvedWithinLimit /\ SpendWithinCeiling /\ CostsAddUp)'
    BY <1>0, <1>3, FanOutBooksKept DEF TypeOK, Refuse, Goes
  <2>3. PriceFollowed'
    BY <1>0, <1>3 DEF TypeOK, FanOutInv, PriceFollowed, Alone, Refuse, Goes
  <2>4. SettledWithRealCost'
    BY <1>0, <1>3 DEF TypeOK, FanOutInv, SettledWithRealCost, Refuse, Goes
  <2> QED BY <2>1, <2>2, <2>3, <2>4 DEF FanOutInv
<1>4. ASSUME NEW a \in Agents, Finalize(a) PROVE FanOutInv'
  <2>1. TypeOK'
    BY <1>0, <1>4 DEF TypeOK, Finalize, Goes, Points
  <2>2. (CarvedWithinLimit /\ SpendWithinCeiling /\ CostsAddUp)'
    BY <1>0, <1>4, FanOutBooksKept DEF TypeOK, Finalize, Goes
  <2>3. PriceFollowed'
    BY <1>0, <1>4 DEF TypeOK, FanOutInv, PriceFollowed, Alone, Finalize, Goes
  <2>4. SettledWithRealCost'
    BY <1>0, <1>4 DEF TypeOK, FanOutInv, SettledWithRealCost, Finalize, Goes
  <2> QED BY <2>1, <2>2, <2>3, <2>4 DEF FanOutInv
<1>5. ASSUME NEW a \in Agents, Settle(a) PROVE FanOutInv'
  <2>0. /\ Settlement(a) \in 0 .. ParentLimit /\ Settlement(a) \in Nat
        /\ Settlement(a) = Lower(cost[a], ceiling[a]) /\ Settlement(a) <= ceiling[a]
        /\ consumed[a] = 0 /\ pc[a] = "finalized"
    BY <1>0, <1>5, SettlementFits DEF Settle, Goes
  <2>1. /\ pc' = [pc EXCEPT ![a] = "ok"]
        /\ consumed' = [consumed EXCEPT ![a] = Settlement(a)]
        /\ parentConsumed' = parentConsumed + Settlement(a)
        /\ UNCHANGED <<ceiling, funds, drafted, lastCost, cost>>
    <3>1. consumed[a] + Settlement(a) = Settlement(a)
      BY <2>0
    <3> QED BY <1>5, <3>1 DEF Settle, Goes
  <2>2. TypeOK'
    BY <1>0, <2>0, <2>1 DEF TypeOK, Points
  <2>3. CarvedWithinLimit'
    BY <2>1 DEF FanOutInv, CarvedWithinLimit
  <2>4. SpendWithinCeiling'
    BY <1>0, <2>0, <2>1 DEF TypeOK, FanOutInv, SpendWithinCeiling
  <2>5. CostsAddUp'
    <3>1. consumed \in [Agents -> Nat] /\ consumed' \in [Agents -> Nat]
      BY <1>0, <2>2 DEF TypeOK
    <3>2. /\ consumed'[a] = consumed[a] + Settlement(a)
          /\ \A b \in Agents \ {a} : consumed'[b] = consumed[b]
      BY <2>0, <2>1, <3>1
    <3>3. Total(consumed', Agents) = Total(consumed, Agents) + Settlement(a)
      BY <2>0, <3>1, <3>2, AgentsFinite, TotalRaise
    <3> QED BY <2>1, <3>3 DEF FanOutInv, CostsAddUp
  <2>6. PriceFollowed'
    BY <1>0, <2>0, <2>1 DEF TypeOK, FanOutInv, PriceFollowed, Alone
  <2>7. SettledWithRealCost'
    BY <1>0, <2>0, <2>1
    DEF TypeOK, FanOutInv, SettledWithRealCost, PriceFollowed, Alone
  <2> QED BY <2>2, <2>3, <2>4, <2>5, <2>6, <2>7 DEF FanOutInv
<1>6. ASSUME NEW a \in Agents, Fail(a) PROVE FanOutInv'
  <2>1. TypeOK'
    BY <1>0, <1>6 DEF TypeOK, Fail, Points
  <2>2. (CarvedWithinLimit /\ SpendWithinCeiling /\ CostsAddUp)'
    BY <1>0, <1>6, FanOutBooksKept DEF TypeOK, Fail
  <2>3. PriceFollowed'
    BY <1>0, <1>6 DEF TypeOK, FanOutInv, PriceFollowed, Alone, Fail
  <2>4. SettledWithRealCost'
    BY <1>0, <1>6 DEF TypeOK, FanOutInv, SettledWithRealCost, Fail
  <2> QED BY <2>1, <2>2, <2>3, <2>4 DEF FanOutInv
<1>7. CASE UNCHANGED vars
  BY <1>7
  DEF vars, FanOutInv, TypeOK, CarvedWithinLimit, SpendWithinCeiling, CostsAddUp,
      PriceFollowed, SettledWithRealCost, Alone
<1> QED BY <1>1, <1>2, <1>3, <1>4, <1>5, <1>6, <1>7 DEF Next, Work

\* The invariant of a fan-out.
THEOREM FanOutInvariance == Spec => []FanOutInv
BY FanOutInit, FanOutStep, PTL DEF Spec

\* In whichever order any number of agents draft, finalize and settle: all of them
\* stay within the parent's budget, its books add up, and an agent that drafted
\* alone is settled with its own cost.
THEOREM FanOutHolds == Spec => []FanOutSound
<1>1. FanOutInv => FanOutSound
  BY FanOutWithinLimit DEF FanOutInv, FanOutSound
<1> QED BY <1>1, FanOutInvariance, PTL

\* To its parent, a fan-out is one account under one hard ceiling.
THEOREM FanOutImplementsHardCeiling == Spec => HardCeilingSpec
<1>1. Init => Account!Init
  BY DEF Init, Account!Init
<1>2. FanOutInv /\ FanOutInv' /\ [Next]_vars => [Account!Next]_parentConsumed
  <2> SUFFICES ASSUME FanOutInv, FanOutInv', [Next]_vars,
                      parentConsumed' # parentConsumed
               PROVE  Account!Next
    OBVIOUS
  <2>1. PICK a \in Agents : Settle(a)
    BY DEF Next, Work, Retrieve, Draft, DraftInvalid, Refuse, Finalize, Fail, vars
  <2>2. Settlement(a) \in 0 .. ParentLimit
    BY <2>1, SettlementFits DEF Settle, Goes
  <2>3. parentConsumed' = parentConsumed + Settlement(a)
    BY <2>1 DEF Settle
  <2>4. parentConsumed' <= ParentLimit
    <3>1. FanOutInv' => ParentWithinLimit'
      BY FanOutWithinLimit, PTL
    <3> QED BY <3>1 DEF ParentWithinLimit
  <2> QED BY <2>2, <2>3, <2>4 DEF Account!Next, Account!Spend
<1> QED
  BY <1>1, <1>2, FanOutInvariance, PTL DEF Spec, HardCeilingSpec, Account!Spec

-----------------------------------------------------------------------------
(***************************************************************************)
(* Tool calls.  Per lane: what it has results for, what it works on and    *)
(* what it has not begun make up what it was asked, whichever of the tool, *)
(* the timer, the worker thread and the cancellation comes first.          *)
(***************************************************************************)

Names == {t.name : t \in Tools} \cup {Unknown}
Underway == [at : {"tool", "thread", "container"}, tool : Names]
Errors == {"", "unknown", "sandbox", "policy", "tool", "resource", "exit"}
Ways == {"refused", "no directory", "returned", "late", "raised", "own timeout",
         "unrestored", "overran", "not started", "created", "exit", "failed", "unremoved"}
Results == [tool : Names, ok : BOOLEAN, error : Errors, how : Ways]

SandboxShape ==
  /\ docker \in BOOLEAN
  /\ running \in [Lanes -> {Nothing} \cup Underway]
  /\ queue \in [Lanes -> Seq(Names)] /\ asked \in [Lanes -> Seq(Names)]
  /\ results \in [Lanes -> Seq(Results)]
  /\ workdirs \subseteq Lanes \X Nat /\ containers \subseteq Lanes \X Nat
  /\ cancelled \subseteq Lanes

\* Worker threads go on without their call only once it is cancelled, and only
\* DockerSandbox has any.
OrphansCancelled == \A l \in orphans : l \in cancelled /\ docker

\* What runs was let through.
RunsAllowed ==
  \A l \in Lanes : running[l] # Nothing =>
    LET name == running[l].tool IN
    /\ name # Unknown
    /\ ~(ToolOf(name).network /\ PolicyFor(name) = "none")
    /\ docker => ToolOf(name).container

SandboxInv ==
  /\ SandboxShape
  /\ SandboxTypeOK /\ OrphansCancelled
  /\ NothingLeftBehind
  /\ OneResultEach
  /\ ResultsTrue /\ RunsAllowed

\* The lists OneResultEach is about
Told(s) == [i \in DOMAIN s |-> s[i].tool]
Begun(call) == IF call = Nothing THEN << >> ELSE <<call.tool>>
Accounted(s, call, rest) == Told(s) \o Begun(call) \o rest

\* What ResultsTrue says of one result
Truthful(r) ==
  /\ r.ok <=> r.how \in {"returned", "late"}
  /\ r.error = "resource" => r.how \in {"overran", "own timeout"}
  /\ r.tool = Unknown => r.how = "refused"
  /\ r.tool # Unknown /\ r.how # "refused" =>
       /\ ~(ToolOf(r.tool).network /\ PolicyFor(r.tool) = "none")
       /\ docker => ToolOf(r.tool).container

\* What NothingLeftBehind says of one directory, and of one container
DirKnown(call) ==
  \/ call = This(call[1]) /\ running[call[1]] # Nothing
  \/ call = This(call[1]) /\ docker /\ call[1] \in cancelled
  \/ call \in stuck
ContainerKnown(call) ==
  \/ call = This(call[1]) /\ (running[call[1]].at = "container" \/ call[1] \in cancelled)
  \/ /\ call[2] \in DOMAIN results[call[1]]
     /\ ~results[call[1]][call[2]].ok
     /\ results[call[1]][call[2]].how \in {"unremoved", "created"}

\* The tools of results are named in their order.
LEMMA ToldType ==
  ASSUME NEW s \in Seq(Results)
  PROVE  Told(s) \in Seq(Names)
<1>1. ASSUME NEW i \in 1 .. Len(s) PROVE s[i].tool \in Names
  <2>1. s[i] \in Results
    BY ElementOfSeq
  <2> QED BY <2>1 DEF Results
<1> QED BY <1>1 DEF Told

\* There is a name for every result.
LEMMA ToldLen ==
  ASSUME NEW s \in Seq(Results)
  PROVE  Len(Told(s)) = Len(s)
<1>1. DOMAIN Told(s) = DOMAIN s
  BY DEF Told
<1> QED BY <1>1, ToldType, LenProperties

\* A result more is a name more.
LEMMA ToldAppend ==
  ASSUME NEW s \in Seq(Results), NEW r \in Results
  PROVE  Told(Append(s, r)) = Told(s) \o <<r.tool>>
<1> DEFINE t == Told(Append(s, r)) u == Told(s) \o <<r.tool>>
<1>1. Append(s, r) \in Seq(Results) /\ Len(Append(s, r)) = Len(s) + 1
  BY AppendProperties
<1>2. /\ Told(s) \in Seq(Names) /\ Len(Told(s)) = Len(s)
      /\ <<r.tool>> \in Seq(Names) /\ Len(<<r.tool>>) = 1
  <2>1. Told(s) \in Seq(Names) /\ Len(Told(s)) = Len(s)
    BY ToldType, ToldLen
  <2>2. r.tool \in Names
    BY DEF Results
  <2> QED BY <2>1, <2>2
<1>3. t \in Seq(Names) /\ Len(t) = Len(s) + 1
  <2> DEFINE longer == Append(s, r)
  <2>1. longer \in Seq(Results) /\ Len(longer) = Len(s) + 1
    BY <1>1
  <2> HIDE DEF longer
  <2>2. Told(longer) \in Seq(Names) /\ Len(Told(longer)) = Len(s) + 1
    BY <2>1, ToldType, ToldLen
  <2> QED BY <2>2 DEF longer
<1>4. u \in Seq(Names) /\ Len(u) = Len(s) + 1
  BY <1>2, ConcatProperties
<1>5. ASSUME NEW i \in 1 .. Len(t) PROVE t[i] = u[i]
  <2>1. i \in 1 .. Len(s) + 1 /\ i \in 1 .. Len(Append(s, r)) /\ Len(s) \in Nat
    BY <1>1, <1>3
  <2>2. t[i] = Append(s, r)[i].tool
    BY <1>1, <2>1 DEF Told
  <2>3. u[i] = IF i <= Len(s) THEN Told(s)[i] ELSE <<r.tool>>[i - Len(s)]
    BY <1>2, <2>1, ConcatProperties
  <2>4. CASE i <= Len(s)
    <3>1. i \in 1 .. Len(s)
      BY <2>1, <2>4
    <3>2. Append(s, r)[i] = s[i]
      BY <3>1, AppendProperties
    <3> QED BY <2>2, <2>3, <2>4, <3>1, <3>2 DEF Told
  <2>5. CASE i = Len(s) + 1
    <3>1. Append(s, r)[i] = r
      BY <2>5, AppendProperties
    <3>2. ~(i <= Len(s)) /\ i - Len(s) = 1
      BY <2>1, <2>5
    <3>3. u[i] = <<r.tool>>[1]
      BY <2>3, <3>2
    <3> QED BY <2>2, <3>1, <3>3
  <2>6. i <= Len(s) \/ i = Len(s) + 1
    BY <2>1
  <2> QED BY <2>4, <2>5, <2>6
<1> HIDE DEF t, u
<1>6. t = u
  BY <1>3, <1>4, <1>5, SeqEqual
<1> QED BY <1>6 DEF t, u

\* A call that is refused goes from the queue to the results.
LEMMA AccountRefused ==
  ASSUME NEW s \in Seq(Results), NEW q \in Seq(Names), q # << >>,
         NEW r \in Results, r.tool = Head(q)
  PROVE  Accounted(Append(s, r), Nothing, Tail(q)) = Accounted(s, Nothing, q)
<1>1. /\ Told(s) \in Seq(Names) /\ <<Head(q)>> \in Seq(Names) /\ Tail(q) \in Seq(Names)
      /\ << >> \in Seq(Names)
  BY ToldType, HeadTailProperties
<1>2. q = <<Head(q)>> \o Tail(q)
  BY <1>1
<1>3. Told(Append(s, r)) = Told(s) \o <<Head(q)>>
  BY ToldAppend
<1>4. /\ Told(s) \o <<Head(q)>> \in Seq(Names)
      /\ (Told(s) \o <<Head(q)>>) \o << >> = Told(s) \o <<Head(q)>>
      /\ Told(s) \o << >> = Told(s)
  BY <1>1, ConcatProperties, ConcatEmptySeq
<1>5. (Told(s) \o <<Head(q)>>) \o Tail(q) = Told(s) \o (<<Head(q)>> \o Tail(q))
  BY <1>1, ConcatAssociative
<1> QED BY <1>2, <1>3, <1>4, <1>5 DEF Accounted, Begun

\* A call that is begun goes from the queue into the lane.
LEMMA AccountBegun ==
  ASSUME NEW s \in Seq(Results), NEW q \in Seq(Names), q # << >>,
         NEW call \in Underway, call.tool = Head(q)
  PROVE  Accounted(s, call, Tail(q)) = Accounted(s, Nothing, q)
<1>1. /\ Told(s) \in Seq(Names) /\ <<Head(q)>> \in Seq(Names) /\ Tail(q) \in Seq(Names)
  BY ToldType, HeadTailProperties
<1>2. q = <<Head(q)>> \o Tail(q)
  BY <1>1
<1>3. Begun(call) = <<Head(q)>> /\ Begun(Nothing) = << >>
  BY DEF Begun, Underway, Nothing
<1>4. Told(s) \o << >> = Told(s)
  BY <1>1, ConcatEmptySeq
<1>5. (Told(s) \o <<Head(q)>>) \o Tail(q) = Told(s) \o (<<Head(q)>> \o Tail(q))
  BY <1>1, ConcatAssociative
<1> QED BY <1>2, <1>3, <1>4, <1>5 DEF Accounted

\* A call that is answered goes from the lane to the results.
LEMMA AccountAnswered ==
  ASSUME NEW s \in Seq(Results), NEW q \in Seq(Names),
         NEW call \in Underway, NEW r \in Results, r.tool = call.tool
  PROVE  Accounted(Append(s, r), Nothing, q) = Accounted(s, call, q)
<1>1. Told(s) \in Seq(Names) /\ <<call.tool>> \in Seq(Names)
  BY ToldType DEF Underway
<1>2. Begun(call) = <<call.tool>> /\ Begun(Nothing) = << >>
  BY DEF Begun, Underway, Nothing
<1>3. Told(Append(s, r)) = Told(s) \o <<call.tool>>
  BY ToldAppend
<1>4. (Told(s) \o <<call.tool>>) \o << >> = Told(s) \o <<call.tool>>
  BY <1>1, ConcatProperties, ConcatEmptySeq
<1> QED BY <1>2, <1>3, <1>4 DEF Accounted

\* OneResultEach in these words
LEMMA OneResultEachAccounts ==
  OneResultEach <=> \A l \in Lanes \ cancelled :
                      Accounted(results[l], running[l], queue[l]) = asked[l]
BY DEF OneResultEach, Accounted, Told, Begun

\* ResultsTrue in these words
LEMMA ResultsTrueTruthful ==
  ResultsTrue <=> \A l \in Lanes : \A i \in DOMAIN results[l] : Truthful(results[l][i])
BY DEF ResultsTrue, Truthful

\* NothingLeftBehind in these words
LEMMA NothingLeftBehindKnown ==
  NothingLeftBehind <=> /\ \A call \in workdirs : DirKnown(call)
                        /\ \A call \in containers : ContainerKnown(call)
BY DEF NothingLeftBehind, DirKnown, ContainerKnown

\* A call has a lane and a number.
LEMMA ThisType ==
  ASSUME SandboxShape, NEW l \in Lanes
  PROVE  /\ This(l) \in Lanes \X Nat /\ This(l)[1] = l /\ This(l)[2] = Len(results[l]) + 1
         /\ Len(results[l]) \in Nat
<1>1. Len(results[l]) \in Nat
  BY DEF SandboxShape
<1> QED BY <1>1 DEF This

\* A result more leaves those before it where they are.
LEMMA ResultsGrow ==
  ASSUME NEW s \in Seq(Results), NEW r \in Results
  PROVE  /\ Append(s, r) \in Seq(Results) /\ Len(Append(s, r)) = Len(s) + 1
         /\ \A i \in DOMAIN s : i \in DOMAIN Append(s, r) /\ Append(s, r)[i] = s[i]
         /\ Len(s) + 1 \in DOMAIN Append(s, r) /\ Append(s, r)[Len(s) + 1] = r
BY AppendProperties

\* A step of one lane has to account for what it touches only: the rest of what
\* is left was accounted for before.
LEMMA LeftOversKept ==
  ASSUME SandboxInv, NEW l \in Lanes, docker' = docker,
         \A m \in Lanes \ {l} : running'[m] = running[m] /\ results'[m] = results[m],
         cancelled \subseteq cancelled', stuck \subseteq stuck',
         \A i \in DOMAIN results[l] : i \in DOMAIN results'[l] /\ results'[l][i] = results[l][i],
         \A call \in workdirs' : (call \in workdirs /\ call # This(l)) \/ DirKnown(call)',
         \A call \in containers' :
           (call \in containers /\ call # This(l)) \/ ContainerKnown(call)'
  PROVE  NothingLeftBehind'
<1>0. SandboxShape
  BY DEF SandboxInv
<1>1. \A m \in Lanes \ {l} : This(m)' = This(m)
  BY DEF This
<1>2. ASSUME NEW call \in workdirs, call # This(l) PROVE DirKnown(call)'
  <2>1. call[1] \in Lanes /\ DirKnown(call)
    BY <1>0, <1>2, NothingLeftBehindKnown DEF SandboxInv, SandboxShape
  <2>2. CASE call[1] = l
    BY <1>2, <2>1, <2>2 DEF DirKnown
  <2>3. CASE call[1] # l
    BY <1>1, <2>1, <2>3 DEF DirKnown
  <2> QED BY <2>2, <2>3
<1>3. ASSUME NEW call \in containers, call # This(l) PROVE ContainerKnown(call)'
  <2>1. call[1] \in Lanes /\ ContainerKnown(call)
    BY <1>0, <1>3, NothingLeftBehindKnown DEF SandboxInv, SandboxShape
  <2>2. CASE call[1] = l
    BY <1>3, <2>1, <2>2 DEF ContainerKnown
  <2>3. CASE call[1] # l
    BY <1>1, <2>1, <2>3 DEF ContainerKnown
  <2> QED BY <2>2, <2>3
<1>4. /\ \A call \in workdirs' : DirKnown(call)'
      /\ \A call \in containers' : ContainerKnown(call)'
  BY <1>2, <1>3
<1> QED BY <1>4 DEF NothingLeftBehind, DirKnown, ContainerKnown

\* A removal leaves no directory that is not known to be there.
LEMMA RemoveDirKept ==
  ASSUME NEW call, RemoveDir(call)
  PROVE  /\ stuck \subseteq stuck' /\ workdirs' \subseteq workdirs
         /\ \A c \in workdirs' : (c \in workdirs /\ c # call) \/ DirKnown(c)'
BY DEF RemoveDir, DirKnown

\* Results that stay are true as long as the policies stay.
LEMMA TruthfulStays ==
  ASSUME SandboxInv, UNCHANGED <<world, results>>
  PROVE  ResultsTrue'
<1>1. docker' = docker /\ \A name : PolicyFor(name)' = PolicyFor(name)
  BY DEF PolicyFor, world
<1>2. ASSUME NEW l \in Lanes, NEW i \in DOMAIN results[l] PROVE Truthful(results[l][i])'
  <2>1. Truthful(results[l][i])
    BY ResultsTrueTruthful DEF SandboxInv
  <2> QED BY <1>1, <2>1 DEF Truthful
<1> QED BY <1>2 DEF ResultsTrue, Truthful

\* One result more, and a true one, leaves the results of a lane true.
LEMMA TruthfulAppend ==
  ASSUME SandboxInv, UNCHANGED world, NEW l \in Lanes, NEW r \in Results, Truthful(r),
         results' = [results EXCEPT ![l] = Append(@, r)]
  PROVE  ResultsTrue' /\ results' \in [Lanes -> Seq(Results)]
<1>0. results \in [Lanes -> Seq(Results)]
  BY DEF SandboxInv, SandboxShape
<1>1. /\ results[l] \in Seq(Results)
      /\ Append(results[l], r) \in Seq(Results)
      /\ Len(Append(results[l], r)) = Len(results[l]) + 1
  BY <1>0, AppendProperties
<1>2. results' \in [Lanes -> Seq(Results)]
  BY <1>0, <1>1
<1>3. ASSUME NEW m \in Lanes, NEW i \in DOMAIN results'[m]
      PROVE  Truthful(results'[m][i])
  <2>1. CASE m = l /\ i = Len(results[l]) + 1
    <3>1. results'[m][i] = r
      BY <1>0, <1>1, <2>1, AppendProperties
    <3> QED BY <3>1
  <2>2. CASE m # l \/ i # Len(results[l]) + 1
    <3>1. i \in DOMAIN results[m] /\ results'[m][i] = results[m][i]
      <4>1. CASE m # l
        BY <1>0, <4>1
      <4>2. CASE m = l /\ i # Len(results[l]) + 1
        <5>1. results'[m] = Append(results[l], r)
          BY <1>0, <4>2
        <5>2. i \in 1 .. Len(results[l]) + 1 /\ Len(results[l]) \in Nat
          BY <1>1, <5>1
        <5>3. i \in 1 .. Len(results[l])
          BY <4>2, <5>2
        <5>4. Append(results[l], r)[i] = results[l][i]
          BY <1>1, <5>3, AppendProperties
        <5> QED BY <1>1, <4>2, <5>1, <5>3, <5>4
      <4> QED BY <2>2, <4>1, <4>2
    <3> QED BY <3>1, ResultsTrueTruthful DEF SandboxInv
  <2> QED BY <2>1, <2>2
<1>4. ASSUME NEW m \in Lanes, NEW i \in DOMAIN results'[m]
      PROVE  Truthful(results[m][i])' 
  BY <1>3 DEF Truthful, PolicyFor, world
<1>5. ResultsTrue'
  BY <1>4 DEF ResultsTrue, Truthful
<1> QED BY <1>2, <1>5

\* The call of a lane that is answered truthfully, by whichever way it ended,
\* leaves the lane idle, with its lists accounted for.
LEMMA LaneAnswered ==
  ASSUME SandboxInv, NEW l \in Lanes, running[l] # Nothing,
         NEW ok \in BOOLEAN, NEW error \in Errors, NEW how \in Ways,
         Truthful(Result(running[l].tool, ok, error, how)),
         Answer(l, ok, error, how), UNCHANGED <<world, queue, cancelled>>
  PROVE  /\ running' = [running EXCEPT ![l] = Nothing]
         /\ results' = [results EXCEPT ![l] =
                          Append(@, Result(running[l].tool, ok, error, how))]
         /\ Result(running[l].tool, ok, error, how) \in Results
         /\ running' \in [Lanes -> {Nothing} \cup Underway]
         /\ results' \in [Lanes -> Seq(Results)]
         /\ OneResultEach' /\ ResultsTrue' /\ RunsAllowed'
<1> DEFINE r == Result(running[l].tool, ok, error, how)
<1>0. /\ running \in [Lanes -> {Nothing} \cup Underway] /\ running[l] \in Underway
      /\ results \in [Lanes -> Seq(Results)] /\ queue \in [Lanes -> Seq(Names)]
  BY DEF SandboxInv, SandboxShape
<1>1. r \in Results /\ r.tool = running[l].tool
  BY <1>0 DEF Result, Results, Underway
<1>2. /\ running' = [running EXCEPT ![l] = Nothing]
      /\ results' = [results EXCEPT ![l] = Append(@, r)]
  BY DEF Answer, Report
<1>3. running' \in [Lanes -> {Nothing} \cup Underway]
  BY <1>0, <1>2
<1>4. Truthful(r)
  OBVIOUS
<1> HIDE DEF r
<1>5. ResultsTrue' /\ results' \in [Lanes -> Seq(Results)]
  BY <1>1, <1>2, <1>4, TruthfulAppend
<1>6. ASSUME NEW m \in Lanes \ cancelled
      PROVE  Accounted(results'[m], running'[m], queue'[m]) = asked'[m]
  <2>1. Accounted(results[m], running[m], queue[m]) = asked[m]
    BY OneResultEachAccounts DEF SandboxInv
  <2>2. CASE m = l
    <3>1. results'[l] = Append(results[l], r) /\ running'[l] = Nothing
      BY <1>0, <1>2
    <3>2. Accounted(Append(results[l], r), Nothing, queue[l])
            = Accounted(results[l], running[l], queue[l])
      BY <1>0, <1>1, AccountAnswered
    <3> QED BY <2>1, <2>2, <3>1, <3>2 DEF world
  <2>3. CASE m # l
    BY <1>0, <1>2, <2>1, <2>3 DEF world
  <2> QED BY <2>2, <2>3
<1>7. OneResultEach'
  BY <1>6 DEF OneResultEach, Accounted, Told, Begun
<1>8. RunsAllowed'
  BY <1>0, <1>2 DEF SandboxInv, RunsAllowed, PolicyFor, world
<1> QED BY <1>1, <1>2, <1>3, <1>5, <1>7, <1>8 DEF r

\* Where neither lists nor policies change, what is said of them stays true.
LEMMA LanesUntouched ==
  ASSUME SandboxInv, UNCHANGED <<world, running, queue, results, cancelled>>
  PROVE  /\ OneResultEach' /\ ResultsTrue' /\ RunsAllowed'
<1>1. OneResultEach'
  BY DEF SandboxInv, OneResultEach, world
<1>2. ResultsTrue'
  BY TruthfulStays
<1>3. RunsAllowed'
  BY DEF SandboxInv, RunsAllowed, PolicyFor, world
<1> QED BY <1>1, <1>2, <1>3

\* At first every lane has its queue and nothing else.
LEMMA SandboxStart == SandboxInit => SandboxInv
<1> SUFFICES ASSUME SandboxInit PROVE SandboxInv
  OBVIOUS
<1>1. SandboxShape
  BY SandboxAssumption DEF SandboxInit, SandboxShape, Names
<1>2. SandboxTypeOK /\ OrphansCancelled /\ NothingLeftBehind /\ RunsAllowed
  BY DEF SandboxInit, SandboxTypeOK, OrphansCancelled, NothingLeftBehind, RunsAllowed,
         Nothing
<1>3. ASSUME NEW l \in Lanes PROVE Accounted(results[l], running[l], queue[l]) = asked[l]
  <2>1. results[l] = << >> /\ running[l] = Nothing /\ asked[l] = queue[l]
    BY <1>3 DEF SandboxInit
  <2>2. Told(<< >>) = << >> /\ Begun(Nothing) = << >>
    BY DEF Told, Begun
  <2>3. queue[l] \in Seq(Names)
    BY <1>1, <1>3 DEF SandboxShape
  <2> QED BY <2>1, <2>2, <2>3, EmptySeq, ConcatEmptySeq DEF Accounted
<1>4. OneResultEach
  BY <1>3, OneResultEachAccounts
<1>5. ResultsTrue
  <2>1. \A l \in Lanes : results[l] = << >>
    BY DEF SandboxInit
  <2>2. DOMAIN << >> = {}
    OBVIOUS
  <2> QED BY <2>1, <2>2 DEF ResultsTrue
<1> QED BY <1>1, <1>2, <1>4, <1>5 DEF SandboxInv

\* A call is let through or refused before it gets anything.
LEMMA CallKeeps ==
  ASSUME SandboxInv, NEW l \in Lanes, Call(l)
  PROVE  SandboxInv'
<1> DEFINE name == Head(queue[l])
           refused == IF name = Unknown THEN "unknown"
                      ELSE IF docker /\ ~ToolOf(name).container THEN "sandbox"
                      ELSE IF ToolOf(name).network /\ PolicyFor(name) = "none"
                           THEN "policy" ELSE ""
           call == [at |-> IF docker THEN "thread" ELSE "tool", tool |-> name]
<1>0. SandboxShape
  BY DEF SandboxInv
<1>1. /\ running[l] = Nothing /\ queue[l] # << >>
      /\ queue' = [queue EXCEPT ![l] = Tail(@)]
      /\ UNCHANGED <<world, containers, orphans, stuck, cancelled>>
  BY DEF Call
<1>2. queue[l] \in Seq(Names) /\ name \in Names /\ Tail(queue[l]) \in Seq(Names)
  BY <1>0, <1>1, HeadTailProperties DEF SandboxShape
<1>3. l \notin cancelled /\ l \notin orphans
  BY <1>1
  DEF SandboxInv, SandboxTypeOK, OrphansCancelled, Nothing
<1>4. queue' \in [Lanes -> Seq(Names)]
  BY <1>0, <1>1, <1>2 DEF SandboxShape
<1>5. refused # "" => refused \in {"unknown", "sandbox", "policy"}
  OBVIOUS
<1>6. refused = "" =>
        /\ name # Unknown /\ ~(ToolOf(name).network /\ PolicyFor(name) = "none")
        /\ docker => ToolOf(name).container
  OBVIOUS
<1>7. \/ /\ refused # "" /\ Report(l, Result(name, FALSE, refused, "refused"))
         /\ UNCHANGED <<running, workdirs>>
      \/ /\ refused = "" /\ Report(l, Result(name, FALSE, "tool", "no directory"))
         /\ UNCHANGED <<running, workdirs>>
      \/ /\ refused = "" /\ workdirs' = workdirs \cup {This(l)}
         /\ running' = [running EXCEPT ![l] = call]
         /\ results' = results
  BY DEF Call
<1> HIDE DEF refused, name
<1>8. /\ This(l) \in Lanes \X Nat /\ This(l)[1] = l
      /\ results[l] \in Seq(Results)
  BY <1>0, ThisType DEF SandboxShape
<1>9. ASSUME NEW r \in Results, r.tool = name, Truthful(r), Report(l, r),
             UNCHANGED <<running, workdirs>>
      PROVE  SandboxInv'
  <2>1. results' = [results EXCEPT ![l] = Append(@, r)]
    BY <1>9 DEF Report
  <2>2. results'[l] = Append(results[l], r) /\ \A m \in Lanes \ {l} : results'[m] = results[m]
    BY <1>0, <2>1 DEF SandboxShape
  <2>3. ResultsTrue' /\ results' \in [Lanes -> Seq(Results)]
    BY <1>1, <1>9, <2>1, TruthfulAppend
  <2>4. ASSUME NEW m \in Lanes \ cancelled
        PROVE  Accounted(results'[m], running'[m], queue'[m]) = asked'[m]
    <3>1. Accounted(results[m], running[m], queue[m]) = asked[m]
      BY OneResultEachAccounts DEF SandboxInv
    <3>2. CASE m = l
      <4>1. queue'[l] = Tail(queue[l])
        BY <1>0, <1>1 DEF SandboxShape
      <4>2. Accounted(Append(results[l], r), Nothing, Tail(queue[l]))
              = Accounted(results[l], Nothing, queue[l])
        BY <1>1, <1>2, <1>8, <1>9, AccountRefused DEF name
      <4> QED BY <1>1, <1>9, <2>2, <3>1, <3>2, <4>1, <4>2 DEF world
    <3>3. CASE m # l
      BY <1>0, <1>1, <1>9, <2>1, <3>1, <3>3 DEF world, SandboxShape
    <3> QED BY <3>2, <3>3
  <2>5. OneResultEach'
    BY <1>1, <2>4 DEF OneResultEach, Accounted, Told, Begun
  <2>6. RunsAllowed'
    BY <1>1, <1>9 DEF SandboxInv, RunsAllowed, PolicyFor, world
  <2>7. SandboxShape'
    BY <1>0, <1>1, <1>4, <1>9, <2>3 DEF SandboxShape, world
  <2>8. (SandboxTypeOK /\ OrphansCancelled)'
    BY <1>0, <1>1, <1>3, <1>9
    DEF SandboxInv, SandboxShape, SandboxTypeOK, OrphansCancelled, world
  <2>9. NothingLeftBehind'
    <3>1. /\ \A c \in workdirs : DirKnown(c) /\ (c = This(l) => c \in stuck)
          /\ \A c \in containers : ContainerKnown(c) /\ c # This(l)
      <4>1. /\ \A c \in workdirs : DirKnown(c)
            /\ \A c \in containers : ContainerKnown(c)
        BY NothingLeftBehindKnown DEF SandboxInv
      <4>2. \A c \in workdirs : c = This(l) => c \in stuck
        BY <1>1, <1>3, <1>8, <4>1 DEF DirKnown
      <4>3. \A c \in containers : c # This(l)
        <5> SUFFICES ASSUME This(l) \in containers PROVE FALSE
          OBVIOUS
        <5>1. ContainerKnown(This(l)) /\ running[l].at # "container"
          BY <1>1, <4>1 DEF Nothing
        <5>2. This(l)[2] \in DOMAIN results[l]
          BY <1>3, <1>8, <5>1 DEF ContainerKnown
        <5> QED BY <1>0, <1>8, <5>2, ThisType
      <4> QED BY <4>1, <4>2, <4>3
    <3>2. \A i \in DOMAIN results[l] : i \in DOMAIN results'[l] /\ results'[l][i] = results[l][i]
      BY <1>8, <1>9, <2>2, ResultsGrow
    <3>3. \A c \in workdirs' : (c \in workdirs /\ c # This(l)) \/ DirKnown(c)'
      BY <1>1, <1>9, <3>1 DEF DirKnown
    <3>4. \A c \in containers' : c \in containers /\ c # This(l)
      BY <1>1, <3>1
    <3>5. /\ docker' = docker /\ cancelled \subseteq cancelled' /\ stuck \subseteq stuck'
          /\ \A m \in Lanes \ {l} : running'[m] = running[m] /\ results'[m] = results[m]
      BY <1>1, <1>9, <2>2 DEF world
    <3> QED BY <3>2, <3>3, <3>4, <3>5, LeftOversKept
  <2> QED BY <2>3, <2>5, <2>6, <2>7, <2>8, <2>9 DEF SandboxInv
<1>10. CASE refused # "" /\ Report(l, Result(name, FALSE, refused, "refused"))
            /\ UNCHANGED <<running, workdirs>>
  <2> DEFINE r == Result(name, FALSE, refused, "refused")
  <2>1. r \in Results /\ r.tool = name /\ Truthful(r)
    BY <1>2, <1>5, <1>10 DEF Result, Results, Errors, Ways, Truthful
  <2> HIDE DEF r
  <2>2. Report(l, r) /\ UNCHANGED <<running, workdirs>>
    BY <1>10 DEF r
  <2> QED BY <1>9, <2>1, <2>2
<1>11. CASE refused = "" /\ Report(l, Result(name, FALSE, "tool", "no directory"))
            /\ UNCHANGED <<running, workdirs>>
  <2> DEFINE r == Result(name, FALSE, "tool", "no directory")
  <2>1. r \in Results /\ r.tool = name /\ Truthful(r)
    BY <1>2, <1>6, <1>11 DEF Result, Results, Errors, Ways, Truthful
  <2> HIDE DEF r
  <2>2. Report(l, r) /\ UNCHANGED <<running, workdirs>>
    BY <1>11 DEF r
  <2> QED BY <1>9, <2>1, <2>2
<1>12. CASE /\ refused = "" /\ workdirs' = workdirs \cup {This(l)}
            /\ running' = [running EXCEPT ![l] = call]
            /\ results' = results
  <2>2. /\ call \in Underway /\ call.tool = name /\ call # Nothing
        /\ docker <=> call.at # "tool"
        /\ call.at \in {"tool", "thread"}
    BY <1>0, <1>2 DEF Underway, Nothing, SandboxShape
  <2> HIDE DEF call
  <2>4. running' \in [Lanes -> {Nothing} \cup Underway] /\ running'[l] = call
    BY <1>0, <1>12, <2>2 DEF SandboxShape
  <2>5. ASSUME NEW m \in Lanes \ cancelled
        PROVE  Accounted(results'[m], running'[m], queue'[m]) = asked'[m]
    <3>1. Accounted(results[m], running[m], queue[m]) = asked[m]
      BY OneResultEachAccounts DEF SandboxInv
    <3>2. CASE m = l
      <4>1. running'[l] = call /\ queue'[l] = Tail(queue[l])
        BY <1>0, <1>1, <2>4 DEF SandboxShape
      <4>2. Accounted(results[l], call, Tail(queue[l]))
              = Accounted(results[l], Nothing, queue[l])
        BY <1>1, <1>2, <1>8, <2>2, AccountBegun DEF name
      <4> QED BY <1>1, <1>12, <3>1, <3>2, <4>1, <4>2 DEF world
    <3>3. CASE m # l
      BY <1>0, <1>1, <1>12, <3>1, <3>3 DEF world, SandboxShape
    <3> QED BY <3>2, <3>3
  <2>6. OneResultEach'
    BY <1>1, <2>5 DEF OneResultEach, Accounted, Told, Begun
  <2>7. RunsAllowed'
    BY <1>0, <1>1, <1>6, <1>12, <2>2
    DEF SandboxInv, SandboxShape, RunsAllowed, PolicyFor, world
  <2>8. ResultsTrue'
    BY <1>1, <1>12, TruthfulStays DEF world
  <2>9. SandboxShape'
    BY <1>0, <1>1, <1>4, <1>8, <1>12, <2>4 DEF SandboxShape, world
  <2>10. (SandboxTypeOK /\ OrphansCancelled)'
    BY <1>0, <1>1, <1>3, <1>12, <2>2
    DEF SandboxInv, SandboxShape, SandboxTypeOK, OrphansCancelled, world
  <2>11. NothingLeftBehind'
    <3>1. This(l)' = This(l)
      BY <1>12 DEF This
    <3>2. \A c : c = This(l) => DirKnown(c)'
      BY <1>8, <2>2, <2>4, <3>1 DEF DirKnown
    <3>3. \A c \in workdirs' : (c \in workdirs /\ c # This(l)) \/ DirKnown(c)'
      BY <1>12, <3>2
    <3>4. ASSUME NEW c \in containers'
          PROVE  (c \in containers /\ c # This(l)) \/ ContainerKnown(c)'
      <4>1. ContainerKnown(c) /\ c \in containers
        BY <1>1, <3>4, NothingLeftBehindKnown DEF SandboxInv
      <4>2. ASSUME c = This(l) PROVE ContainerKnown(c)'
        <5>1. running[l].at # "container"
          BY <1>1 DEF Nothing
        <5>2. /\ c[2] \in DOMAIN results[l] /\ c[1] = l
              /\ ~results[l][c[2]].ok /\ results[l][c[2]].how \in {"unremoved", "created"}
          BY <1>3, <1>8, <4>1, <4>2, <5>1 DEF ContainerKnown
        <5> QED BY <1>12, <5>2 DEF ContainerKnown
      <4> QED BY <4>1, <4>2
    <3>5. /\ docker' = docker /\ cancelled \subseteq cancelled' /\ stuck \subseteq stuck'
          /\ \A m \in Lanes \ {l} : running'[m] = running[m] /\ results'[m] = results[m]
          /\ \A i \in DOMAIN results[l] :
               i \in DOMAIN results'[l] /\ results'[l][i] = results[l][i]
      BY <1>0, <1>1, <1>12 DEF world, SandboxShape
    <3> QED BY <3>3, <3>4, <3>5, LeftOversKept
  <2> QED BY <2>6, <2>7, <2>8, <2>9, <2>10, <2>11 DEF SandboxInv
<1> QED BY <1>7, <1>10, <1>11, <1>12

\* A lane that gets its answer, with the directory removed as far as the disk
\* allows, is accounted for once its container is.
LEMMA AnsweredKeeps ==
  ASSUME SandboxInv, NEW l \in Lanes, running[l] # Nothing,
         NEW ok \in BOOLEAN, NEW error \in Errors, NEW how \in Ways,
         Truthful(Result(running[l].tool, ok, error, how)),
         Answer(l, ok, error, how), UNCHANGED <<world, queue, orphans, cancelled>>,
         stuck \subseteq stuck', workdirs' \subseteq workdirs,
         \A c \in workdirs' : (c \in workdirs /\ c # This(l)) \/ DirKnown(c)',
         containers' \subseteq containers \cup {This(l)},
         This(l) \in containers' => ~ok /\ how \in {"unremoved", "created"}
  PROVE  SandboxInv'
<1>0. SandboxShape
  BY DEF SandboxInv
<1>1. /\ running' = [running EXCEPT ![l] = Nothing]
      /\ results' = [results EXCEPT ![l] =
                       Append(@, Result(running[l].tool, ok, error, how))]
      /\ Result(running[l].tool, ok, error, how) \in Results
      /\ running' \in [Lanes -> {Nothing} \cup Underway]
      /\ results' \in [Lanes -> Seq(Results)]
      /\ OneResultEach' /\ ResultsTrue' /\ RunsAllowed'
  BY LaneAnswered
<1> DEFINE r == Result(running[l].tool, ok, error, how)
<1>2. r \in Results /\ r.ok = ok /\ r.how = how
  BY <1>1 DEF Result
<1>3. results' = [results EXCEPT ![l] = Append(@, r)]
  BY <1>1
<1> HIDE DEF r
<1>4. /\ This(l) \in Lanes \X Nat /\ This(l)[1] = l /\ This(l)[2] = Len(results[l]) + 1
      /\ results[l] \in Seq(Results) /\ results'[l] = Append(results[l], r)
      /\ \A m \in Lanes \ {l} : running'[m] = running[m] /\ results'[m] = results[m]
  <2>1. This(l) \in Lanes \X Nat /\ This(l)[1] = l /\ This(l)[2] = Len(results[l]) + 1
    BY <1>0, ThisType
  <2>2. /\ results[l] \in Seq(Results) /\ results'[l] = Append(results[l], r)
        /\ \A m \in Lanes \ {l} : results'[m] = results[m]
    BY <1>0, <1>3 DEF SandboxShape
  <2>3. \A m \in Lanes \ {l} : running'[m] = running[m]
    BY <1>0, <1>1 DEF SandboxShape
  <2> QED BY <2>1, <2>2, <2>3
<1>5. /\ \A i \in DOMAIN results[l] : i \in DOMAIN results'[l] /\ results'[l][i] = results[l][i]
      /\ This(l)[2] \in DOMAIN results'[l] /\ results'[l][This(l)[2]] = r
  BY <1>2, <1>4, ResultsGrow
<1>6. \A c \in containers' : c = This(l) => ContainerKnown(c)'
  BY <1>2, <1>4, <1>5 DEF ContainerKnown
<1>7. NothingLeftBehind'
  <2>1. \A c \in containers' : (c \in containers /\ c # This(l)) \/ ContainerKnown(c)'
    BY <1>6
  <2>2. docker' = docker /\ cancelled \subseteq cancelled'
    BY DEF world
  <2> QED BY <1>4, <1>5, <2>1, <2>2, LeftOversKept
<1>8. SandboxShape'
  BY <1>0, <1>1, <1>4 DEF SandboxShape, world
<1>9. (SandboxTypeOK /\ OrphansCancelled)'
  BY <1>0, <1>1
  DEF SandboxInv, SandboxShape, SandboxTypeOK, OrphansCancelled, world, Nothing
<1> QED BY <1>1, <1>7, <1>8, <1>9 DEF SandboxInv

\* A lane with a tool under way has no container.
LEMMA NoContainerYet ==
  ASSUME SandboxInv, NEW l \in Lanes, running[l] # Nothing, running[l].at # "container"
  PROVE  This(l) \notin containers
<1>0. SandboxShape
  BY DEF SandboxInv
<1>1. l \notin cancelled
  BY DEF SandboxInv, SandboxTypeOK
<1>2. SUFFICES ASSUME This(l) \in containers PROVE FALSE
  OBVIOUS
<1>3. This(l)[1] = l /\ This(l)[2] = Len(results[l]) + 1 /\ Len(results[l]) \in Nat
      /\ DOMAIN results[l] = 1 .. Len(results[l])
  BY <1>0, ThisType DEF SandboxShape
<1>4. This(l)[2] \in DOMAIN results[l]
  BY <1>1, <1>2, <1>3, NothingLeftBehindKnown DEF SandboxInv, ContainerKnown
<1> QED BY <1>3, <1>4

\* A tool in this process ends by itself or by its timer.
LEMMA ToolEndsKeeps ==
  ASSUME SandboxInv, NEW l \in Lanes, ToolEnds(l) \/ Timer(l)
  PROVE  SandboxInv'
<1>0. SandboxShape /\ running[l].at = "tool"
  BY DEF SandboxInv, ToolEnds, Timer
<1>1. running[l] # Nothing /\ running[l] \in Underway
  BY <1>0 DEF SandboxShape, Nothing
<1>2. UNCHANGED <<world, queue, containers, orphans, cancelled>>
  BY DEF ToolEnds, Timer
<1>3. This(l) \notin containers
  BY <1>0, <1>1, NoContainerYet
<1>4. \E ok \in BOOLEAN, error \in {"", "tool", "resource"},
         how \in {"returned", "late", "raised", "own timeout", "overran", "unrestored"} :
        /\ Answer(l, ok, error, how)
        /\ ok <=> how \in {"returned", "late"}
        /\ error = "resource" => how \in {"own timeout", "overran"}
  BY DEF ToolEnds, Timer
<1>5. PICK ok \in BOOLEAN, error \in {"", "tool", "resource"},
           how \in {"returned", "late", "raised", "own timeout", "overran", "unrestored"} :
        /\ Answer(l, ok, error, how)
        /\ ok <=> how \in {"returned", "late"}
        /\ error = "resource" => how \in {"own timeout", "overran"}
  BY <1>4
<1>6. Truthful(Result(running[l].tool, ok, error, how))
  BY <1>1, <1>5 DEF Truthful, Result, SandboxInv, RunsAllowed
<1>7. RemoveDir(This(l)) \/ (stuck' = stuck \cup {This(l)} /\ workdirs' = workdirs)
  BY DEF ToolEnds, Timer
<1>8. RemoveDir(This(l))
  BY <1>7 DEF RemoveDir
<1>9. /\ stuck \subseteq stuck' /\ workdirs' \subseteq workdirs
      /\ \A c \in workdirs' : (c \in workdirs /\ c # This(l)) \/ DirKnown(c)'
  BY <1>8, RemoveDirKept
<1>10. error \in Errors /\ how \in Ways
  BY DEF Errors, Ways
<1> QED BY <1>1, <1>2, <1>3, <1>5, <1>6, <1>9, <1>10, AnsweredKeeps

\* The end of a worker thread whose call was cancelled changes no result; its
\* container may stay, as the cancellation took away who would tell.
LEMMA OrphanEndsKeeps ==
  ASSUME SandboxInv, NEW l \in Lanes, l \in orphans, orphans' = orphans \ {l},
         UNCHANGED <<world, queue, running, results, workdirs, stuck, cancelled>>,
         containers' \subseteq containers \cup {This(l)}
  PROVE  SandboxInv'
<1>0. SandboxShape /\ l \in cancelled
  BY DEF SandboxInv, OrphansCancelled
<1>1. OneResultEach' /\ ResultsTrue' /\ RunsAllowed'
  BY LanesUntouched
<1>2. This(l) \in Lanes \X Nat /\ This(l)[1] = l /\ This(l)' = This(l)
  BY <1>0, ThisType DEF This
<1>3. NothingLeftBehind'
  <2>1. \A c : c = This(l) => ContainerKnown(c)'
    BY <1>0, <1>2 DEF ContainerKnown
  <2>2. \A c \in containers' : (c \in containers /\ c # This(l)) \/ ContainerKnown(c)'
    BY <2>1
  <2>3. \A c \in workdirs' : DirKnown(c)'
    <3>1. \A c \in workdirs : DirKnown(c)
      BY NothingLeftBehindKnown DEF SandboxInv
    <3> QED BY <3>1 DEF DirKnown, This, world
  <2>4. docker' = docker
    BY DEF world
  <2> QED BY <2>2, <2>3, <2>4, LeftOversKept
<1>4. SandboxShape'
  BY <1>0, <1>2 DEF SandboxShape, world
<1>5. (SandboxTypeOK /\ OrphansCancelled)'
  BY <1>0
  DEF SandboxInv, SandboxTypeOK, OrphansCancelled, world
<1> QED BY <1>1, <1>3, <1>4, <1>5 DEF SandboxInv

\* A worker thread ends: its call is answered, or was cancelled.
LEMMA ThreadEndsKeeps ==
  ASSUME SandboxInv, NEW l \in Lanes, l \notin orphans => running[l] # Nothing,
         NEW ok \in BOOLEAN, NEW error \in Errors, NEW how \in Ways,
         ok <=> how = "returned", error = "resource" => how = "overran", how \notin {"refused", "late"},
         ThreadEnds(l, ok, error, how), UNCHANGED <<world, queue, cancelled>>,
         containers' \subseteq containers \cup {This(l)},
         This(l) \in containers' => how \in {"unremoved", "created"}
  PROVE  SandboxInv'
<1>1. CASE l \in orphans
  <2>1. orphans' = orphans \ {l} /\ UNCHANGED <<running, results, workdirs, stuck>>
    BY <1>1 DEF ThreadEnds
  <2> QED BY <1>1, <2>1, OrphanEndsKeeps
<1>2. CASE l \notin orphans
  <2>1. Answer(l, ok, error, how) /\ RemoveDir(This(l)) /\ UNCHANGED orphans
    BY <1>2 DEF ThreadEnds
  <2>2. /\ stuck \subseteq stuck' /\ workdirs' \subseteq workdirs
        /\ \A c \in workdirs' : (c \in workdirs /\ c # This(l)) \/ DirKnown(c)'
    BY <2>1, RemoveDirKept
  <2>3. how \in {"returned", "late"} <=> ok
    OBVIOUS
  <2>4. Truthful(Result(running[l].tool, ok, error, how))
    BY <1>2, <2>3 DEF Truthful, Result, SandboxInv, RunsAllowed
  <2> QED BY <1>2, <2>1, <2>2, <2>4, AnsweredKeeps
<1> QED BY <1>1, <1>2

\* A container that has been started is watched, and one that is not leaves its
\* call answered.
LEMMA StartContainerKeeps ==
  ASSUME SandboxInv, NEW l \in Lanes, StartContainer(l)
  PROVE  SandboxInv'
<1>0. /\ SandboxShape /\ UNCHANGED <<world, queue, cancelled>>
      /\ running[l].at = "thread" \/ (l \in orphans /\ This(l) \notin containers)
  BY DEF SandboxInv, StartContainer
<1>1. l \in orphans => running[l] = Nothing /\ l \in cancelled
  BY DEF SandboxInv, SandboxTypeOK, OrphansCancelled
<1>2. /\ l \notin orphans => running[l] # Nothing
      /\ running[l] # Nothing => running[l].at = "thread" /\ running[l] \in Underway /\ docker
      /\ This(l) \notin containers
  <2>1. CASE running[l].at = "thread"
    <3>1. running[l] # Nothing /\ running[l] \in Underway /\ docker
      BY <1>0, <2>1 DEF SandboxInv, SandboxShape, SandboxTypeOK, Nothing
    <3> QED BY <2>1, <3>1, NoContainerYet
  <2>2. CASE l \in orphans /\ This(l) \notin containers
    BY <1>1, <2>2
  <2> QED BY <1>0, <2>1, <2>2
<1>3. ASSUME NEW how \in {"not started", "created"}, ThreadEnds(l, FALSE, "tool", how),
             containers' = IF how = "created" THEN containers \cup {This(l)} ELSE containers
      PROVE  SandboxInv'
  <2>1. how \in Ways /\ "tool" \in Errors /\ FALSE \in BOOLEAN
    BY DEF Ways, Errors
  <2>2. /\ containers' \subseteq containers \cup {This(l)}
        /\ This(l) \in containers' => how \in {"unremoved", "created"}
        /\ how # "returned" /\ how # "late" /\ how # "refused"
    BY <1>2, <1>3
  <2> QED BY <1>0, <1>2, <1>3, <2>1, <2>2, ThreadEndsKeeps
<1>4. CASE /\ containers' = containers \cup {This(l)}
           /\ IF l \in orphans
              THEN workdirs' = workdirs \cup {This(l)} /\ UNCHANGED running
              ELSE running' = [running EXCEPT ![l].at = "container"] /\ UNCHANGED workdirs
           /\ UNCHANGED <<results, orphans, stuck>>
  <2> DEFINE call == IF l \in orphans THEN Nothing
                     ELSE [running[l] EXCEPT !.at = "container"]
  <2>1. running' = [running EXCEPT ![l] = call]
    BY <1>0, <1>1, <1>4 DEF SandboxShape
  <2>2. /\ call \in {Nothing} \cup Underway /\ (call = Nothing <=> running[l] = Nothing)
        /\ call # Nothing => call.tool = running[l].tool /\ call.at = "container" /\ docker
        /\ call = Nothing => l \in orphans
    <3>1. CASE l \in orphans
      BY <1>1, <3>1 DEF Nothing
    <3>2. CASE l \notin orphans
      <4>1. running[l] \in Underway /\ docker
        BY <1>2, <3>2
      <4>2. call = [running[l] EXCEPT !.at = "container"]
        BY <3>2
      <4>3. call \in Underway /\ call.tool = running[l].tool /\ call.at = "container"
        BY <4>1, <4>2 DEF Underway
      <4> QED BY <1>2, <3>2, <4>1, <4>3 DEF Nothing
    <3> QED BY <3>1, <3>2
  <2> HIDE DEF call
  <2>3. running' \in [Lanes -> {Nothing} \cup Underway] /\ running'[l] = call
        /\ \A m \in Lanes \ {l} : running'[m] = running[m]
    BY <1>0, <2>1, <2>2 DEF SandboxShape
  <2>4. \A m \in Lanes : Begun(running'[m]) = Begun(running[m])
    BY <1>0, <2>1, <2>2 DEF Begun, SandboxShape
  <2>5. OneResultEach'
    <3>1. ASSUME NEW m \in Lanes \ cancelled
          PROVE  Accounted(results'[m], running'[m], queue'[m]) = asked'[m]
      BY <1>0, <1>4, <2>4, OneResultEachAccounts DEF SandboxInv, Accounted, world
    <3> QED BY <1>0, <3>1 DEF OneResultEach, Accounted, Told, Begun
  <2>6. ResultsTrue'
    BY <1>0, <1>4, TruthfulStays DEF world
  <2>7. RunsAllowed'
    BY <1>0, <2>1, <2>2 DEF SandboxInv, SandboxShape, RunsAllowed, PolicyFor, world
  <2>8. This(l) \in Lanes \X Nat /\ This(l)[1] = l /\ This(l)' = This(l)
    BY <1>0, <1>4, ThisType DEF This
  <2>9. SandboxShape'
    BY <1>0, <1>4, <2>3, <2>8 DEF SandboxShape, world
  <2>10. (SandboxTypeOK /\ OrphansCancelled)'
    BY <1>0, <1>1, <1>4, <2>1, <2>2
    DEF SandboxInv, SandboxShape, SandboxTypeOK, OrphansCancelled, world, Nothing
  <2>11. NothingLeftBehind'
    <3>1. \A c : c = This(l) => ContainerKnown(c)'
      BY <1>0, <1>1, <2>2, <2>3, <2>8 DEF ContainerKnown
    <3>2. ASSUME NEW c \in workdirs'
          PROVE  (c \in workdirs /\ c # This(l)) \/ DirKnown(c)'
      <4>1. CASE c # This(l)
        BY <1>4, <3>2, <4>1
      <4>2. CASE c = This(l) /\ l \in orphans
        <5>1. docker
          BY <4>2 DEF SandboxInv, OrphansCancelled
        <5> QED BY <1>0, <1>1, <2>8, <4>2, <5>1 DEF DirKnown, world
      <4>3. CASE c = This(l) /\ l \notin orphans
        BY <1>2, <2>2, <2>3, <2>8, <4>3 DEF DirKnown
      <4> QED BY <4>1, <4>2, <4>3
    <3>3. \A c \in containers' : (c \in containers /\ c # This(l)) \/ ContainerKnown(c)'
      BY <1>4, <3>1
    <3>4. /\ docker' = docker /\ cancelled \subseteq cancelled' /\ stuck \subseteq stuck'
          /\ \A m \in Lanes \ {l} : running'[m] = running[m] /\ results'[m] = results[m]
          /\ \A i \in DOMAIN results[l] :
               i \in DOMAIN results'[l] /\ results'[l][i] = results[l][i]
      BY <1>0, <1>4, <2>3 DEF world
    <3> QED BY <3>2, <3>3, <3>4, LeftOversKept
  <2> QED BY <2>5, <2>6, <2>7, <2>9, <2>10, <2>11 DEF SandboxInv
<1>5. \/ ThreadEnds(l, FALSE, "tool", "not started") /\ UNCHANGED containers
      \/ ThreadEnds(l, FALSE, "tool", "created") /\ containers' = containers \cup {This(l)}
      \/ /\ containers' = containers \cup {This(l)}
         /\ IF l \in orphans
            THEN workdirs' = workdirs \cup {This(l)} /\ UNCHANGED running
            ELSE running' = [running EXCEPT ![l].at = "container"] /\ UNCHANGED workdirs
         /\ UNCHANGED <<results, orphans, stuck>>
  BY DEF StartContainer
<1> QED BY <1>3, <1>4, <1>5

\* A container ends in one of several ways, and is removed, or its result tells.
LEMMA ContainerEndsKeeps ==
  ASSUME SandboxInv, NEW l \in Lanes, ContainerEnds(l)
  PROVE  SandboxInv'
<1>0. /\ SandboxShape /\ This(l) \in containers
      /\ UNCHANGED <<world, queue, cancelled>>
      /\ l \notin orphans => running[l] # Nothing
  BY DEF SandboxInv, ContainerEnds, Nothing
<1>1. CASE /\ \E how \in DOMAIN HowEnded : ThreadEnds(l, how = "returned", HowEnded[how], how)
           /\ containers' = containers \ {This(l)}
  <2>1. PICK how \in DOMAIN HowEnded : ThreadEnds(l, how = "returned", HowEnded[how], how)
    BY <1>1
  <2>2. how \in {"returned", "exit", "overran", "failed"}
    BY <2>1 DEF HowEnded
  <2>3. /\ HowEnded["returned"] = "" /\ HowEnded["exit"] = "exit"
        /\ HowEnded["overran"] = "resource" /\ HowEnded["failed"] = "tool"
    BY DEF HowEnded
  <2>4. /\ HowEnded[how] \in Errors /\ how \in Ways /\ how # "refused" /\ how # "late"
        /\ HowEnded[how] = "resource" => how = "overran"
    BY <2>2, <2>3 DEF Errors, Ways
  <2>5. PICK ok \in BOOLEAN, error \in Errors :
          /\ ThreadEnds(l, ok, error, how) /\ (ok <=> how = "returned")
          /\ error = "resource" => how = "overran"
    BY <2>1, <2>4
  <2>6. /\ containers' \subseteq containers \cup {This(l)}
        /\ This(l) \notin containers'
    BY <1>1
  <2> QED BY <1>0, <2>4, <2>5, <2>6, ThreadEndsKeeps
<1>2. CASE /\ ThreadEnds(l, FALSE, "tool", "unremoved")
           /\ containers' \in {containers, containers \ {This(l)}}
  <2>1. "unremoved" \in Ways /\ "tool" \in Errors /\ FALSE \in BOOLEAN
    BY DEF Ways, Errors
  <2>2. containers' \subseteq containers \cup {This(l)}
    BY <1>2
  <2> QED BY <1>0, <1>2, <2>1, <2>2, ThreadEndsKeeps
<1> QED BY <1>1, <1>2 DEF ContainerEnds

\* A cancelled lane leaves at most a worker thread, which has its container.
LEMMA CancelKeeps ==
  ASSUME SandboxInv, NEW l \in Lanes, Cancel(l)
  PROVE  SandboxInv'
<1>0. SandboxShape /\ running[l] # Nothing
  BY DEF SandboxInv, Cancel
<1>1. /\ cancelled' = cancelled \cup {l}
      /\ \/ orphans' = orphans
         \/ running[l].at # "tool" /\ orphans' = orphans \cup {l}
      /\ RemoveDir(This(l))
      /\ running' = [running EXCEPT ![l] = Nothing]
      /\ queue' = [queue EXCEPT ![l] = << >>]
      /\ UNCHANGED <<world, containers, results>>
  BY DEF Cancel
<1>2. /\ stuck \subseteq stuck' /\ workdirs' \subseteq workdirs
      /\ \A c \in workdirs' : (c \in workdirs /\ c # This(l)) \/ DirKnown(c)'
  BY <1>1, RemoveDirKept
<1>3. SandboxShape'
  BY <1>0, <1>1, <1>2 DEF SandboxShape, world
<1>4. (SandboxTypeOK /\ OrphansCancelled)'
  <2>1. SandboxTypeOK'
    BY <1>0, <1>1 DEF SandboxInv, SandboxShape, SandboxTypeOK, world, Nothing
  <2>2. OrphansCancelled'
    BY <1>0, <1>1 DEF SandboxInv, SandboxShape, SandboxTypeOK, OrphansCancelled, world
  <2> QED BY <2>1, <2>2
<1>5. NothingLeftBehind'
  <2>1. This(l)[1] = l /\ This(l)' = This(l)
    BY <1>0, <1>1, ThisType DEF This
  <2>2. \A c : c = This(l) => ContainerKnown(c)'
    BY <1>1, <2>1 DEF ContainerKnown
  <2>3. \A c \in containers' : (c \in containers /\ c # This(l)) \/ ContainerKnown(c)'
    BY <1>1, <2>2
  <2>4. /\ docker' = docker /\ cancelled \subseteq cancelled'
        /\ \A m \in Lanes \ {l} : running'[m] = running[m] /\ results'[m] = results[m]
        /\ \A i \in DOMAIN results[l] :
             i \in DOMAIN results'[l] /\ results'[l][i] = results[l][i]
    BY <1>0, <1>1 DEF world, SandboxShape
  <2> QED BY <1>2, <2>3, <2>4, LeftOversKept
<1>6. OneResultEach'
  BY <1>0, <1>1 DEF SandboxInv, SandboxShape, OneResultEach, world
<1>7. ResultsTrue' /\ RunsAllowed'
  <2>1. ResultsTrue'
    BY <1>1, TruthfulStays DEF world
  <2>2. \A m \in Lanes : running'[m] # Nothing => running'[m] = running[m]
    BY <1>0, <1>1 DEF SandboxShape
  <2>3. RunsAllowed'
    BY <1>1, <2>2 DEF SandboxInv, RunsAllowed, PolicyFor, world
  <2> QED BY <2>1, <2>3
<1> QED BY <1>3, <1>4, <1>5, <1>6, <1>7 DEF SandboxInv

\* The invariant of the tool calls.
THEOREM SandboxInvariance == SandboxSpec => []SandboxInv
<1>1. SandboxInv /\ [SandboxNext]_sandboxVars => SandboxInv'
  <2> SUFFICES ASSUME SandboxInv, [SandboxNext]_sandboxVars PROVE SandboxInv'
    OBVIOUS
  <2>1. CASE SandboxNext
    BY <2>1, CallKeeps, ToolEndsKeeps, StartContainerKeeps, ContainerEndsKeeps,
       CancelKeeps
    DEF SandboxNext
  <2>2. CASE UNCHANGED sandboxVars
    <3>1. OneResultEach' /\ ResultsTrue' /\ RunsAllowed'
      BY <2>2, LanesUntouched DEF sandboxVars, world
    <3>2. (SandboxShape /\ SandboxTypeOK /\ OrphansCancelled /\ NothingLeftBehind)'
      BY <2>2
      DEF SandboxInv, SandboxShape, SandboxTypeOK, OrphansCancelled,
          NothingLeftBehind, This, sandboxVars, world
    <3> QED BY <3>1, <3>2 DEF SandboxInv
  <2> QED BY <2>1, <2>2
<1> QED BY <1>1, SandboxStart, PTL DEF SandboxSpec

\* However tool calls end, fail, time out or are cancelled, each gives one true
\* result in order; a directory is left only where its removal failed or a
\* cancelled call's container had it made anew, a container only where the call's
\* result tells or the call was cancelled.
THEOREM SandboxHolds == SandboxSpec => []SandboxSound
<1>1. SandboxInv => SandboxSound
  BY DEF SandboxInv, SandboxSound
<1> QED BY <1>1, SandboxInvariance, PTL

-----------------------------------------------------------------------------
(***************************************************************************)
(* Model calls.  A document's calls and its semaphore come into being      *)
(* together and are its own: what is left of failed tries answers into     *)
(* tasks that no later try reads.                                          *)
(***************************************************************************)

IngestionShape ==
  /\ ingestion \in [try : Tries, doc : Nat \ {0},
                    at : {"chunking", "enriching", "raised", "done"}]
  /\ ingestion.at = "enriching" => ingestion.doc \in DOMAIN Batch
  /\ ingestion.at = "done" => ingestion.doc > Len(Batch)

\* Every semaphore serves all pieces of one document in one try, and no others.
CallsShape ==
  /\ DOMAIN permits \subseteq Tries \X DOMAIN Batch
  /\ DOMAIN contexts = DOMAIN tasks
  /\ \A task \in DOMAIN tasks : \E t \in Tries, d \in DOMAIN Batch :
       \E i \in 1 .. Batch[d] : task = <<t, d, i>> /\ <<t, d>> \in DOMAIN permits
  /\ \A t \in Tries, d \in DOMAIN Batch : <<t, d>> \in DOMAIN permits =>
       \A i \in 1 .. Batch[d] : <<t, d, i>> \in DOMAIN tasks
  /\ IsFiniteSet(DOMAIN tasks)

\* No document has been begun in a try before its turn comes.
BegunInTurn ==
  \A t \in Tries, d \in DOMAIN Batch : <<t, d>> \in DOMAIN permits =>
    \/ t < ingestion.try
    \/ t = ingestion.try /\ d < ingestion.doc
    \/ t = ingestion.try /\ d = ingestion.doc /\ ingestion.at # "chunking"

\* The documents before the present one have all their answers in this try.
EarlierWhole ==
  /\ \A d \in DOMAIN Batch : d < ingestion.doc =>
       \A i \in 1 .. Batch[d] :
         /\ <<ingestion.try, d, i>> \in DOMAIN tasks
         /\ tasks[<<ingestion.try, d, i>>] = "answered"
  /\ ingestion.at = "enriching" => <<ingestion.try, ingestion.doc>> \in DOMAIN permits

\* A semaphore has the permits that the calls under way do not hold.
PermitsConserved ==
  \A t \in Tries, d \in DOMAIN Batch : <<t, d>> \in DOMAIN permits =>
    /\ permits[<<t, d>>] \in Nat
    /\ permits[<<t, d>>] + Cardinality(Calling(t, d)) = MaxConcurrency

\* The index is written once, at the end of the try that got through.
IndexedAtEnd ==
  IF ingestion.at = "done"
  THEN pointsOf = [piece \in AllPieces |-> contexts[TaskOf(ingestion.try, piece)]]
  ELSE pointsOf = << >>

EnrichmentInv == /\ IngestionShape /\ CallsShape /\ BegunInTurn
                 /\ EarlierWhole /\ PermitsConserved /\ IndexedAtEnd

\* The calls under way of a document are finitely many.
LEMMA CallingFinite ==
  ASSUME CallsShape, NEW t, NEW d
  PROVE  IsFiniteSet(Calling(t, d)) /\ Cardinality(Calling(t, d)) \in Nat
<1>1. Calling(t, d) \subseteq DOMAIN tasks
  BY DEF Calling, Ours
<1> QED BY <1>1, FS_Subset, FS_CardinalityType DEF CallsShape

\* A call waits for the semaphore of its own try and document.
LEMMA TaskBegun ==
  ASSUME CallsShape, NEW task \in DOMAIN tasks
  PROVE  <<task[1], task[2]>> \in DOMAIN permits
<1>1. PICK t \in Tries, d \in DOMAIN Batch : \E i \in 1 .. Batch[d] :
        task = <<t, d, i>> /\ <<t, d>> \in DOMAIN permits
  BY DEF CallsShape
<1>2. task[1] = t /\ task[2] = d
  BY <1>1
<1> QED BY <1>1, <1>2

\* Nothing has been called for at first.
LEMMA EnrichmentStart == EnrichmentInit => EnrichmentInv
<1> SUFFICES ASSUME EnrichmentInit PROVE EnrichmentInv
  OBVIOUS
<1>0. DOMAIN << >> = {} /\ IsFiniteSet({})
  BY FS_EmptySet
<1>1. MaxTries \in Nat \ {0} /\ Batch \in Seq(Nat)
  BY EnrichmentAssumption
<1>2. IngestionShape
  BY <1>1 DEF EnrichmentInit, IngestionShape, Tries
<1>3. CallsShape /\ BegunInTurn /\ PermitsConserved
  BY <1>0 DEF EnrichmentInit, CallsShape, BegunInTurn, PermitsConserved
<1>4. EarlierWhole
  <2>1. \A d \in DOMAIN Batch : ~(d < 1)
    BY <1>1
  <2> QED BY <2>1 DEF EnrichmentInit, EarlierWhole
<1>5. IndexedAtEnd
  BY DEF EnrichmentInit, IndexedAtEnd
<1> QED BY <1>2, <1>3, <1>4, <1>5 DEF EnrichmentInv

\* A document's calls are new when they are begun, and so is its semaphore.
LEMMA BeginEnrichKeeps ==
  ASSUME EnrichmentInv, BeginEnrich
  PROVE  EnrichmentInv'
<1> DEFINE t == ingestion.try
           d == ingestion.doc
           new == {TaskOf(t, piece) : piece \in Pieces(d)}
<1>0. /\ Batch \in Seq(Nat) /\ MaxConcurrency \in Nat
      /\ IngestionShape /\ CallsShape /\ BegunInTurn
  BY EnrichmentAssumption DEF EnrichmentInv
<1>1. /\ ingestion.at = "chunking"
      /\ ingestion' = [ingestion EXCEPT !.at = "enriching"]
      /\ tasks' = With(tasks, new, "waiting")
      /\ contexts' = With(contexts, new, "none")
      /\ permits' = With(permits, {<<t, d>>}, MaxConcurrency)
      /\ pointsOf' = pointsOf
      /\ d <= Len(Batch)
  BY DEF BeginEnrich
<1>2. t \in Tries /\ d \in DOMAIN Batch /\ Batch[d] \in Nat /\ t \in Nat /\ d \in Nat
  BY <1>0, <1>1 DEF IngestionShape, Tries
<1>3. \A task : task \in new <=> \E i \in 1 .. Batch[d] : task = <<t, d, i>>
  <2>1. ASSUME NEW task \in new PROVE \E i \in 1 .. Batch[d] : task = <<t, d, i>>
    <3>1. PICK piece \in Pieces(d) : task = TaskOf(t, piece)
      OBVIOUS
    <3>2. PICK i \in 1 .. Batch[d] : piece = <<d, i>>
      BY DEF Pieces
    <3> QED BY <3>1, <3>2 DEF TaskOf
  <2>2. ASSUME NEW i \in 1 .. Batch[d] PROVE <<t, d, i>> \in new
    <3>1. <<d, i>> \in Pieces(d)
      BY DEF Pieces
    <3>2. TaskOf(t, <<d, i>>) = <<t, d, i>>
      BY DEF TaskOf
    <3> QED BY <3>1, <3>2
  <2> HIDE DEF new
  <2> QED BY <2>1, <2>2
<1>4. <<t, d>> \notin DOMAIN permits
  <2>1. /\ ~(t < t) /\ ~(t = t /\ d < d)
        /\ ~(t = t /\ d = d /\ ingestion.at # "chunking")
    BY <1>1, <1>2
  <2> QED BY <1>0, <1>2, <2>1 DEF BegunInTurn
<1>5. /\ ingestion'.try = t /\ ingestion'.doc = d /\ ingestion'.at = "enriching"
      /\ ingestion' \in [try : Tries, doc : Nat \ {0},
                         at : {"chunking", "enriching", "raised", "done"}]
  BY <1>0, <1>1 DEF IngestionShape
<1> HIDE DEF t, d, new
<1>6. /\ DOMAIN tasks' = DOMAIN tasks \cup new
      /\ \A task \in DOMAIN tasks' :
           tasks'[task] = IF task \in new THEN "waiting" ELSE tasks[task]
      /\ DOMAIN contexts' = DOMAIN contexts \cup new
      /\ DOMAIN permits' = DOMAIN permits \cup {<<t, d>>}
      /\ \A td \in DOMAIN permits' :
           permits'[td] = IF td = <<t, d>> THEN MaxConcurrency ELSE permits[td]
  BY <1>1 DEF With
<1>7. \A task \in new : task \notin DOMAIN tasks
  BY <1>0, <1>2, <1>3, <1>4 DEF CallsShape
<1>8. IngestionShape'
  BY <1>2, <1>5 DEF IngestionShape
<1>9. CallsShape'
  <2>1. IsFiniteSet(new)
    <3> DEFINE task == [i \in 1 .. Batch[d] |-> <<t, d, i>>]
    <3>1. task \in Surjection(1 .. Batch[d], new)
      BY <1>3 DEF Surjection
    <3>2. IsFiniteSet(1 .. Batch[d])
      <4>1. Batch[d] \in Int /\ 1 \in Int
        BY <1>2
      <4> QED BY <4>1, FS_Interval
    <3> QED BY <3>1, <3>2, FS_Surjection
  <2>2. IsFiniteSet(DOMAIN tasks \cup new)
    BY <1>0, <2>1, FS_Union DEF CallsShape
  <2>3. DOMAIN permits' \subseteq Tries \X DOMAIN Batch
    BY <1>0, <1>2, <1>6 DEF CallsShape
  <2>4. \A task \in DOMAIN tasks' : \E u \in Tries, e \in DOMAIN Batch :
          \E i \in 1 .. Batch[e] : task = <<u, e, i>> /\ <<u, e>> \in DOMAIN permits'
    BY <1>0, <1>2, <1>3, <1>6 DEF CallsShape
  <2>5. \A u \in Tries, e \in DOMAIN Batch : <<u, e>> \in DOMAIN permits' =>
          \A i \in 1 .. Batch[e] : <<u, e, i>> \in DOMAIN tasks'
    BY <1>0, <1>3, <1>6 DEF CallsShape
  <2> QED BY <1>0, <1>6, <2>2, <2>3, <2>4, <2>5 DEF CallsShape
<1>10. BegunInTurn'
  BY <1>0, <1>1, <1>5, <1>6 DEF BegunInTurn, t, d
<1>11. EarlierWhole'
  <2>1. ASSUME NEW e \in DOMAIN Batch, e < d, NEW i \in 1 .. Batch[e]
        PROVE  <<t, e, i>> \in DOMAIN tasks' /\ tasks'[<<t, e, i>>] = "answered"
    <3>1. <<t, e, i>> \in DOMAIN tasks /\ tasks[<<t, e, i>>] = "answered"
      BY <2>1 DEF EnrichmentInv, EarlierWhole, t, d
    <3> QED BY <1>6, <1>7, <3>1
  <2> QED BY <1>5, <1>6, <2>1 DEF EarlierWhole
<1>12. PermitsConserved'
  <2>1. ASSUME NEW u \in Tries, NEW e \in DOMAIN Batch, <<u, e>> \in DOMAIN permits'
        PROVE  /\ permits'[<<u, e>>] \in Nat
               /\ permits'[<<u, e>>] + Cardinality(Calling(u, e)') = MaxConcurrency
    <3>1. CASE <<u, e>> = <<t, d>>
      <4>1. Calling(u, e)' = {}
        <5>1. ASSUME NEW task \in DOMAIN tasks', task[1] = u, task[2] = e
              PROVE  tasks'[task] = "waiting"
          <6>1. task \notin DOMAIN tasks
            BY <1>4, <3>1, <5>1, TaskBegun DEF EnrichmentInv
          <6> QED BY <1>6, <6>1
        <5> QED BY <5>1 DEF Calling, Ours
      <4> QED BY <1>0, <1>6, <2>1, <3>1, <4>1, FS_EmptySet
    <3>2. CASE <<u, e>> # <<t, d>>
      <4>1. \A task \in new : ~(task[1] = u /\ task[2] = e)
        BY <1>3, <3>2
      <4>2. Calling(u, e)' = Calling(u, e)
        BY <1>6, <1>7, <4>1 DEF Calling, Ours
      <4>3. <<u, e>> \in DOMAIN permits /\ permits'[<<u, e>>] = permits[<<u, e>>]
        BY <1>6, <2>1, <3>2
      <4> QED BY <2>1, <4>2, <4>3 DEF EnrichmentInv, PermitsConserved
    <3> QED BY <3>1, <3>2
  <2> QED BY <2>1 DEF PermitsConserved
<1>13. IndexedAtEnd'
  BY <1>1, <1>5 DEF EnrichmentInv, IndexedAtEnd
<1> QED BY <1>8, <1>9, <1>10, <1>11, <1>12, <1>13 DEF EnrichmentInv

\* A step of one call: the shape stays, and so does what was answered.
LEMMA CallStep ==
  ASSUME EnrichmentInv, NEW task \in DOMAIN tasks, NEW state, NEW n,
         tasks[task] # "answered",
         tasks' = [tasks EXCEPT ![task] = state],
         permits' = [permits EXCEPT ![<<task[1], task[2]>>] = n],
         DOMAIN contexts' = DOMAIN contexts,
         \A other \in DOMAIN tasks \ {task} : contexts'[other] = contexts[other],
         UNCHANGED <<ingestion, pointsOf>>
  PROVE  (IngestionShape /\ CallsShape /\ BegunInTurn /\ EarlierWhole /\ IndexedAtEnd)'
<1>1. DOMAIN tasks' = DOMAIN tasks /\ DOMAIN permits' = DOMAIN permits
  OBVIOUS
<1>2. IngestionShape' /\ CallsShape' /\ BegunInTurn'
  BY <1>1 DEF EnrichmentInv, IngestionShape, CallsShape, BegunInTurn
<1>3. \A other \in DOMAIN tasks : tasks[other] = "answered" => tasks'[other] = "answered"
  OBVIOUS
<1>4. EarlierWhole'
  BY <1>1, <1>3 DEF EnrichmentInv, EarlierWhole
<1>5. IndexedAtEnd'
  <2>1. CASE ingestion.at # "done"
    BY <2>1 DEF EnrichmentInv, IndexedAtEnd
  <2>2. CASE ingestion.at = "done"
    <3>1. ASSUME NEW piece \in AllPieces
          PROVE  contexts'[TaskOf(ingestion.try, piece)]
                   = contexts[TaskOf(ingestion.try, piece)]
      <4>1. PICK d \in DOMAIN Batch : \E i \in 1 .. Batch[d] : piece = <<d, i>>
        BY DEF AllPieces, Pieces
      <4>2. PICK i \in 1 .. Batch[d] : piece = <<d, i>>
        BY <4>1
      <4>3. d < ingestion.doc
        <5>1. Len(Batch) \in Nat /\ d \in 1 .. Len(Batch)
          BY EnrichmentAssumption
        <5> QED BY <2>2, <5>1 DEF EnrichmentInv, IngestionShape
      <4>4. /\ TaskOf(ingestion.try, piece) = <<ingestion.try, d, i>>
            /\ <<ingestion.try, d, i>> \in DOMAIN tasks
            /\ tasks[<<ingestion.try, d, i>>] = "answered"
        BY <4>2, <4>3 DEF TaskOf, EnrichmentInv, EarlierWhole
      <4> QED BY <4>4
    <3> QED BY <2>2, <3>1 DEF EnrichmentInv, IndexedAtEnd
  <2> QED BY <2>1, <2>2
<1> QED BY <1>2, <1>4, <1>5

\* A waiting call takes a permit and is under way.
LEMMA AcquireKeeps ==
  ASSUME EnrichmentInv, NEW t \in Tries, NEW d \in DOMAIN Batch,
         NEW i \in 1 .. Batch[d], Acquire(t, d, i)
  PROVE  EnrichmentInv'
<1> DEFINE task == <<t, d, i>>
<1>0. CallsShape /\ MaxConcurrency \in Nat
  BY EnrichmentAssumption DEF EnrichmentInv
<1>1. /\ task \in DOMAIN tasks /\ tasks[task] = "waiting" /\ permits[<<t, d>>] > 0
      /\ tasks' = [tasks EXCEPT ![task] = "calling"]
      /\ permits' = [permits EXCEPT ![<<t, d>>] = permits[<<t, d>>] - 1]
      /\ UNCHANGED <<ingestion, contexts, pointsOf>>
  BY DEF Acquire
<1>2. task[1] = t /\ task[2] = d
  OBVIOUS
<1> HIDE DEF task
<1>3. (IngestionShape /\ CallsShape /\ BegunInTurn /\ EarlierWhole /\ IndexedAtEnd)'
  <2>1. permits' = [permits EXCEPT ![<<task[1], task[2]>>] = permits[<<t, d>>] - 1]
    BY <1>1, <1>2
  <2> QED BY <1>1, <2>1, CallStep
<1>4. <<t, d>> \in DOMAIN permits
  BY <1>1, <1>2, TaskBegun DEF EnrichmentInv
<1>5. ASSUME NEW u \in Tries, NEW e \in DOMAIN Batch, <<u, e>> \in DOMAIN permits
      PROVE  /\ permits'[<<u, e>>] \in Nat
             /\ permits'[<<u, e>>] + Cardinality(Calling(u, e)') = MaxConcurrency
  <2>0. /\ permits[<<u, e>>] \in Nat
        /\ permits[<<u, e>>] + Cardinality(Calling(u, e)) = MaxConcurrency
    BY <1>5 DEF EnrichmentInv, PermitsConserved
  <2>1. CASE <<u, e>> = <<t, d>>
    <3>1. Calling(u, e)' = Calling(u, e) \cup {task} /\ task \notin Calling(u, e)
      BY <1>1, <1>2, <2>1 DEF Calling, Ours
    <3>2. Cardinality(Calling(u, e)') = Cardinality(Calling(u, e)) + 1
      BY <1>0, <3>1, CallingFinite, FS_AddElement
    <3>3. permits'[<<u, e>>] = permits[<<u, e>>] - 1 /\ permits[<<u, e>>] > 0
      BY <1>1, <1>4, <2>1
    <3> QED BY <1>0, <2>0, <3>2, <3>3, CallingFinite
  <2>2. CASE <<u, e>> # <<t, d>>
    <3>1. Calling(u, e)' = Calling(u, e)
      BY <1>1, <1>2, <2>2 DEF Calling, Ours
    <3>2. permits'[<<u, e>>] = permits[<<u, e>>]
      BY <1>1, <1>5, <2>2
    <3> QED BY <2>0, <3>1, <3>2
  <2> QED BY <2>1, <2>2
<1>6. PermitsConserved'
  BY <1>1, <1>5 DEF PermitsConserved
<1> QED BY <1>3, <1>6 DEF EnrichmentInv

\* A call that comes back, with an answer or without, gives its permit back.
LEMMA ComeBackKeeps ==
  ASSUME EnrichmentInv, NEW task \in DOMAIN tasks, ComeBack(task)
  PROVE  EnrichmentInv'
<1>0. CallsShape /\ MaxConcurrency \in Nat
  BY EnrichmentAssumption DEF EnrichmentInv
<1>1. PICK t \in Tries, d \in DOMAIN Batch : \E i \in 1 .. Batch[d] :
        task = <<t, d, i>> /\ <<t, d>> \in DOMAIN permits
  BY <1>0 DEF CallsShape
<1>2. task[1] = t /\ task[2] = d /\ <<t, d>> \in DOMAIN permits
  BY <1>1
<1>3. PICK state \in {"answered", "failed"} :
        /\ tasks[task] = "calling"
        /\ tasks' = [tasks EXCEPT ![task] = state]
        /\ permits' = [permits EXCEPT ![<<task[1], task[2]>>] = @ + 1]
        /\ DOMAIN contexts' = DOMAIN contexts
        /\ \A other \in DOMAIN tasks \ {task} : contexts'[other] = contexts[other]
        /\ UNCHANGED <<ingestion, pointsOf>>
  <2>1. CASE FailContext(task)
    BY <2>1 DEF FailContext
  <2>2. ASSUME NEW blank \in BOOLEAN, AnswerContext(task, blank)
        PROVE  /\ tasks[task] = "calling"
               /\ tasks' = [tasks EXCEPT ![task] = "answered"]
               /\ permits' = [permits EXCEPT ![<<task[1], task[2]>>] = @ + 1]
               /\ DOMAIN contexts' = DOMAIN contexts
               /\ \A other \in DOMAIN tasks \ {task} : contexts'[other] = contexts[other]
               /\ UNCHANGED <<ingestion, pointsOf>>
    BY <1>0, <2>2 DEF AnswerContext, CallsShape
  <2> QED BY <2>1, <2>2 DEF ComeBack
<1>4. (IngestionShape /\ CallsShape /\ BegunInTurn /\ EarlierWhole /\ IndexedAtEnd)'
  BY <1>3, CallStep
<1>5. ASSUME NEW u \in Tries, NEW e \in DOMAIN Batch, <<u, e>> \in DOMAIN permits
      PROVE  /\ permits'[<<u, e>>] \in Nat
             /\ permits'[<<u, e>>] + Cardinality(Calling(u, e)') = MaxConcurrency
  <2>0. /\ permits[<<u, e>>] \in Nat
        /\ permits[<<u, e>>] + Cardinality(Calling(u, e)) = MaxConcurrency
    BY <1>5 DEF EnrichmentInv, PermitsConserved
  <2>1. CASE <<u, e>> = <<t, d>>
    <3>1. Calling(u, e)' = Calling(u, e) \ {task} /\ task \in Calling(u, e)
      BY <1>2, <1>3, <2>1 DEF Calling, Ours
    <3>2. Cardinality(Calling(u, e)') = Cardinality(Calling(u, e)) - 1
      BY <1>0, <3>1, CallingFinite, FS_RemoveElement
    <3>3. permits'[<<u, e>>] = permits[<<u, e>>] + 1
      BY <1>2, <1>3, <2>1
    <3> QED BY <1>0, <2>0, <3>2, <3>3, CallingFinite
  <2>2. CASE <<u, e>> # <<t, d>>
    <3>1. Calling(u, e)' = Calling(u, e)
      BY <1>2, <1>3, <2>2 DEF Calling, Ours
    <3>2. permits'[<<u, e>>] = permits[<<u, e>>]
      BY <1>2, <1>3, <1>5, <2>2
    <3> QED BY <2>0, <3>1, <3>2
  <2> QED BY <2>1, <2>2
<1>6. PermitsConserved'
  BY <1>3, <1>5 DEF PermitsConserved
<1> QED BY <1>4, <1>6 DEF EnrichmentInv

\* The ingestion goes on to the next document once this one is whole, fails, or
\* writes the index when all documents are.
LEMMA IngestionKeeps ==
  ASSUME EnrichmentInv, EndEnrich \/ EndIngest \/ TryAgain
  PROVE  EnrichmentInv'
<1>0. /\ IngestionShape /\ CallsShape /\ Batch \in Seq(Nat) /\ MaxTries \in Nat
      /\ UNCHANGED <<tasks, permits, contexts>>
  BY EnrichmentAssumption DEF EnrichmentInv, EndEnrich, EndIngest, TryAgain
<1>1. CallsShape' /\ PermitsConserved'
  <2>1. CallsShape'
    BY <1>0 DEF CallsShape
  <2>2. PermitsConserved'
    BY <1>0 DEF EnrichmentInv, PermitsConserved, Calling, Ours
  <2> QED BY <2>1, <2>2
<1>2. /\ ingestion.try \in Tries /\ ingestion.try \in Nat
      /\ ingestion.doc \in Nat /\ \A d \in DOMAIN Batch : d \in Nat
  BY <1>0 DEF IngestionShape, Tries
<1>3. CASE /\ ingestion.at = "enriching" /\ pointsOf' = pointsOf
           /\ Gathered(ingestion.try, ingestion.doc) = "whole"
           /\ ingestion' = [ingestion EXCEPT !.at = "chunking", !.doc = @ + 1]
  <2>1. /\ ingestion'.try = ingestion.try /\ ingestion'.doc = ingestion.doc + 1
        /\ ingestion'.at = "chunking"
        /\ ingestion' \in [try : Tries, doc : Nat \ {0},
                           at : {"chunking", "enriching", "raised", "done"}]
    <3>1. ingestion.doc + 1 \in Nat \ {0}
      BY <1>2
    <3> QED BY <1>0, <1>3, <3>1 DEF IngestionShape
  <2>2. IngestionShape' /\ IndexedAtEnd'
    BY <1>3, <2>1 DEF EnrichmentInv, IngestionShape, IndexedAtEnd
  <2>3. BegunInTurn'
    BY <1>0, <1>2, <2>1 DEF EnrichmentInv, BegunInTurn
  <2>4. EarlierWhole'
    <3>1. <<ingestion.try, ingestion.doc>> \in DOMAIN permits /\ ingestion.doc \in DOMAIN Batch
      BY <1>0, <1>3 DEF EnrichmentInv, EarlierWhole, IngestionShape
    <3>2. ASSUME NEW i \in 1 .. Batch[ingestion.doc]
          PROVE  /\ <<ingestion.try, ingestion.doc, i>> \in DOMAIN tasks
                 /\ tasks[<<ingestion.try, ingestion.doc, i>>] = "answered"
      <4>1. <<ingestion.try, ingestion.doc, i>> \in DOMAIN tasks
        BY <1>0, <1>2, <3>1 DEF CallsShape
      <4>2. <<ingestion.try, ingestion.doc, i>> \in Ours(ingestion.try, ingestion.doc)
        BY <4>1 DEF Ours
      <4> QED BY <1>3, <4>1, <4>2 DEF Gathered
    <3>3. ASSUME NEW d \in DOMAIN Batch, d < ingestion'.doc, NEW i \in 1 .. Batch[d]
          PROVE  /\ <<ingestion'.try, d, i>> \in DOMAIN tasks'
                 /\ tasks'[<<ingestion'.try, d, i>>] = "answered"
      <4>1. d < ingestion.doc \/ d = ingestion.doc
        BY <1>2, <2>1, <3>3
      <4> QED BY <1>0, <2>1, <3>2, <4>1 DEF EnrichmentInv, EarlierWhole
    <3> QED BY <2>1, <3>3 DEF EarlierWhole
  <2> QED BY <1>1, <2>2, <2>3, <2>4 DEF EnrichmentInv
<1>4. CASE /\ ingestion.at \in {"enriching", "chunking"} /\ pointsOf' = pointsOf
           /\ ingestion' = [ingestion EXCEPT !.at = "raised"]
  <2>1. /\ ingestion'.try = ingestion.try /\ ingestion'.doc = ingestion.doc
        /\ ingestion'.at = "raised"
        /\ ingestion' \in [try : Tries, doc : Nat \ {0},
                           at : {"chunking", "enriching", "raised", "done"}]
    BY <1>0, <1>4 DEF IngestionShape
  <2>2. IngestionShape' /\ IndexedAtEnd'
    BY <1>4, <2>1 DEF EnrichmentInv, IngestionShape, IndexedAtEnd
  <2>3. BegunInTurn'
    BY <1>0, <2>1 DEF EnrichmentInv, BegunInTurn
  <2>4. EarlierWhole'
    BY <1>0, <2>1 DEF EnrichmentInv, EarlierWhole
  <2> QED BY <1>1, <2>2, <2>3, <2>4 DEF EnrichmentInv
<1>5. CASE /\ ingestion.at = "chunking" /\ ingestion.doc > Len(Batch)
           /\ ingestion' = [ingestion EXCEPT !.at = "done"]
           /\ pointsOf' = [piece \in AllPieces |-> contexts[TaskOf(ingestion.try, piece)]]
  <2>1. /\ ingestion'.try = ingestion.try /\ ingestion'.doc = ingestion.doc
        /\ ingestion'.at = "done"
        /\ ingestion' \in [try : Tries, doc : Nat \ {0},
                           at : {"chunking", "enriching", "raised", "done"}]
    BY <1>0, <1>5 DEF IngestionShape
  <2>2. IngestionShape' /\ IndexedAtEnd'
    BY <1>0, <1>5, <2>1 DEF IngestionShape, IndexedAtEnd
  <2>3. BegunInTurn'
    BY <1>0, <2>1 DEF EnrichmentInv, BegunInTurn
  <2>4. EarlierWhole'
    BY <1>0, <2>1 DEF EnrichmentInv, EarlierWhole
  <2> QED BY <1>1, <2>2, <2>3, <2>4 DEF EnrichmentInv
<1>6. CASE TryAgain
  <2>1. /\ ingestion'.try = ingestion.try + 1 /\ ingestion'.doc = 1
        /\ ingestion'.at = "chunking" /\ pointsOf' = pointsOf
        /\ ingestion.at = "raised" /\ ingestion.try < MaxTries
    BY <1>6 DEF TryAgain
  <2>2. IngestionShape' /\ IndexedAtEnd'
    <3>1. ingestion.try + 1 \in Tries
      BY <1>0, <1>2, <2>1 DEF Tries
    <3> QED BY <1>6, <2>1, <3>1 DEF TryAgain, EnrichmentInv, IngestionShape, IndexedAtEnd
  <2>3. BegunInTurn'
    <3>1. ASSUME NEW t \in Tries, NEW d \in DOMAIN Batch, <<t, d>> \in DOMAIN permits
          PROVE  t < ingestion.try + 1
      <4>1. t \in Nat /\ (t < ingestion.try \/ t = ingestion.try)
        BY <3>1 DEF EnrichmentInv, BegunInTurn, Tries
      <4> QED BY <1>2, <4>1
    <3> QED BY <1>0, <2>1, <3>1 DEF BegunInTurn
  <2>4. EarlierWhole'
    <3>1. \A d \in DOMAIN Batch : ~(d < 1)
      BY <1>0
    <3> QED BY <2>1, <3>1 DEF EarlierWhole
  <2> QED BY <1>1, <2>2, <2>3, <2>4 DEF EnrichmentInv
<1> QED BY <1>3, <1>4, <1>5, <1>6 DEF EndEnrich, EndIngest, Gathered

\* Whatever comes next, EnrichmentInv is kept.
LEMMA EnrichmentStep == EnrichmentInv /\ [EnrichmentNext]_enrichVars => EnrichmentInv'
<1> SUFFICES ASSUME EnrichmentInv, [EnrichmentNext]_enrichVars PROVE EnrichmentInv'
  OBVIOUS
<1>1. CASE EnrichmentNext
  BY <1>1, BeginEnrichKeeps, AcquireKeeps, ComeBackKeeps, IngestionKeeps
  DEF EnrichmentNext
<1>2. CASE UNCHANGED enrichVars
  <2>1. (IngestionShape /\ CallsShape /\ BegunInTurn)'
    BY <1>2 DEF enrichVars, EnrichmentInv, IngestionShape, CallsShape, BegunInTurn
  <2>2. (EarlierWhole /\ PermitsConserved /\ IndexedAtEnd)'
    BY <1>2
    DEF enrichVars, EnrichmentInv, EarlierWhole, PermitsConserved, IndexedAtEnd,
        Calling, Ours
  <2> QED BY <2>1, <2>2 DEF EnrichmentInv
<1> QED BY <1>1, <1>2

\* What the runs check of an ingestion follows.
LEMMA EnrichmentInvSound == EnrichmentInv => EnrichmentSound
<1> SUFFICES ASSUME EnrichmentInv PROVE EnrichmentSound
  OBVIOUS
<1>1. EnrichmentTypeOK
  <2>1. ASSUME NEW td \in DOMAIN permits
        PROVE  /\ permits[td] \in 0 .. MaxConcurrency
               /\ permits[td] + Cardinality(Calling(td[1], td[2])) = MaxConcurrency
    <3>1. PICK t \in Tries, d \in DOMAIN Batch : td = <<t, d>>
      BY DEF EnrichmentInv, CallsShape
    <3>2. /\ permits[<<t, d>>] \in Nat
          /\ permits[<<t, d>>] + Cardinality(Calling(t, d)) = MaxConcurrency
      BY <3>1 DEF EnrichmentInv, PermitsConserved
    <3>3. Cardinality(Calling(t, d)) \in Nat /\ td[1] = t /\ td[2] = d
      BY <3>1, CallingFinite DEF EnrichmentInv
    <3>4. MaxConcurrency \in Nat
      BY EnrichmentAssumption
    <3> QED BY <3>1, <3>2, <3>3, <3>4
  <2> QED BY <2>1 DEF EnrichmentTypeOK, EnrichmentInv, IngestionShape
<1>2. IndexedEnriched
  <2> SUFFICES ASSUME pointsOf # << >>
               PROVE  /\ DOMAIN pointsOf = AllPieces
                      /\ \A piece \in AllPieces :
                           /\ tasks[TaskOf(ingestion.try, piece)] = "answered"
                           /\ pointsOf[piece] = contexts[TaskOf(ingestion.try, piece)]
    BY DEF IndexedEnriched
  <2>1. /\ ingestion.at = "done"
        /\ pointsOf = [piece \in AllPieces |-> contexts[TaskOf(ingestion.try, piece)]]
    BY DEF EnrichmentInv, IndexedAtEnd
  <2>2. ASSUME NEW piece \in AllPieces
        PROVE  tasks[TaskOf(ingestion.try, piece)] = "answered"
    <3>1. PICK d \in DOMAIN Batch : \E i \in 1 .. Batch[d] : piece = <<d, i>>
      BY DEF AllPieces, Pieces
    <3>2. PICK i \in 1 .. Batch[d] : piece = <<d, i>>
      BY <3>1
    <3>3. d < ingestion.doc
      <4>1. Len(Batch) \in Nat /\ d \in 1 .. Len(Batch)
        BY EnrichmentAssumption
      <4> QED BY <2>1, <4>1 DEF EnrichmentInv, IngestionShape
    <3>4. TaskOf(ingestion.try, piece) = <<ingestion.try, d, i>>
      BY <3>2 DEF TaskOf
    <3> QED BY <3>3, <3>4 DEF EnrichmentInv, EarlierWhole
  <2> QED BY <2>1, <2>2
<1> QED BY <1>1, <1>2 DEF EnrichmentSound

\* However calls come back, those of failed tries late: a document's semaphore
\* never lets more through than it has permits, and what is indexed was answered
\* in the try that wrote it.
THEOREM EnrichmentHolds == EnrichmentSpec => []EnrichmentSound
BY EnrichmentStart, EnrichmentStep, EnrichmentInvSound, PTL DEF EnrichmentSpec

=============================================================================
