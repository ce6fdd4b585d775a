---------------------------- MODULE BudgetTracker ----------------------------
(***************************************************************************)
(* A tree of BudgetTracker objects (src/harness/budget/tracker.py) shared  *)
(* by concurrent callers.  A caller reserves headroom on a tracker, makes  *)
(* its call, and settles the grant with the actual cost; a tracker carves  *)
(* child trackers out of its own headroom.                                 *)
(*                                                                         *)
(* One step is one critical section of one tracker's lock: consume() books *)
(* the spend under its own lock and only then, the lock released, climbs   *)
(* to the parent, which takes its own lock, and so on up to the root, so   *)
(* other callers run between any two trackers of the climb.                *)
(*                                                                         *)
(* Money is counted in whole units (the code's floats carry rounding that  *)
(* is not modelled).  Calls that raise before changing anything (reserve   *)
(* without headroom, negative amounts, an already settled grant) leave no  *)
(* step.                                                                   *)
(***************************************************************************)
EXTENDS Integers, Totals

CONSTANTS
  Trackers,   \* the BudgetTracker objects that may ever be created
  Root,       \* the tracker of the request
  NoTracker,  \* the null parent
  Grants,     \* the BudgetGrant objects that may ever be created
  RootLimit,  \* limit_usd of the root, in units
  Costs       \* the amounts callers reserve and report

ASSUME BudgetAssumption ==
  /\ IsFiniteSet(Trackers) /\ IsFiniteSet(Grants)
  /\ Root \in Trackers
  /\ NoTracker \notin Trackers
  /\ RootLimit \in Nat
  /\ Costs \subseteq Nat

VARIABLES
  trackers,   \* the trackers created so far
  parent,     \* _parent
  limit,      \* _limit
  reserved,   \* _reserved
  consumed,   \* _consumed
  status,     \* of a grant: free, live, refused (consume raised) or settled
  owner,      \* the tracker a grant was reserved on
  amount,     \* BudgetGrant.amount
  actual,     \* the cost last passed to consume for the grant
  climbing    \* the ancestor that consume must still tell, or NoTracker

trackerVars == <<trackers, parent, limit, reserved, consumed>>
grantVars   == <<status, owner, amount, actual, climbing>>
vars        == <<trackerVars, grantVars>>

Statuses == {"free", "live", "refused", "settled"}

-----------------------------------------------------------------------------

NonNegative(n) == IF n > 0 THEN n ELSE 0

\* _available_locked, given the reservations to count
AvailableWith(t, res) == NonNegative(limit[t] - consumed[t] - res)

Available(t) == AvailableWith(t, reserved[t])

\* What consume finds once it has released the grant's own reservation.
AvailableToSettle(g) ==
  AvailableWith(owner[g], reserved[owner[g]] - amount[g])

\* The ceilings child_budget(fraction) can compute for a fraction in (0, 1].
ChildLimits(avail) == IF avail = 0 THEN {0} ELSE 1 .. avail

Open(g) == status[g] \in {"live", "refused"}

-----------------------------------------------------------------------------

Init ==
  /\ trackers = {Root}
  /\ parent   = [t \in Trackers |-> NoTracker]
  /\ limit    = [t \in Trackers |-> IF t = Root THEN RootLimit ELSE 0]
  /\ reserved = [t \in Trackers |-> 0]
  /\ consumed = [t \in Trackers |-> 0]
  /\ status   = [g \in Grants |-> "free"]
  /\ owner    = [g \in Grants |-> NoTracker]
  /\ amount   = [g \in Grants |-> 0]
  /\ actual   = [g \in Grants |-> 0]
  /\ climbing = [g \in Grants |-> NoTracker]

\* reserve(amount) on tracker t returns the grant g
Reserve(t, g, a) ==
  /\ t \in trackers
  /\ status[g] = "free"
  /\ a <= Available(t)
  /\ reserved' = [reserved EXCEPT ![t] = @ + a]
  /\ status'   = [status EXCEPT ![g] = "live"]
  /\ owner'    = [owner EXCEPT ![g] = t]
  /\ amount'   = [amount EXCEPT ![g] = a]
  /\ UNCHANGED <<trackers, parent, limit, consumed, actual, climbing>>

\* Mutant: the actual cost is booked unchecked.
ConsumeUnchecked(g, a) ==
  /\ Open(g)
  /\ reserved' = [reserved EXCEPT ![owner[g]] = @ - amount[g]]
  /\ consumed' = [consumed EXCEPT ![owner[g]] = @ + a]
  /\ status'   = [status EXCEPT ![g] = "settled"]
  /\ actual'   = [actual EXCEPT ![g] = a]
  /\ climbing' = [climbing EXCEPT ![g] = parent[owner[g]]]
  /\ UNCHANGED <<trackers, parent, limit, owner, amount>>

\* consume(g, a), the critical section on the grant's own tracker
Consume(g, a) ==
  /\ Open(g)
  /\ a <= AvailableToSettle(g)
  /\ reserved' = [reserved EXCEPT ![owner[g]] = @ - amount[g]]
  /\ consumed' = [consumed EXCEPT ![owner[g]] = @ + a]
  /\ status'   = [status EXCEPT ![g] = "settled"]
  /\ actual'   = [actual EXCEPT ![g] = a]
  /\ climbing' = [climbing EXCEPT ![g] = parent[owner[g]]]
  /\ UNCHANGED <<trackers, parent, limit, owner, amount>>

\* Mutant: a refused consume keeps the reservation released.
ConsumeRefusedReleases(g, a) ==
  /\ Open(g)
  /\ a > AvailableToSettle(g)
  /\ reserved' = [reserved EXCEPT ![owner[g]] = @ - amount[g]]
  /\ status' = [status EXCEPT ![g] = "refused"]
  /\ actual' = [actual EXCEPT ![g] = a]
  /\ UNCHANGED <<trackers, parent, limit, consumed, owner, amount, climbing>>

\* consume(g, a) raises BudgetExceeded; the reservation is put back
ConsumeRefused(g, a) ==
  /\ Open(g)
  /\ a > AvailableToSettle(g)
  /\ status' = [status EXCEPT ![g] = "refused"]
  /\ actual' = [actual EXCEPT ![g] = a]
  /\ UNCHANGED <<trackerVars, owner, amount, climbing>>

\* Mutant: the climb stops short of the root.
AbsorbBelowRoot(g) ==
  /\ climbing[g] # NoTracker /\ parent[climbing[g]] # NoTracker
  /\ consumed' = [consumed EXCEPT ![climbing[g]] = @ + actual[g]]
  /\ climbing' = [climbing EXCEPT ![g] = parent[climbing[g]]]
  /\ UNCHANGED <<trackers, parent, limit, reserved, status, owner, amount, actual>>

\* _absorb_child_spend on the next ancestor of the grant's tracker
AbsorbChildSpend(g) ==
  /\ climbing[g] # NoTracker
  /\ consumed' = [consumed EXCEPT ![climbing[g]] = @ + actual[g]]
  /\ climbing' = [climbing EXCEPT ![g] = parent[climbing[g]]]
  /\ UNCHANGED <<trackers, parent, limit, reserved, status, owner, amount, actual>>

\* child_budget(fraction) on tracker t returns the new tracker c
ChildBudget(t, c, childLimit) ==
  /\ t \in trackers
  /\ c \notin trackers
  /\ childLimit \in ChildLimits(Available(t))
  /\ reserved' = [reserved EXCEPT ![t] = @ + childLimit]
  /\ trackers' = trackers \cup {c}
  /\ parent'   = [parent EXCEPT ![c] = t]
  /\ limit'    = [limit EXCEPT ![c] = childLimit]
  /\ UNCHANGED <<consumed, grantVars>>

Next ==
  \/ \E t \in Trackers, g \in Grants, a \in Costs : Reserve(t, g, a)
  \/ \E g \in Grants, a \in Costs : Consume(g, a)
  \/ \E g \in Grants, a \in Costs : ConsumeRefused(g, a)
  \/ \E g \in Grants : AbsorbChildSpend(g)
  \/ \E t, c \in Trackers, childLimit \in 0 .. RootLimit :
       ChildBudget(t, c, childLimit)

Spec == Init /\ [][Next]_vars

\* A caller that has booked its spend runs on to the end of consume().
FairSpec == Spec /\ \A g \in Grants : WF_vars(AbsorbChildSpend(g))

-----------------------------------------------------------------------------

Children(t)  == {c \in trackers : parent[c] = t}
OpenOn(t)    == {g \in Grants : owner[g] = t /\ Open(g)}
SettledOn(t) == {g \in Grants : owner[g] = t /\ status[g] = "settled"}
ClimbingTo(t) == {g \in Grants : climbing[g] = t}
Climbing     == {g \in Grants : climbing[g] # NoTracker}
Settled      == {g \in Grants : status[g] = "settled"}

\* No ledger is ever negative: reservations are released no more often than made.
TypeOK ==
  /\ trackers \subseteq Trackers /\ Root \in trackers
  /\ parent   \in [Trackers -> Trackers \cup {NoTracker}]
  /\ limit    \in [Trackers -> 0 .. RootLimit]
  /\ reserved \in [Trackers -> Nat]
  /\ consumed \in [Trackers -> Nat]
  /\ status   \in [Grants -> Statuses]
  /\ owner    \in [Grants -> Trackers \cup {NoTracker}]
  /\ amount   \in [Grants -> Nat]
  /\ actual   \in [Grants -> Nat]
  /\ climbing \in [Grants -> Trackers \cup {NoTracker}]

\* The tree is well formed: what is not created is untouched, every
\* reference leads to a created tracker, only a settled grant climbs.
Shape ==
  /\ parent[Root] = NoTracker /\ limit[Root] = RootLimit
  /\ \A t \in trackers \ {Root} : parent[t] \in trackers \ {t}
  /\ \A t \in Trackers \ trackers :
       /\ parent[t] = NoTracker
       /\ limit[t] = 0 /\ reserved[t] = 0 /\ consumed[t] = 0
  /\ \A g \in Grants :
       /\ status[g] # "free" => owner[g] \in trackers
       /\ climbing[g] # NoTracker =>
            climbing[g] \in trackers /\ status[g] = "settled"

\* Headroom is set aside for exactly the open grants and the ceilings of the
\* children: no path through reserve, consume, a refused consume or
\* child_budget leaks a reservation or releases one twice.
ReservedLedger ==
  \A t \in trackers :
    reserved[t] = Total(amount, OpenOn(t)) + Total(limit, Children(t))

\* A tracker has booked its own settlements and its children's spend, short
\* of exactly what concurrent consume() calls have yet to carry up to it.
ConsumedLedger ==
  \A t \in trackers :
    consumed[t] + Total(actual, ClimbingTo(t))
      = Total(actual, SettledOn(t)) + Total(consumed, Children(t))

\* Own settlements and everything set aside never pass the ceiling, however
\* callers interleave.
CommittedWithinLimit ==
  \A t \in trackers : Total(actual, SettledOn(t)) + reserved[t] <= limit[t]

\* The hard ceiling: no tracker of the tree ever reports more spend than its
\* limit, not even while spend is between a child's lock and its parent's.
NoOverspend == \A t \in trackers : consumed[t] <= limit[t]

\* The root has counted every settled cost of the whole tree exactly once,
\* short of the spend that consume() calls in flight still carry.
BooksBalance ==
  consumed[Root] + Total(actual, Climbing) = Total(actual, Settled)

\* A settled cost is reported to every ancestor in the end.
SpendReachesRoot ==
  \A g \in Grants : status[g] = "settled" ~> climbing[g] = NoTracker

\* The promise of the class docstring, a caller that claimed headroom can
\* settle a cost within its claim: kept on every tracker without children.
\* One with children counts what they spend twice, in reserved and consumed.
ReservationHonoured ==
  \A g \in Grants : status[g] = "refused" =>
    actual[g] > amount[g] \/ Children(owner[g]) # {}

Account == INSTANCE HardCeiling WITH Limit <- RootLimit, spent <- consumed[Root]

\* To its caller the whole tree is one account under one hard ceiling.
HardCeilingSpec == Account!Spec

\* The books of the tree at every moment of every interleaving: both ledgers of
\* every tracker exact, commitments and spend within every ceiling, every settled
\* cost once at the root, and what was reserved good for what it was reserved for.
LedgersExact ==
  /\ TypeOK
  /\ ReservedLedger
  /\ ConsumedLedger
  /\ CommittedWithinLimit
  /\ NoOverspend
  /\ BooksBalance
  /\ ReservationHonoured

=============================================================================
