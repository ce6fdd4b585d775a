------------------------ MODULE BudgetTracker_proofs ------------------------
(***************************************************************************)
(* Every reachable state of the budget tree keeps its ledgers and its hard *)
(* ceilings, for any number of trackers, grants and interleaved callers.   *)
(***************************************************************************)
EXTENDS BudgetTracker, Totals_proofs

\* A tracker's own settlements are part of what it has booked.
OwnSpendBooked == \A t \in trackers : Total(actual, SettledOn(t)) <= consumed[t]

\* The inductive invariant.  NoOverspend alone is not inductive: a tracker
\* absorbs a child's spend without checking it, so the bound comes from the
\* child's own bound, from the child's ceiling being reserved in the parent,
\* and from both ledgers being exact.
IInv ==
  /\ TypeOK
  /\ Shape
  /\ ReservedLedger
  /\ ConsumedLedger
  /\ CommittedWithinLimit
  /\ NoOverspend
  /\ BooksBalance
  /\ OwnSpendBooked

-----------------------------------------------------------------------------

\* Sets of grants and of trackers are finite, so their totals are numbers.
LEMMA FiniteParts ==
  /\ \A S \in SUBSET Grants : IsFiniteSet(S)
  /\ \A S \in SUBSET Trackers : IsFiniteSet(S)
BY FS_Subset, BudgetAssumption

LEMMA TotalsAreNat ==
  ASSUME TypeOK
  PROVE  /\ \A S \in SUBSET Grants : Total(amount, S) \in Nat /\ Total(actual, S) \in Nat
         /\ \A S \in SUBSET Trackers : Total(limit, S) \in Nat /\ Total(consumed, S) \in Nat
<1>1. limit \in [Trackers -> Nat] /\ consumed \in [Trackers -> Nat]
  BY BudgetAssumption DEF TypeOK
<1>2. amount \in [Grants -> Nat] /\ actual \in [Grants -> Nat]
  BY DEF TypeOK
<1> QED BY <1>1, <1>2, FiniteParts, TotalNat

-----------------------------------------------------------------------------

\* The initial state: one empty tracker, no grant.
LEMMA InitIInv == Init => IInv
<1> SUFFICES ASSUME Init PROVE IInv
  OBVIOUS
<1>1. TypeOK /\ Shape
  BY BudgetAssumption DEF Init, TypeOK, Shape, Statuses
<1>2. \A t \in trackers :
        /\ OpenOn(t) = {} /\ SettledOn(t) = {} /\ ClimbingTo(t) = {} /\ Children(t) = {}
        /\ reserved[t] = 0 /\ consumed[t] = 0
  BY BudgetAssumption DEF Init, OpenOn, SettledOn, ClimbingTo, Children, Open
<1>3. Climbing = {} /\ Settled = {} /\ consumed[Root] = 0
  BY BudgetAssumption DEF Init, Climbing, Settled
<1>4. Total(amount, {}) = 0 /\ Total(actual, {}) = 0 /\ Total(limit, {}) = 0
        /\ Total(consumed, {}) = 0
  BY TotalEmpty
<1>5. ReservedLedger /\ ConsumedLedger
  BY <1>2, <1>4 DEF ReservedLedger, ConsumedLedger
<1>6. \A t \in trackers : limit[t] \in Nat
  BY <1>1, BudgetAssumption DEF TypeOK
<1>7. CommittedWithinLimit /\ NoOverspend
  BY <1>2, <1>4, <1>6 DEF CommittedWithinLimit, NoOverspend
<1>8. BooksBalance /\ OwnSpendBooked
  BY <1>2, <1>3, <1>4 DEF BooksBalance, OwnSpendBooked
<1> QED BY <1>1, <1>5, <1>7, <1>8 DEF IInv

\* reserve() adds the grant to the open grants of its tracker.
LEMMA ReserveIInv ==
  ASSUME IInv, NEW t \in Trackers, NEW g \in Grants, NEW a \in Costs, Reserve(t, g, a)
  PROVE  IInv'
<1> USE DEF IInv
<1>1. a \in Nat /\ t \in trackers /\ trackers \subseteq Trackers /\ status[g] = "free"
  BY BudgetAssumption DEF TypeOK, Reserve
<1>2. TypeOK'
  BY <1>1 DEF TypeOK, Reserve, Statuses
<1>3. climbing[g] = NoTracker
  BY <1>1 DEF Shape
<1>4. Shape'
  BY <1>1, <1>3 DEF Shape, Reserve, TypeOK
<1>5. /\ \A u \in trackers : SettledOn(u)' = SettledOn(u)
      /\ \A u \in trackers : ClimbingTo(u)' = ClimbingTo(u) /\ Children(u)' = Children(u)
      /\ Climbing' = Climbing /\ Settled' = Settled
      /\ actual' = actual /\ limit' = limit /\ consumed' = consumed /\ trackers' = trackers
  BY <1>1 DEF SettledOn, ClimbingTo, Children, Climbing, Settled, Reserve, TypeOK
<1>6. ConsumedLedger' /\ NoOverspend' /\ BooksBalance' /\ OwnSpendBooked'
  BY <1>5 DEF ConsumedLedger, NoOverspend, BooksBalance, OwnSpendBooked
<1>7. ASSUME NEW u \in trackers, u # t PROVE OpenOn(u)' = OpenOn(u)
  BY <1>1, <1>7 DEF OpenOn, Open, Reserve, TypeOK
<1>8. OpenOn(t)' = OpenOn(t) \cup {g} /\ g \notin OpenOn(t)
  BY <1>1 DEF OpenOn, Open, Reserve, TypeOK
<1>9. /\ amount \in [Grants -> Nat] /\ amount' \in [Grants -> Nat] /\ amount'[g] = a
      /\ \A h \in Grants \ {g} : amount[h] = amount'[h]
  BY <1>1 DEF TypeOK, Reserve
<1>10. /\ \A u \in trackers : OpenOn(u) \in SUBSET Grants
       /\ \A u \in trackers : SettledOn(u) \in SUBSET Grants
       /\ \A u \in trackers : Children(u) \in SUBSET Trackers
  BY DEF OpenOn, SettledOn, Children, TypeOK
<1>11. Total(amount', OpenOn(t)') = Total(amount, OpenOn(t)) + a
  BY <1>8, <1>9, <1>10, <1>1, FiniteParts, TotalExtend
<1>12. ASSUME NEW u \in trackers, u # t
       PROVE  Total(amount', OpenOn(u)') = Total(amount, OpenOn(u))
  <2>1. g \notin OpenOn(u)
    BY <1>1 DEF OpenOn, Open
  <2> QED BY <2>1, <1>7, <1>9, <1>10, <1>12, TotalCong
<1>13. reserved'[t] = reserved[t] + a /\ \A u \in trackers \ {t} : reserved'[u] = reserved[u]
  BY <1>1 DEF Reserve, TypeOK
<1>14. \A u \in trackers : /\ Total(amount, OpenOn(u)) \in Nat
                           /\ Total(limit, Children(u)) \in Nat
                           /\ Total(actual, SettledOn(u)) \in Nat
                           /\ reserved[u] \in Nat /\ consumed[u] \in Nat /\ limit[u] \in Int
  BY <1>10, <1>1, TotalsAreNat, BudgetAssumption DEF TypeOK
<1>15. ReservedLedger'
  BY <1>5, <1>11, <1>12, <1>13, <1>14, <1>1 DEF ReservedLedger
<1>16. a <= NonNegative(limit[t] - consumed[t] - reserved[t])
  BY DEF Reserve, Available, AvailableWith
<1>17. Total(actual, SettledOn(t)) + (reserved[t] + a) <= limit[t]
  BY <1>1, <1>14, <1>16 DEF CommittedWithinLimit, OwnSpendBooked, NonNegative
<1>18. CommittedWithinLimit'
  BY <1>5, <1>13, <1>17 DEF CommittedWithinLimit
<1> QED BY <1>2, <1>4, <1>6, <1>15, <1>18

\* consume() moves the grant from the open to the settled ones and, below the
\* root, leaves its cost climbing to the parent.
LEMMA ConsumeIInv ==
  ASSUME IInv, NEW g \in Grants, NEW a \in Costs, Consume(g, a)
  PROVE  IInv'
<1> USE DEF IInv
<1> PICK t \in trackers : t = owner[g]
  BY DEF Consume, Shape, Open
<1> PICK p \in Trackers \cup {NoTracker} : p = parent[t]
  BY DEF TypeOK
<1>1. /\ a \in Nat /\ t \in trackers /\ trackers \subseteq Trackers
      /\ status[g] # "free" /\ status[g] # "settled" /\ climbing[g] = NoTracker
  BY BudgetAssumption DEF TypeOK, Consume, Shape, Open
<1>2. /\ \A u \in trackers : OpenOn(u) \in SUBSET Grants
      /\ \A u \in trackers : SettledOn(u) \in SUBSET Grants
      /\ \A u \in trackers : ClimbingTo(u) \in SUBSET Grants
      /\ \A u \in trackers : Children(u) \in SUBSET Trackers
      /\ Climbing \in SUBSET Grants /\ Settled \in SUBSET Grants
  BY DEF OpenOn, SettledOn, ClimbingTo, Children, Climbing, Settled, TypeOK
<1>3. \A u \in trackers : /\ Total(amount, OpenOn(u)) \in Nat
                          /\ Total(limit, Children(u)) \in Nat
                          /\ Total(consumed, Children(u)) \in Nat
                          /\ Total(actual, SettledOn(u)) \in Nat
                          /\ Total(actual, ClimbingTo(u)) \in Nat
                          /\ reserved[u] \in Nat /\ consumed[u] \in Nat /\ limit[u] \in Int
  BY <1>2, <1>1, TotalsAreNat, BudgetAssumption DEF TypeOK
<1>4. /\ amount \in [Grants -> Nat] /\ actual \in [Grants -> Nat] /\ actual' \in [Grants -> Nat]
      /\ actual'[g] = a /\ \A h \in Grants \ {g} : actual[h] = actual'[h]
      /\ amount' = amount /\ limit' = limit /\ trackers' = trackers /\ parent' = parent
  BY <1>1 DEF TypeOK, Consume
<1>5. /\ OpenOn(t)' = OpenOn(t) \ {g} /\ g \in OpenOn(t)
      /\ \A u \in trackers \ {t} : OpenOn(u)' = OpenOn(u)
  BY <1>1 DEF OpenOn, Open, Consume, TypeOK
<1>6. Total(amount, OpenOn(t)) = Total(amount, OpenOn(t)') + amount[g]
  BY <1>1, <1>2, <1>4, <1>5, FiniteParts, TotalRemove
<1>7. Total(amount, OpenOn(t)') \in Nat /\ amount[g] \in Nat
  BY <1>2, <1>4, <1>5, <1>1, TotalsAreNat
<1>8. reserved'[t] = reserved[t] - amount[g] /\ \A u \in trackers \ {t} : reserved'[u] = reserved[u]
  BY <1>1 DEF Consume, TypeOK
<1>9. \A u \in trackers : Children(u)' = Children(u)
  BY <1>4 DEF Children
<1>10. ReservedLedger'
  <2>1. reserved'[t] = Total(amount', OpenOn(t)') + Total(limit', Children(t)')
    <3>1. reserved[t] = Total(amount, OpenOn(t)) + Total(limit, Children(t))
      BY DEF ReservedLedger
    <3> QED BY <3>1, <1>3, <1>4, <1>6, <1>7, <1>8, <1>9
  <2>2. \A u \in trackers \ {t} :
          reserved'[u] = Total(amount', OpenOn(u)') + Total(limit', Children(u)')
    BY <1>4, <1>5, <1>8, <1>9 DEF ReservedLedger
  <2> QED BY <2>1, <2>2, <1>4 DEF ReservedLedger
<1>11. reserved'[t] \in Nat
  BY <1>1, <1>3, <1>6, <1>7, <1>8 DEF ReservedLedger
<1>12. TypeOK'
  <2>1. reserved' \in [Trackers -> Nat]
    BY <1>1, <1>8, <1>11 DEF Consume, TypeOK
  <2> QED BY <2>1, <1>1, <1>4 DEF TypeOK, Consume, Statuses
<1>13. Shape'
  BY <1>1, <1>8 DEF Shape, Consume, TypeOK
<1>14. /\ SettledOn(t)' = SettledOn(t) \cup {g} /\ g \notin SettledOn(t)
       /\ \A u \in trackers \ {t} : SettledOn(u)' = SettledOn(u) /\ g \notin SettledOn(u)
       /\ Settled' = Settled \cup {g} /\ g \notin Settled
  BY <1>1 DEF SettledOn, Settled, Consume, TypeOK
<1>15. /\ Total(actual', SettledOn(t)') = Total(actual, SettledOn(t)) + a
       /\ Total(actual', Settled') = Total(actual, Settled) + a
  BY <1>1, <1>2, <1>4, <1>14, FiniteParts, TotalExtend
<1>16. ASSUME NEW u \in trackers, u # t
       PROVE  Total(actual', SettledOn(u)') = Total(actual, SettledOn(u))
  BY <1>2, <1>4, <1>14, <1>16, TotalCong
<1>17. consumed'[t] = consumed[t] + a /\ \A u \in Trackers \ {t} : consumed'[u] = consumed[u]
  BY <1>1 DEF Consume, TypeOK
<1>18. OwnSpendBooked'
  BY <1>1, <1>3, <1>4, <1>15, <1>16, <1>17 DEF OwnSpendBooked
<1>19. a <= NonNegative(limit[t] - consumed[t] - (reserved[t] - amount[g]))
  BY DEF Consume, AvailableToSettle, AvailableWith
<1>20. NoOverspend'
  <2>1. consumed[t] + a <= limit[t]
    BY <1>1, <1>3, <1>6, <1>7, <1>19 DEF NoOverspend, ReservedLedger, NonNegative
  <2> QED BY <2>1, <1>1, <1>4, <1>17 DEF NoOverspend
<1>21. CommittedWithinLimit'
  <2>1. Total(actual, SettledOn(t)) + a + (reserved[t] - amount[g]) <= limit[t]
    BY <1>1, <1>3, <1>7, <1>19 DEF CommittedWithinLimit, OwnSpendBooked, NonNegative
  <2>2. Total(actual', SettledOn(t)') + reserved'[t] <= limit'[t]
    BY <2>1, <1>1, <1>3, <1>4, <1>7, <1>8, <1>15
  <2>3. \A u \in trackers \ {t} : Total(actual', SettledOn(u)') + reserved'[u] <= limit'[u]
    BY <1>4, <1>8, <1>16 DEF CommittedWithinLimit
  <2> QED BY <2>2, <2>3, <1>4 DEF CommittedWithinLimit
<1>22. climbing' = [climbing EXCEPT ![g] = p] /\ climbing'[g] = p
  BY <1>4 DEF Consume, TypeOK
<1>23. ASSUME NEW u \in trackers, u # p
       PROVE  /\ Total(actual', ClimbingTo(u)') = Total(actual, ClimbingTo(u))
              /\ Total(consumed', Children(u)') = Total(consumed, Children(u))
  <2>1. ClimbingTo(u)' = ClimbingTo(u) /\ g \notin ClimbingTo(u)
    BY <1>1, <1>22, <1>23, BudgetAssumption DEF ClimbingTo, TypeOK
  <2>2. Total(actual', ClimbingTo(u)') = Total(actual, ClimbingTo(u))
    BY <2>1, <1>2, <1>4, TotalCong
  <2>3. t \notin Children(u) /\ Children(u) \subseteq Trackers
    BY <1>23, <1>1 DEF Children
  <2>4. \A c \in Children(u) : consumed[c] = consumed'[c]
    BY <2>3, <1>17
  <2>5. Total(consumed', Children(u)) = Total(consumed, Children(u))
    BY <2>4, TotalCong
  <2> QED BY <2>2, <2>5, <1>9
<1>24. ASSUME p \in trackers
       PROVE  /\ Total(actual', ClimbingTo(p)') = Total(actual, ClimbingTo(p)) + a
              /\ Total(consumed', Children(p)') = Total(consumed, Children(p)) + a
              /\ p # t
  <2>1. ClimbingTo(p)' = ClimbingTo(p) \cup {g} /\ g \notin ClimbingTo(p)
    BY <1>1, <1>22, <1>24, BudgetAssumption DEF ClimbingTo, TypeOK
  <2>2. Total(actual', ClimbingTo(p)') = Total(actual, ClimbingTo(p)) + a
    BY <2>1, <1>24, <1>2, <1>4, FiniteParts, TotalExtend
  <2>3. t \in Children(p) /\ Children(p) \in SUBSET Trackers /\ IsFiniteSet(Children(p))
    BY <1>24, <1>1, <1>2, FiniteParts DEF Children
  <2>4. /\ consumed \in [Trackers -> Nat] /\ consumed' \in [Trackers -> Nat]
        /\ consumed'[t] = consumed[t] + a
        /\ \A c \in Children(p) \ {t} : consumed'[c] = consumed[c]
    BY <1>12, <1>17, <2>3 DEF TypeOK
  <2>5. Total(consumed', Children(p)) = Total(consumed, Children(p)) + a
    BY <2>3, <2>4, <1>1, TotalRaise
  <2>6. p # t
    BY <1>1, <1>24, BudgetAssumption DEF Shape
  <2>7. Total(consumed', Children(p)') = Total(consumed, Children(p)) + a
    BY <2>5, <1>9, <1>24, Zenon
  <2> QED BY <2>2, <2>6, <2>7
<1>25. ConsumedLedger'
  <2> SUFFICES ASSUME NEW u \in trackers
               PROVE  consumed'[u] + Total(actual', ClimbingTo(u)')
                        = Total(actual', SettledOn(u)') + Total(consumed', Children(u)')
    BY <1>4 DEF ConsumedLedger
  <2>1. consumed[u] + Total(actual, ClimbingTo(u))
          = Total(actual, SettledOn(u)) + Total(consumed, Children(u))
    BY DEF ConsumedLedger
  <2>2. CASE u = p
    <3>1. u # t /\ u \in Trackers
      BY <2>2, <1>24, <1>1
    <3>2. consumed'[u] = consumed[u] /\ Total(actual', SettledOn(u)') = Total(actual, SettledOn(u))
      BY <3>1, <1>16, <1>17
    <3> QED BY <2>1, <2>2, <3>2, <1>24, <1>3, <1>1
  <2>3. CASE u # p /\ u = t
    BY <2>1, <2>3, <1>23, <1>15, <1>17, <1>3, <1>1
  <2>4. CASE u # p /\ u # t
    BY <2>1, <2>4, <1>23, <1>16, <1>17, <1>1
  <2> QED BY <2>2, <2>3, <2>4
<1>26. BooksBalance'
  <2>1. Total(actual, Climbing) \in Nat /\ Total(actual, Settled) \in Nat /\ consumed[Root] \in Nat
    BY <1>2, TotalsAreNat, BudgetAssumption DEF TypeOK
  <2>2. g \notin Climbing
    BY <1>1 DEF Climbing
  <2>3. CASE t = Root
    <3>1. p = NoTracker
      BY <2>3 DEF Shape
    <3>2. Climbing' = Climbing
      BY <3>1, <1>1, <1>22 DEF Climbing, TypeOK
    <3>3. Total(actual', Climbing) = Total(actual, Climbing)
      BY <2>2, <1>2, <1>4, TotalCong
    <3> QED BY <2>1, <2>3, <3>2, <3>3, <1>1, <1>15, <1>17 DEF BooksBalance
  <2>4. CASE t # Root
    <3>1. p # NoTracker
      BY <2>4, <1>1, BudgetAssumption DEF Shape
    <3>2. Climbing' = Climbing \cup {g}
      BY <3>1, <1>1, <1>22 DEF Climbing, TypeOK
    <3>3. Total(actual', Climbing') = Total(actual, Climbing) + a
      BY <3>2, <2>2, <1>2, <1>4, FiniteParts, TotalExtend
    <3>4. consumed'[Root] = consumed[Root]
      BY <2>4, <1>17, BudgetAssumption
    <3> QED BY <2>1, <3>3, <3>4, <1>1, <1>15 DEF BooksBalance
  <2> QED BY <2>3, <2>4
<1> QED BY <1>10, <1>12, <1>13, <1>18, <1>20, <1>21, <1>25, <1>26

\* A refused consume() puts the reservation back: only the grant remembers.
LEMMA ConsumeRefusedIInv ==
  ASSUME IInv, NEW g \in Grants, NEW a \in Costs, ConsumeRefused(g, a)
  PROVE  IInv'
<1> USE DEF IInv
<1>1. /\ a \in Nat /\ status[g] \in {"live", "refused"} /\ climbing[g] = NoTracker
  BY BudgetAssumption DEF TypeOK, ConsumeRefused, Shape, Open
<1>2. TypeOK' /\ Shape'
  BY <1>1 DEF TypeOK, Shape, ConsumeRefused, trackerVars, Statuses
<1>3. /\ \A u \in trackers :
           /\ OpenOn(u)' = OpenOn(u) /\ SettledOn(u)' = SettledOn(u)
           /\ ClimbingTo(u)' = ClimbingTo(u) /\ Children(u)' = Children(u)
           /\ g \notin SettledOn(u) /\ g \notin ClimbingTo(u)
           /\ SettledOn(u) \subseteq Grants /\ ClimbingTo(u) \subseteq Grants
      /\ Climbing' = Climbing /\ Settled' = Settled
      /\ g \notin Climbing /\ g \notin Settled
      /\ Climbing \subseteq Grants /\ Settled \subseteq Grants
  BY <1>1, BudgetAssumption DEF OpenOn, SettledOn, ClimbingTo, Children, Climbing, Settled,
       Open, ConsumeRefused, trackerVars, TypeOK
<1>4. \A h \in Grants \ {g} : actual'[h] = actual[h]
  BY DEF ConsumeRefused, TypeOK
<1>5. /\ \A u \in trackers : /\ Total(actual', SettledOn(u)) = Total(actual, SettledOn(u))
                             /\ Total(actual', ClimbingTo(u)) = Total(actual, ClimbingTo(u))
      /\ Total(actual', Climbing) = Total(actual, Climbing)
      /\ Total(actual', Settled) = Total(actual, Settled)
  <2>1. ASSUME NEW S \in SUBSET Grants, g \notin S PROVE Total(actual', S) = Total(actual, S)
    BY <1>4, <2>1, TotalCong
  <2> QED BY <2>1, <1>3
<1>6. UNCHANGED <<trackers, parent, limit, reserved, consumed, amount>>
  BY DEF ConsumeRefused, trackerVars
<1>7. ReservedLedger' /\ NoOverspend'
  BY <1>3, <1>6 DEF ReservedLedger, NoOverspend
<1>8. ConsumedLedger' /\ CommittedWithinLimit' /\ OwnSpendBooked' /\ BooksBalance'
  BY <1>3, <1>5, <1>6 DEF ConsumedLedger, CommittedWithinLimit, OwnSpendBooked, BooksBalance
<1> QED BY <1>2, <1>7, <1>8

\* An ancestor books the spend that climbs to it and passes it on.
LEMMA AbsorbIInv ==
  ASSUME IInv, NEW g \in Grants, AbsorbChildSpend(g)
  PROVE  IInv'
<1> USE DEF IInv
<1> PICK t \in trackers : t = climbing[g]
  BY DEF AbsorbChildSpend, Shape
<1> PICK p \in Trackers \cup {NoTracker} : p = parent[t]
  BY DEF TypeOK
<1> PICK a \in Nat : a = actual[g]
  BY DEF TypeOK
<1>1. /\ trackers \subseteq Trackers /\ t # NoTracker /\ status[g] = "settled"
      /\ UNCHANGED <<trackers, parent, limit, reserved, status, owner, amount, actual>>
  BY BudgetAssumption DEF TypeOK, AbsorbChildSpend, Shape
<1>2. /\ consumed'[t] = consumed[t] + a /\ \A u \in Trackers \ {t} : consumed'[u] = consumed[u]
      /\ climbing' = [climbing EXCEPT ![g] = p] /\ climbing'[g] = p
      /\ \A h \in Grants \ {g} : climbing'[h] = climbing[h]
  BY <1>1 DEF AbsorbChildSpend, TypeOK
<1>3. /\ \A u \in trackers : /\ SettledOn(u) \in SUBSET Grants
                             /\ ClimbingTo(u) \in SUBSET Grants
                             /\ Children(u) \in SUBSET Trackers
                             /\ OpenOn(u)' = OpenOn(u) /\ SettledOn(u)' = SettledOn(u)
                             /\ Children(u)' = Children(u)
      /\ Climbing \in SUBSET Grants /\ Settled \in SUBSET Grants /\ Settled' = Settled
  BY <1>1 DEF OpenOn, Open, SettledOn, ClimbingTo, Children, Climbing, Settled
<1>4. \A u \in trackers : /\ Total(limit, Children(u)) \in Nat
                          /\ Total(consumed, Children(u)) \in Nat
                          /\ Total(actual, SettledOn(u)) \in Nat
                          /\ Total(actual, ClimbingTo(u)) \in Nat
                          /\ Total(amount, OpenOn(u)) \in Nat
                          /\ reserved[u] \in Nat /\ consumed[u] \in Nat /\ limit[u] \in Int
  <2>1. \A u \in trackers : OpenOn(u) \in SUBSET Grants
    BY DEF OpenOn
  <2> QED BY <2>1, <1>1, <1>3, TotalsAreNat, BudgetAssumption DEF TypeOK
<1>5. TypeOK'
  BY <1>1, <1>2, <1>4 DEF TypeOK, AbsorbChildSpend
<1>6. p # t /\ (p # NoTracker => p \in trackers)
  BY <1>1, BudgetAssumption DEF Shape
<1>7. Shape'
  BY <1>1, <1>2, <1>6 DEF Shape
<1>8. ReservedLedger' /\ CommittedWithinLimit'
  BY <1>1, <1>3 DEF ReservedLedger, CommittedWithinLimit
<1>9. OwnSpendBooked'
  BY <1>1, <1>2, <1>3, <1>4 DEF OwnSpendBooked
<1>10. Total(actual, ClimbingTo(t)) = Total(actual, ClimbingTo(t)') + a
  <2>1. ClimbingTo(t)' = ClimbingTo(t) \ {g} /\ g \in ClimbingTo(t)
    BY <1>2, <1>6 DEF ClimbingTo
  <2>2. actual \in [Grants -> Nat]
    BY DEF TypeOK
  <2> QED BY <2>1, <2>2, <1>3, FiniteParts, TotalRemove
<1>11. Total(actual, ClimbingTo(t)') \in Nat
  <2>1. ClimbingTo(t)' \in SUBSET Grants
    BY DEF ClimbingTo
  <2> QED BY <2>1, TotalsAreNat
<1>12. ASSUME NEW u \in trackers, u # t, u # p
       PROVE  ClimbingTo(u)' = ClimbingTo(u)
  BY <1>2, <1>12 DEF ClimbingTo
<1>13. ASSUME NEW u \in trackers, u # p
       PROVE  Total(consumed', Children(u)) = Total(consumed, Children(u))
  <2>1. t \notin Children(u)
    BY <1>13, <1>1 DEF Children
  <2>2. \A c \in Children(u) : consumed'[c] = consumed[c]
    BY <2>1, <1>2, <1>3
  <2> QED BY <2>2, TotalCong
<1>14. ASSUME p \in trackers
       PROVE  /\ Total(actual, ClimbingTo(p)') = Total(actual, ClimbingTo(p)) + a
              /\ Total(consumed', Children(p)) = Total(consumed, Children(p)) + a
  <2>1. ClimbingTo(p)' = ClimbingTo(p) \cup {g} /\ g \notin ClimbingTo(p)
    BY <1>2, <1>6 DEF ClimbingTo
  <2>2. actual \in [Grants -> Nat] /\ consumed \in [Trackers -> Nat] /\ consumed' \in [Trackers -> Nat]
    BY <1>5 DEF TypeOK
  <2>3. Total(actual, ClimbingTo(p)') = Total(actual, ClimbingTo(p)) + a
    BY <2>1, <2>2, <1>3, <1>14, FiniteParts, TotalAdd
  <2>4. t \in Children(p) /\ Children(p) \in SUBSET Trackers /\ IsFiniteSet(Children(p))
    BY <1>14, <1>1, <1>3, FiniteParts DEF Children
  <2>5. \A c \in Children(p) \ {t} : consumed'[c] = consumed[c]
    BY <2>4, <1>2
  <2>6. Total(consumed', Children(p)) = Total(consumed, Children(p)) + a
    BY <2>2, <2>4, <2>5, <1>2, TotalRaise
  <2> QED BY <2>3, <2>6
<1>15. ASSUME NEW u \in trackers
       PROVE  consumed'[u] + Total(actual, ClimbingTo(u)')
                = Total(actual, SettledOn(u)) + Total(consumed', Children(u))
  <2>1. consumed[u] + Total(actual, ClimbingTo(u))
          = Total(actual, SettledOn(u)) + Total(consumed, Children(u))
    BY DEF ConsumedLedger
  <2>2. CASE u = t
    BY <2>1, <2>2, <1>2, <1>4, <1>6, <1>10, <1>11, <1>13
  <2>3. CASE u = p
    <3>1. consumed'[u] = consumed[u]
      BY <2>3, <1>1, <1>2, <1>6
    <3> QED BY <2>1, <2>3, <3>1, <1>4, <1>14
  <2>4. CASE u # t /\ u # p
    BY <2>1, <2>4, <1>1, <1>2, <1>12, <1>13
  <2> QED BY <2>2, <2>3, <2>4
<1>16. ConsumedLedger'
  BY <1>1, <1>3, <1>15 DEF ConsumedLedger
<1>17. NoOverspend'
  <2>1. Total(consumed, Children(t)) <= Total(limit, Children(t))
    <3>1. consumed \in [Trackers -> Nat] /\ limit \in [Trackers -> Nat]
      BY BudgetAssumption DEF TypeOK
    <3>2. \A c \in Children(t) : consumed[c] <= limit[c]
      BY DEF NoOverspend, Children
    <3> QED BY <3>1, <3>2, <1>3, FiniteParts, TotalMono
  <2>2. Total(consumed', Children(t)) = Total(consumed, Children(t))
    BY <1>6, <1>13
  <2>3. consumed'[t] + Total(actual, ClimbingTo(t)')
          = Total(actual, SettledOn(t)) + Total(consumed, Children(t))
    BY <2>2, <1>15
  <2>4. Total(actual, SettledOn(t)) + Total(amount, OpenOn(t)) + Total(limit, Children(t)) <= limit[t]
    BY <1>4 DEF CommittedWithinLimit, ReservedLedger
  <2>5. consumed'[t] <= limit[t]
    BY <2>1, <2>3, <2>4, <1>2, <1>4, <1>11
  <2> QED BY <2>5, <1>1, <1>2 DEF NoOverspend
<1>18. BooksBalance'
  <2>1. g \in Climbing /\ actual \in [Grants -> Nat] /\ IsFiniteSet(Climbing)
    BY <1>1, <1>3, FiniteParts DEF Climbing, TypeOK
  <2>2. Total(actual, Settled) \in Nat /\ Total(actual, Climbing \ {g}) \in Nat /\ consumed[Root] \in Nat
    BY <1>3, TotalsAreNat, BudgetAssumption DEF TypeOK
  <2>3. Total(actual, Climbing) = Total(actual, Climbing \ {g}) + a
    BY <2>1, <1>3, TotalRemove
  <2>4. CASE t = Root
    <3>1. Climbing' = Climbing \ {g}
      BY <2>4, <1>2 DEF Climbing, Shape
    <3> QED BY <2>2, <2>3, <2>4, <3>1, <1>1, <1>2, <1>3 DEF BooksBalance
  <2>5. CASE t # Root
    <3>1. Climbing' = Climbing
      BY <2>5, <2>1, <1>1, <1>2, BudgetAssumption DEF Climbing, Shape
    <3>2. consumed'[Root] = consumed[Root]
      BY <2>5, <1>2, BudgetAssumption
    <3> QED BY <3>1, <3>2, <1>1, <1>3 DEF BooksBalance
  <2> QED BY <2>4, <2>5
<1> QED BY <1>5, <1>7, <1>8, <1>9, <1>16, <1>17, <1>18

\* child_budget() creates a tracker whose ceiling the parent sets aside.
LEMMA ChildBudgetIInv ==
  ASSUME IInv, NEW t \in Trackers, NEW c \in Trackers, NEW n \in 0 .. RootLimit,
         ChildBudget(t, c, n)
  PROVE  IInv'
<1> USE DEF IInv
<1>1. /\ n \in Nat /\ t \in trackers /\ c \notin trackers /\ c # t /\ c # NoTracker
      /\ trackers \subseteq Trackers /\ trackers' = trackers \cup {c}
      /\ UNCHANGED <<consumed, status, owner, amount, actual, climbing>>
  BY BudgetAssumption DEF TypeOK, ChildBudget, grantVars
<1>2. /\ parent' = [parent EXCEPT ![c] = t] /\ limit' = [limit EXCEPT ![c] = n]
      /\ reserved' = [reserved EXCEPT ![t] = reserved[t] + n]
  BY DEF ChildBudget
<1>3. TypeOK'
  BY <1>1, <1>2, BudgetAssumption DEF TypeOK
<1>4. /\ reserved'[t] = reserved[t] + n /\ \A u \in Trackers \ {t} : reserved'[u] = reserved[u]
      /\ limit'[c] = n /\ \A u \in Trackers \ {c} : limit'[u] = limit[u]
      /\ parent'[c] = t /\ \A u \in Trackers \ {c} : parent'[u] = parent[u]
      /\ consumed[c] = 0 /\ reserved'[c] = 0
  BY <1>1, <1>2 DEF TypeOK, Shape
<1>5. Shape'
  <2>1. c # Root /\ Root \in Trackers
    BY <1>1 DEF TypeOK
  <2>2. parent'[Root] = NoTracker /\ limit'[Root] = RootLimit
    BY <2>1, <1>4 DEF Shape
  <2>3. \A u \in trackers' \ {Root} : parent'[u] \in trackers' \ {u}
    BY <1>1, <1>4 DEF Shape
  <2>4. \A u \in Trackers \ trackers' :
          parent'[u] = NoTracker /\ limit'[u] = 0 /\ reserved'[u] = 0 /\ consumed'[u] = 0
    BY <1>1, <1>4 DEF Shape
  <2>5. \A g \in Grants :
          /\ status'[g] # "free" => owner'[g] \in trackers'
          /\ climbing'[g] # NoTracker => climbing'[g] \in trackers' /\ status'[g] = "settled"
    BY <1>1 DEF Shape
  <2> QED BY <2>2, <2>3, <2>4, <2>5 DEF Shape
<1>6. /\ \A u \in trackers' : OpenOn(u)' = OpenOn(u) /\ SettledOn(u)' = SettledOn(u)
                             /\ ClimbingTo(u)' = ClimbingTo(u)
      /\ Climbing' = Climbing /\ Settled' = Settled
      /\ OpenOn(c) = {} /\ SettledOn(c) = {} /\ ClimbingTo(c) = {}
  BY <1>1 DEF OpenOn, Open, SettledOn, ClimbingTo, Climbing, Settled, Shape
<1>7. /\ Children(t)' = Children(t) \cup {c} /\ c \notin Children(t)
      /\ Children(c)' = {}
      /\ \A u \in trackers \ {t} : Children(u)' = Children(u)
  BY <1>1, <1>4, BudgetAssumption DEF Children, Shape
<1>8. \A u \in trackers : /\ Children(u) \in SUBSET Trackers /\ c \notin Children(u)
                          /\ OpenOn(u) \in SUBSET Grants /\ SettledOn(u) \in SUBSET Grants
  BY <1>1 DEF Children, OpenOn, SettledOn
<1>9. \A u \in trackers : /\ Total(limit, Children(u)) \in Nat
                          /\ Total(consumed, Children(u)) \in Nat
                          /\ Total(amount, OpenOn(u)) \in Nat
                          /\ Total(actual, SettledOn(u)) \in Nat
                          /\ reserved[u] \in Nat /\ consumed[u] \in Nat /\ limit[u] \in Int
  BY <1>8, <1>1, TotalsAreNat, BudgetAssumption DEF TypeOK
<1>10. limit \in [Trackers -> Nat] /\ limit' \in [Trackers -> Nat] /\ consumed \in [Trackers -> Nat]
  BY <1>3, BudgetAssumption DEF TypeOK
<1>11. /\ Total(limit', Children(t)') = Total(limit, Children(t)) + n
       /\ Total(consumed, Children(t)') = Total(consumed, Children(t))
  <2>1. \A y \in Children(t) : limit[y] = limit'[y]
    BY <1>1, <1>4, <1>8
  <2>2. Total(limit', Children(t) \cup {c}) = Total(limit, Children(t)) + limit'[c]
    BY <2>1, <1>1, <1>7, <1>8, <1>10, FiniteParts, TotalExtend
  <2>3. Total(consumed, Children(t) \cup {c}) = Total(consumed, Children(t)) + consumed[c]
    BY <1>1, <1>7, <1>8, <1>10, FiniteParts, TotalAdd
  <2> QED BY <2>2, <2>3, <1>1, <1>4, <1>7, <1>9
<1>12. ASSUME NEW u \in trackers, u # t
       PROVE  Total(limit', Children(u)') = Total(limit, Children(u))
  <2>1. \A y \in Children(u) : limit'[y] = limit[y]
    BY <1>1, <1>4, <1>8
  <2> QED BY <2>1, <1>7, <1>12, TotalCong
<1>13. /\ Total(amount, {}) = 0 /\ Total(actual, {}) = 0
       /\ Total(limit', {}) = 0 /\ Total(consumed, {}) = 0
  BY TotalEmpty
<1>14. ReservedLedger'
  <2>1. reserved'[t] = Total(amount, OpenOn(t)) + Total(limit', Children(t)')
    BY <1>1, <1>4, <1>9, <1>11 DEF ReservedLedger
  <2>2. reserved'[c] = Total(amount, OpenOn(c)) + Total(limit', Children(c)')
    BY <1>4, <1>6, <1>7, <1>13
  <2>3. ASSUME NEW u \in trackers, u # t
        PROVE  reserved'[u] = Total(amount, OpenOn(u)) + Total(limit', Children(u)')
    BY <2>3, <1>1, <1>4, <1>12 DEF ReservedLedger
  <2> QED BY <2>1, <2>2, <2>3, <1>1, <1>6 DEF ReservedLedger
<1>15. ConsumedLedger'
  <2>1. consumed[t] + Total(actual, ClimbingTo(t))
          = Total(actual, SettledOn(t)) + Total(consumed, Children(t)')
    BY <1>1, <1>11 DEF ConsumedLedger
  <2>2. consumed[c] + Total(actual, ClimbingTo(c))
          = Total(actual, SettledOn(c)) + Total(consumed, Children(c)')
    BY <1>4, <1>6, <1>7, <1>13
  <2>3. ASSUME NEW u \in trackers, u # t
        PROVE  consumed[u] + Total(actual, ClimbingTo(u))
                 = Total(actual, SettledOn(u)) + Total(consumed, Children(u)')
    BY <2>3, <1>7 DEF ConsumedLedger
  <2> QED BY <2>1, <2>2, <2>3, <1>1, <1>6 DEF ConsumedLedger
<1>16. n <= NonNegative(limit[t] - consumed[t] - reserved[t])
  BY <1>1 DEF ChildBudget, ChildLimits, Available, AvailableWith, NonNegative, TypeOK
<1>17. CommittedWithinLimit'
  <2>1. Total(actual, SettledOn(t)) + reserved'[t] <= limit'[t]
    BY <1>16, <1>1, <1>4, <1>9 DEF CommittedWithinLimit, OwnSpendBooked, NonNegative
  <2>2. Total(actual, SettledOn(c)) + reserved'[c] <= limit'[c]
    BY <1>1, <1>4, <1>6, <1>13
  <2>3. ASSUME NEW u \in trackers, u # t
        PROVE  Total(actual, SettledOn(u)) + reserved'[u] <= limit'[u]
    BY <2>3, <1>1, <1>4 DEF CommittedWithinLimit
  <2> QED BY <2>1, <2>2, <2>3, <1>1, <1>6 DEF CommittedWithinLimit
<1>18. NoOverspend'
  BY <1>1, <1>4 DEF NoOverspend
<1>19. OwnSpendBooked'
  <2>1. Total(actual, SettledOn(c)) <= consumed[c]
    BY <1>4, <1>6, <1>13
  <2>2. \A u \in trackers : Total(actual, SettledOn(u)) <= consumed[u]
    BY DEF OwnSpendBooked
  <2> QED BY <2>1, <2>2, <1>1, <1>6 DEF OwnSpendBooked
<1>20. BooksBalance'
  BY <1>1, <1>6 DEF BooksBalance
<1> QED BY <1>3, <1>5, <1>14, <1>15, <1>17, <1>18, <1>19, <1>20

\* A step that changes nothing keeps the invariant.
LEMMA StutterIInv == ASSUME IInv, UNCHANGED vars PROVE IInv'
BY DEF IInv, vars, trackerVars, grantVars, TypeOK, Shape, ReservedLedger, ConsumedLedger,
     CommittedWithinLimit, NoOverspend, BooksBalance, OwnSpendBooked, OpenOn, Open,
     SettledOn, ClimbingTo, Children, Climbing, Settled

LEMMA NextIInv == IInv /\ [Next]_vars => IInv'
<1> SUFFICES ASSUME IInv, [Next]_vars PROVE IInv'
  OBVIOUS
<1>1. ASSUME NEW t \in Trackers, NEW g \in Grants, NEW a \in Costs, Reserve(t, g, a)
      PROVE  IInv'
  BY <1>1, ReserveIInv
<1>2. ASSUME NEW g \in Grants, NEW a \in Costs, Consume(g, a)
      PROVE  IInv'
  BY <1>2, ConsumeIInv
<1>3. ASSUME NEW g \in Grants, NEW a \in Costs, ConsumeRefused(g, a)
      PROVE  IInv'
  BY <1>3, ConsumeRefusedIInv
<1>4. ASSUME NEW g \in Grants, AbsorbChildSpend(g)
      PROVE  IInv'
  BY <1>4, AbsorbIInv
<1>5. ASSUME NEW t \in Trackers, NEW c \in Trackers, NEW n \in 0 .. RootLimit,
             ChildBudget(t, c, n)
      PROVE  IInv'
  BY <1>5, ChildBudgetIInv
<1>6. CASE UNCHANGED vars
  BY <1>6, StutterIInv
<1> QED BY <1>1, <1>2, <1>3, <1>4, <1>5, <1>6 DEF Next

\* Every reachable state satisfies the inductive invariant.
THEOREM Invariance == Spec => []IInv
<1>1. Init => IInv
  BY InitIInv
<1>2. IInv /\ [Next]_vars => IInv'
  BY NextIInv
<1> QED BY <1>1, <1>2, PTL DEF Spec

\* Values stay in their types; in particular _reserved never goes negative.
THEOREM TypeCorrect == Spec => []TypeOK
<1>1. IInv => TypeOK
  BY DEF IInv
<1> QED BY <1>1, Invariance, PTL

\* The hard ceiling of tracker.py holds for every tracker of every tree.
THEOREM HardCeilingHolds == Spec => []NoOverspend
<1>1. IInv => NoOverspend
  BY DEF IInv
<1> QED BY <1>1, Invariance, PTL

\* No headroom is leaked or released twice.
THEOREM ReservationsExact == Spec => []ReservedLedger
<1>1. IInv => ReservedLedger
  BY DEF IInv
<1> QED BY <1>1, Invariance, PTL

\* The root counts every settled cost of the tree exactly once.
THEOREM SpendCountedOnce == Spec => [](ConsumedLedger /\ BooksBalance)
<1>1. IInv => ConsumedLedger /\ BooksBalance
  BY DEF IInv
<1> QED BY <1>1, Invariance, PTL

\* Own settlements and reservations stay within every ceiling.
THEOREM CommitmentsFit == Spec => []CommittedWithinLimit
<1>1. IInv => CommittedWithinLimit
  BY DEF IInv
<1> QED BY <1>1, Invariance, PTL

-----------------------------------------------------------------------------

\* A tracker without children has booked only what was settled on it, and what it
\* has set aside still fits: each of its open grants can be settled in full.
LEMMA ClaimFits ==
  ASSUME IInv, NEW g \in Grants, Open(g), Children(owner[g]) = {}
  PROVE  amount[g] <= AvailableToSettle(g)
<1> DEFINE t == owner[g]
<1> USE DEF IInv
<1>1. t \in trackers /\ t \in Trackers
  BY DEF Open, Shape, TypeOK
<1>2. limit[t] \in Nat /\ reserved[t] \in Nat /\ consumed[t] \in Nat /\ amount[g] \in Nat
  BY <1>1, BudgetAssumption DEF TypeOK
<1>3. SettledOn(t) \in SUBSET Grants /\ ClimbingTo(t) \in SUBSET Grants
  BY DEF SettledOn, ClimbingTo
<1>4. Total(actual, SettledOn(t)) \in Nat /\ Total(actual, ClimbingTo(t)) \in Nat
  BY <1>3, TotalsAreNat
<1>5. consumed[t] + Total(actual, ClimbingTo(t)) = Total(actual, SettledOn(t)) + 0
  BY <1>1, TotalEmpty DEF ConsumedLedger
<1>6. Total(actual, SettledOn(t)) + reserved[t] <= limit[t]
  BY <1>1 DEF CommittedWithinLimit
<1>7. amount[g] <= limit[t] - consumed[t] - (reserved[t] - amount[g])
  BY <1>2, <1>4, <1>5, <1>6
<1> QED BY <1>2, <1>7 DEF AvailableToSettle, AvailableWith, NonNegative

\* No step refuses a cost within a claim on a tracker without children, and no
\* tracker loses its children.
LEMMA StepHonours ==
  ASSUME IInv, ReservationHonoured, [Next]_vars
  PROVE  ReservationHonoured'
<1> USE DEF ReservationHonoured
<1>1. ASSUME NEW t \in Trackers, NEW g \in Grants, NEW a \in Costs, Reserve(t, g, a)
      PROVE  ReservationHonoured'
  BY <1>1 DEF Reserve, Children, IInv, TypeOK
<1>2. ASSUME NEW g \in Grants, NEW a \in Costs, Consume(g, a)
      PROVE  ReservationHonoured'
  BY <1>2 DEF Consume, Children, IInv, TypeOK
<1>3. ASSUME NEW g \in Grants, NEW a \in Costs, ConsumeRefused(g, a)
      PROVE  ReservationHonoured'
  <2>1. /\ \A h \in Grants \ {g} : status'[h] = status[h] /\ actual'[h] = actual[h]
        /\ actual'[g] = a /\ amount' = amount /\ owner' = owner
    BY <1>3 DEF ConsumeRefused, IInv, TypeOK
  <2>2. a > amount[g] \/ Children(owner[g]) # {}
    <3>1. a \in Nat /\ amount[g] \in Nat /\ AvailableToSettle(g) < a /\ Open(g)
      BY <1>3, BudgetAssumption DEF ConsumeRefused, IInv, TypeOK
    <3>2. AvailableToSettle(g) \in Int
      <4>1. owner[g] \in Trackers
        BY <3>1 DEF Open, IInv, Shape, TypeOK
      <4> QED BY <3>1, <4>1, BudgetAssumption
            DEF AvailableToSettle, AvailableWith, NonNegative, IInv, TypeOK
    <3> QED BY <3>1, <3>2, ClaimFits
  <2>3. \A h \in Grants : Children(owner[h])' = Children(owner[h])
    BY <1>3 DEF ConsumeRefused, trackerVars, Children
  <2> QED BY <2>1, <2>2, <2>3
<1>4. ASSUME NEW g \in Grants, AbsorbChildSpend(g)
      PROVE  ReservationHonoured'
  BY <1>4 DEF AbsorbChildSpend, Children
<1>5. ASSUME NEW t \in Trackers, NEW c \in Trackers, NEW n \in 0 .. RootLimit,
             ChildBudget(t, c, n)
      PROVE  ReservationHonoured'
  <2>1. status' = status /\ actual' = actual /\ amount' = amount /\ owner' = owner
    BY <1>5 DEF ChildBudget, grantVars
  <2>2. \A h \in Grants : Children(owner[h]) \subseteq Children(owner[h])'
    BY <1>5 DEF ChildBudget, grantVars, Children, IInv, TypeOK
  <2> QED BY <2>1, <2>2
<1>6. CASE UNCHANGED vars
  BY <1>6 DEF vars, trackerVars, grantVars, Children
<1> QED BY <1>1, <1>2, <1>3, <1>4, <1>5, <1>6 DEF Next

\* The promise of the class docstring, kept on every tracker without children.
THEOREM ReservationsHonoured == Spec => []ReservationHonoured
<1>1. Init => ReservationHonoured
  BY DEF Init, ReservationHonoured
<1>2. IInv /\ ReservationHonoured /\ [Next]_vars => ReservationHonoured'
  BY StepHonours
<1> QED BY <1>1, <1>2, Invariance, PTL DEF Spec

\* All books of the tree hold together, however its callers interleave.
THEOREM BooksHold == Spec => []LedgersExact
<1>1. IInv /\ ReservationHonoured => LedgersExact
  BY DEF IInv, LedgersExact
<1> QED BY <1>1, Invariance, ReservationsHonoured, PTL

-----------------------------------------------------------------------------

\* The root's books only grow, by what fits under its limit.
LEMMA StepSpends ==
  ASSUME IInv, IInv', [Next]_vars
  PROVE  [Account!Next]_(consumed[Root])
<1>1. Root \in trackers /\ trackers \subseteq Trackers /\ consumed[Root] \in Nat /\ limit'[Root] = RootLimit
  BY BudgetAssumption DEF IInv, TypeOK, Shape
<1>2. consumed'[Root] <= RootLimit
  BY <1>1 DEF IInv, NoOverspend, TypeOK, Shape
<1>3. ASSUME NEW a \in Nat, consumed'[Root] = consumed[Root] + a
      PROVE  Account!Next
  <2>1. a \in 0 .. RootLimit /\ consumed[Root] + a <= RootLimit
    BY <1>1, <1>2, <1>3, BudgetAssumption
  <2> QED BY <2>1, <1>3 DEF Account!Next, Account!Spend
<1>4. \E a \in Nat : consumed'[Root] = consumed[Root] + a
  <2>1. ASSUME NEW t \in Trackers, NEW n \in Nat,
               consumed' = [consumed EXCEPT ![t] = consumed[t] + n]
        PROVE  \E a \in Nat : consumed'[Root] = consumed[Root] + a
    <3>1. CASE t = Root
      BY <2>1, <3>1, <1>1 DEF IInv, TypeOK
    <3>2. CASE t # Root
      <4>1. consumed'[Root] = consumed[Root] + 0
        BY <2>1, <3>2, <1>1 DEF IInv, TypeOK
      <4> QED BY <4>1
    <3> QED BY <3>1, <3>2
  <2>2. ASSUME consumed' = consumed PROVE \E a \in Nat : consumed'[Root] = consumed[Root] + a
    <3>1. consumed'[Root] = consumed[Root] + 0
      BY <2>2, <1>1
    <3> QED BY <3>1
  <2>3. ASSUME NEW g \in Grants, NEW a \in Costs, Consume(g, a)
        PROVE  \E t \in Trackers, n \in Nat : consumed' = [consumed EXCEPT ![t] = consumed[t] + n]
    BY <2>3, BudgetAssumption DEF Consume, IInv, Shape, TypeOK, Open
  <2>4. ASSUME NEW g \in Grants, AbsorbChildSpend(g)
        PROVE  \E t \in Trackers, n \in Nat : consumed' = [consumed EXCEPT ![t] = consumed[t] + n]
    BY <2>4 DEF AbsorbChildSpend, IInv, Shape, TypeOK
  <2> QED BY <2>1, <2>2, <2>3, <2>4
       DEF Next, Reserve, ConsumeRefused, ChildBudget, vars, trackerVars
<1> QED BY <1>3, <1>4

\* Seen from the root, the concurrent tree implements one hard-ceiling account.
THEOREM TreeIsOneAccount == Spec => HardCeilingSpec
<1>1. Init => Account!Init
  BY BudgetAssumption DEF Init, Account!Init
<1>2. IInv /\ IInv' /\ [Next]_vars => [Account!Next]_(consumed[Root])
  BY StepSpends
<1> QED BY <1>1, <1>2, Invariance, PTL DEF Spec, HardCeilingSpec, Account!Spec

=============================================================================
