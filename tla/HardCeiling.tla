---------------------------- MODULE HardCeiling ----------------------------
(***************************************************************************)
(* What a budget promises its caller: the spend it reports only grows, and *)
(* never passes the limit it was created with.                             *)
(***************************************************************************)
EXTENDS Naturals

CONSTANT Limit
VARIABLE spent

Init == spent = 0

Spend(amount) == /\ spent + amount <= Limit
                 /\ spent' = spent + amount

Next == \E amount \in 0 .. Limit : Spend(amount)

Spec == Init /\ [][Next]_spent

=============================================================================
