----------------------------- MODULE MCDeposits -----------------------------
(* Small instances of Deposits: one user, deposits of 2.                   *)
EXTENDS DepositProps

CONSTANTS Ids, Order, Admin, Earlier   \* model values

MCOpening == [u \in Users |-> 1]
MCRefs == Ids \cup {Order, Admin, Earlier}
MCOrderRefs == {Order}
MCOwner == [d \in DepositIds |-> CHOOSE u \in Users : TRUE]
MCValue == [d \in DepositIds |-> 2]
UpwardOnly == {1}
NoAdjustment == {}
=============================================================================
