------------------------------ MODULE MCOrders ------------------------------
(* Small wallets and orders for TLC.                                       *)
EXTENDS OrderProps

CONSTANTS o1, o2, g, r   \* model values

MCPrice == [o \in Orders |-> CASE o = o1 -> 2 [] o = r -> 0 [] OTHER -> 1]
MCQuantity == [o \in Orders |-> IF o = o1 THEN 2 ELSE 1]

\* What a panel says fits o1; for the others it may be more than was ordered.
Left == {0, 1, 2}
\* Less than nothing, something, more than was ordered, no number.
Wild == {-1, 1, 3, NoNumber}
MinusOne == -1

Tight == [balance |-> 2, hold |-> 0]
Shared == [balance |-> 4, hold |-> 2]
=============================================================================
