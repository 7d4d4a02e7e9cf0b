------------------------------ MODULE MCGuest ------------------------------
(* Small carts for TLC: the service of the first order has two panels, that *)
(* of the second none any more.                                             *)
EXTENDS GuestProps, TLC

CONSTANTS a, b, o1, o2   \* model values: panels and orders

Cart == (o1 :> <<a, b>>) @@ (o2 :> <<>>)

OfEach == [k \in FaultKinds |-> 1]
=============================================================================
