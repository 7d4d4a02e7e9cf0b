----------------------------- MODULE OrderProps -----------------------------
(***************************************************************************)
(* What is checked and proved of OrderLifecycle.                           *)
(***************************************************************************)
EXTENDS OrderLifecycle, Functions

InHand(o) == \E t \in Tasks : task[t] # Resting /\ task[t].order = o
AtRest == \A t \in Tasks : task[t] = Resting

\* Money was released or charged for an order for which it was not held: the
\* pool is one for all orders of a customer.
Foreign == \E o \in Orders : moved[o]["release"] + moved[o]["charge"] > moved[o]["hold"]

\* Never more is held than is there, and no hold is negative, whatever races,
\* dies or throws, for any mix of customers, workers and administrators.
HeldIsThere ==
    /\ Covered(wallet)
    /\ \A t \in Tasks :
          task[t] # Resting /\ task[t].at = "commit" => Covered(task[t].seen)

\* What the ledger says is still held for o.
Outstanding(o) == moved[o]["hold"] - moved[o]["release"] - moved[o]["charge"]

\* While handlers come one at a time, the wallet is what the ledger makes it,
\* whichever calls are refused, throw or die and whatever administrators do: a
\* refused call leaves no trace and a catch block repeats none.
PoolIsExplained ==
    /\ wallet.hold = Opening.hold
          + FoldFunction(+, 0, [o \in Orders |-> Outstanding(o)])
    /\ wallet.balance = Opening.balance
          + FoldFunction(+, 0, [o \in Orders |-> moved[o]["refund"] - moved[o]["charge"]])

\* What a panel may say of o divides its price in two parts.
Divides(o, remains) ==
    remains # NoNumber /\ DonePrice(o, remains) \in 0..Price[o]

\* ... and an order has been charged, given back and announced as its status
\* says, once; until some order is settled for which nothing was held.  What
\* a panel cancelled stays held (fund-settlement.test.ts: "should not settle
\* for CANCELLED"), and so does the price of a partial order whose panel says
\* something that does not divide it: billing refuses the parts, or there are
\* none.
SettledAsItEnded ==
    AtRest /\ ~Foreign =>
        \A o \in Orders \ (Prepaid \cup AdminOrders) :
            LET charge == moved[o]["charge"]
                live == Outstanding(o) = Price[o] /\ charge = 0
            IN  CASE order[o].status = "NONE" -> moved[o]["hold"] = 0
                  [] order[o].status \in {"PENDING", "PROCESSING"} -> live
                  [] order[o].status = "COMPLETED" ->
                       charge = Price[o] /\ Outstanding(o) = 0 /\ told[o]["completed"] = 1
                  [] order[o].status = "PARTIAL" ->
                       /\ moved[o]["hold"] = Price[o] /\ told[o]["partial"] = 1
                       /\ \/ /\ Outstanding(o) = 0
                             /\ \E remains \in Remains :
                                   Divides(o, remains) /\ charge = DonePrice(o, remains)
                          \/ live /\ \E remains \in Remains : ~Divides(o, remains)
                  [] order[o].status = "FAILED" -> charge = 0 /\ Outstanding(o) = 0
                  [] order[o].status = "CANCELLED" ->
                       IF told[o]["cancelled"] = 1
                       THEN charge = 0 /\ Outstanding(o) = 0 ELSE live

\* The most that a partial order can cost: more than its price if panels may
\* say that less than nothing remains.
Worth(o) == DonePrice(o, Least)

\* A customer is charged at most once for each announcement that an order was
\* completed, wholly or in part: every worker tells before it charges.
ChargedWasTold ==
    \A o \in Orders \ AdminOrders :
        moved[o]["charge"] <= Price[o] * told[o]["completed"] + Worth(o) * told[o]["partial"]

\* Once an order has ended and no task that read it before is left, nothing
\* but an administrator touches it again.
EndedIsFinal ==
    [][\A o \in Orders \ AdminOrders :
          order[o].status \in Ended /\ ~InHand(o) =>
              /\ order'[o] = order[o]
              /\ moved'[o] = moved[o]
              /\ told'[o] = told[o]
              /\ ~InHand(o)']_vars

\* An order that is with a panel ends, through crashes and races, whatever
\* the panel says or does not say.
PlacedEnds ==
    \A o \in Orders \ AdminOrders :
        order[o].status = "PROCESSING" ~> order[o].status \in Ended

=============================================================================
