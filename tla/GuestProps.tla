----------------------------- MODULE GuestProps -----------------------------
(***************************************************************************)
(* What is checked and proved of GuestOrders.                              *)
(***************************************************************************)
EXTENDS GuestOrders, FiniteSets

\* The panels that have accepted o.
Copies(o) == {p \in Panels : placed[o][p] > 0}

\* However many deliveries run at once and wherever they crash, two never
\* submit the same order, and no panel gets an order twice
\* (claimOrderForSubmission lets exactly one delivery submit each order).
PlacedOncePerPanel ==
    /\ \A o \in Orders, p \in Panels : placed[o][p] <= 1
    /\ \A t, u \in Tasks :
          t # u /\ walk[t] # NoWalk /\ walk[u] # NoWalk =>
              walk[t].order # walk[u].order

\* An order is with one panel, and with one more for every lost answer or
\* failed insert, never for a crash or a repeated webhook: the walk stops at
\* the first panel that accepts, and nobody walks the order again.
CopiesCostFaults ==
    \A o \in Orders : Cardinality(Copies(o)) <= 1 + faults["answer"] + faults["record"]

\* No panel is asked, and no order leaves PENDING_PAYMENT but for CANCELLED,
\* before the guest has paid and the payment row says so.
NothingBeforePayment ==
    \A o \in Orders :
        Copies(o) # {} \/ order[o].status \in {"PROCESSING", "FAILED"} =>
            customer /\ payment = "PAID"

\* A purchase is reported at most once, and only for a settled payment.
ConfirmedAtMostOnce == confirmed <= (IF payment = "PAID" THEN 1 ELSE 0)

\* An order is announced as created or as exhausted, once and never as both,
\* and the announcement is true: a created order has the external id of a
\* panel that accepted it, and to an exhausted one every panel said no.
OutcomeIsTrue ==
    \A o \in Orders :
        /\ event[o]["created"] + event[o]["exhausted"] <= 1
        /\ order[o].panel # NoPanel =>
              /\ placed[o][order[o].panel] = 1
              /\ [panel |-> order[o].panel, ok |-> TRUE] \in attempt[o]
        /\ event[o]["created"] = 1 => order[o].panel # NoPanel
        /\ event[o]["exhausted"] = 1 =>
              /\ order[o].panel = NoPanel
              /\ \A i \in DOMAIN Route[o] :
                    [panel |-> Route[o][i], ok |-> FALSE] \in attempt[o]

\* Once the guest has paid no order stays PENDING_PAYMENT, through crashes,
\* repeated webhooks and the expiry worker.
PaidMovesOn ==
    \A o \in Orders : customer ~> order[o].status # "PENDING_PAYMENT"

\* If nothing crashes, every order of a paid cart ends with an announcement,
\* whatever the panels answer and whoever else delivers or cancels.
PaidIsResolved ==
    \A o \in Orders :
        customer ~> (\E e \in Events : event[o][e] > 0) \/ faults["crash"] > 0

\* No order waits for a payment for ever: neither that of a guest who was sent
\* to the provider and does not pay, nor one whose checkout broke after the
\* orders were written; provided time passes and the expiry worker ticks.
NoneWaitsForever ==
    WF_vars(BecomesStale) /\ WF_vars(SweepRead) =>
        \A o \in Orders :
            order[o].status = "PENDING_PAYMENT" ~> order[o].status # "PENDING_PAYMENT"
=============================================================================
