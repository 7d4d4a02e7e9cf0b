---------------------------- MODULE GuestOrders ----------------------------
(***************************************************************************)
(* A guest's cart: one payment and its orders, from checkout until every   *)
(* order is with a panel or given up                                       *)
(* (modules/orders/confirm-order-payment.flow.ts with                      *)
(* billing/payment.repository.ts, the checkout of modules/landings and the *)
(* pending-payment expiry worker).                                         *)
(*                                                                         *)
(* The provider's webhook may be delivered any number of times, also while *)
(* an earlier delivery is still running.  Every await of a delivery is a   *)
(* step.  Two statements are guarded updates (the claims); the other       *)
(* writes of an order's status are by id and unconditional, and go through *)
(* the pool: the status is committed before the transaction that emits the *)
(* event, although the code wraps both in one $transaction.                *)
(*                                                                         *)
(* Checkout writes the payment and all its orders in one transaction and   *)
(* opens a session at the provider outside of it; the guest gets to the    *)
(* session only if everything else succeeds too.                           *)
(***************************************************************************)
EXTENDS Failover

CONSTANT NoPanel   \* an order that has no external id

ASSUME GuestAssumption == NoPanel \notin Panels

VARIABLES
    checkout,   \* how far the guest's request is: what it has done last
    customer,   \* has the guest paid at the provider?
    stale,      \* are the orders past the time to pay?
    payment,    \* the payment row
    order,      \* order[o]: the order row
    delivery,   \* delivery[t]: what delivery t is in the middle of
    sweep,      \* what the expiry worker is in the middle of
    confirmed,  \* payment.confirmed events in the outbox
    event       \* event[o]: events of o in the outbox, by type

guestVars ==
    <<checkout, customer, stale, payment, order, delivery, sweep, confirmed, event>>
vars == <<failoverVars, guestVars>>

Statuses == {"NONE", "PENDING_PAYMENT", "PROCESSING", "FAILED", "CANCELLED"}
Events == {"created", "exhausted", "cancelled"}

Checkouts ==
    {"none", "account", "orders", "session", "attached", "open", "broken"}

Resting == [at |-> "rest"]

\* claim: has read a PENDING payment; confirm: has won the claim of it;
\* orders: goes through the orders it read as unpaid; submit: submits one;
\* created, exhausted: has written that order's status and not its event.
Deliveries ==
    [at : {"claim", "confirm", "orders", "submit", "created", "exhausted"},
     todo : SUBSET Orders]

\* batch: cancels the orders it read as stale; emit: has cancelled one.
Sweeps == [at : {"batch"}, todo : SUBSET Orders]
          \cup [at : {"emit"}, todo : SUBSET Orders, order : Orders]

GuestTypeOK ==
    /\ FailoverTypeOK
    /\ checkout \in Checkouts
    /\ customer \in BOOLEAN
    /\ stale \in BOOLEAN
    /\ payment \in {"NONE", "PENDING", "PAID"}
    /\ order \in [Orders -> [status : Statuses, panel : Panels \cup {NoPanel}]]
    /\ delivery \in [Tasks -> {Resting} \cup Deliveries]
    /\ sweep \in {Resting} \cup Sweeps
    /\ confirmed \in Nat
    /\ event \in [Orders -> [Events -> Nat]]

GuestInit ==
    /\ FailoverInit
    /\ checkout = "none"
    /\ customer = FALSE
    /\ stale = FALSE
    /\ payment = "NONE"
    /\ order = [o \in Orders |-> [status |-> "NONE", panel |-> NoPanel]]
    /\ delivery = [t \in Tasks |-> Resting]
    /\ sweep = Resting
    /\ confirmed = 0
    /\ event = [o \in Orders |-> [e \in Events |-> 0]]

Unpaid == {o \in Orders : order[o].status = "PENDING_PAYMENT"}

Go(t, at, todo) ==
    delivery' = [delivery EXCEPT ![t] = [at |-> at, todo |-> todo]]

Rest(t) == delivery' = [delivery EXCEPT ![t] = Resting]

At(t, at) == delivery[t].at = at

Emit(o, e) ==
    event' = [event EXCEPT ![o] =
                 [x \in Events |-> IF x = e THEN event[o][x] + 1 ELSE event[o][x]]]

-----------------------------------------------------------------------------
(* The guest's request: executeGuestCartCheckout.  Carts it refuses leave  *)
(* nothing.                                                                *)

Reaches(last, next) ==
    /\ checkout = last
    /\ checkout' = next

\* The account of the guest, new or not, with the mail that sets its password.
CreateAutoUser ==
    /\ Reaches("none", "account")
    /\ UNCHANGED <<failoverVars, customer, stale, payment, order, delivery, sweep,
                   confirmed, event>>

CreatePaymentWithOrders ==
    /\ Reaches("account", "orders")
    /\ payment' = "PENDING"
    /\ order' = [o \in Orders |-> [status |-> "PENDING_PAYMENT", panel |-> NoPanel]]
    /\ UNCHANGED <<failoverVars, customer, stale, delivery, sweep, confirmed, event>>

\* The provider opens a session or does not; the session goes into the payment
\* row; that the checkout began is emitted.
CreatePaymentSession ==
    /\ Reaches("orders", "session") \/ Reaches("orders", "broken")
    /\ UNCHANGED <<failoverVars, customer, stale, payment, order, delivery, sweep,
                   confirmed, event>>

AttachPaymentSession ==
    /\ Reaches("session", "attached")
    /\ UNCHANGED <<failoverVars, customer, stale, payment, order, delivery, sweep,
                   confirmed, event>>

EmitCheckoutStarted ==
    /\ Reaches("attached", "open")
    /\ UNCHANGED <<failoverVars, customer, stale, payment, order, delivery, sweep,
                   confirmed, event>>

CheckoutThrows ==
    /\ \E at \in {"account", "orders", "session", "attached"} : Reaches(at, "broken")
    /\ Fault("crash")
    /\ UNCHANGED <<placed, attempt, walk, customer, stale, payment, order, delivery,
                   sweep, confirmed, event>>

Checkout ==
    \/ CreateAutoUser
    \/ CreatePaymentWithOrders
    \/ CreatePaymentSession
    \/ AttachPaymentSession
    \/ EmitCheckoutStarted
    \/ CheckoutThrows

-----------------------------------------------------------------------------
(* The guest, sent to the provider, and the clock.  A guest may pay after  *)
(* the orders have expired.                                                *)

CustomerPays ==
    /\ checkout = "open"
    /\ ~customer
    /\ customer' = TRUE
    /\ UNCHANGED <<failoverVars, checkout, stale, payment, order, delivery, sweep,
                   confirmed, event>>

BecomesStale ==
    /\ payment # "NONE"
    /\ ~stale
    /\ stale' = TRUE
    /\ UNCHANGED <<failoverVars, checkout, customer, payment, order, delivery, sweep,
                   confirmed, event>>

-----------------------------------------------------------------------------
(* A delivery of the webhook *)

LoadUnpaid(t) ==   \* seeded fault
    /\ delivery[t] = Resting
    /\ IF payment = "PENDING" THEN Go(t, "claim", Unpaid)
                              ELSE Unpaid # {} /\ Go(t, "orders", Unpaid)
    /\ UNCHANGED <<failoverVars, checkout, customer, stale, payment, order, sweep,
                   confirmed, event>>

LoadPendingOnly(t) ==   \* seeded fault
    /\ customer
    /\ delivery[t] = Resting
    /\ payment = "PENDING"
    /\ Go(t, "claim", Unpaid)
    /\ UNCHANGED <<failoverVars, checkout, customer, stale, payment, order, sweep,
                   confirmed, event>>

\* findPaymentWithOrders.  The status it read decides whether the claim is
\* tried, the orders it read as PENDING_PAYMENT are the ones it submits.  A
\* delivery that reads a settled payment without such orders does nothing.
Load(t) ==
    /\ customer
    /\ delivery[t] = Resting
    /\ IF payment = "PENDING" THEN Go(t, "claim", Unpaid)
                              ELSE Unpaid # {} /\ Go(t, "orders", Unpaid)
    /\ UNCHANGED <<failoverVars, checkout, customer, stale, payment, order, sweep,
                   confirmed, event>>

ClaimPaymentUnguarded(t) ==   \* seeded fault
    /\ At(t, "claim")
    /\ payment' = "PAID"
    /\ Go(t, "confirm", delivery[t].todo)
    /\ UNCHANGED <<failoverVars, checkout, customer, stale, order, sweep,
                   confirmed, event>>

\* claimPaymentForSettlement, which only one delivery wins.
ClaimPayment(t) ==
    /\ At(t, "claim")
    /\ payment' = "PAID"
    /\ Go(t, IF payment = "PENDING" THEN "confirm" ELSE "orders",
          delivery[t].todo)
    /\ UNCHANGED <<failoverVars, checkout, customer, stale, order, sweep,
                   confirmed, event>>

EmitConfirmed(t) ==
    /\ At(t, "confirm")
    /\ confirmed' = confirmed + 1
    /\ Go(t, "orders", delivery[t].todo)
    /\ UNCHANGED <<failoverVars, checkout, customer, stale, payment, order, sweep,
                   event>>

ClaimOrderUnguarded(t, o) ==   \* seeded fault
    /\ At(t, "orders")
    /\ o \in delivery[t].todo
    /\ order' = [order EXCEPT ![o] = [status |-> "PROCESSING", panel |-> @.panel]]
    /\ StartWalk(t, o)
    /\ Go(t, "submit", delivery[t].todo \ {o})
    /\ UNCHANGED <<placed, attempt, faults, checkout, customer, stale, payment, sweep,
                   confirmed, event>>

\* claimOrderForSubmission: whoever finds the order still unpaid submits it.
ClaimOrder(t, o) ==
    /\ At(t, "orders")
    /\ o \in delivery[t].todo
    /\ order[o].status = "PENDING_PAYMENT"
    /\ order' = [order EXCEPT ![o] = [status |-> "PROCESSING", panel |-> @.panel]]
    /\ StartWalk(t, o)
    /\ Go(t, "submit", delivery[t].todo \ {o})
    /\ UNCHANGED <<placed, attempt, faults, checkout, customer, stale, payment, sweep,
                   confirmed, event>>

SkipOrder(t, o) ==
    /\ At(t, "orders")
    /\ o \in delivery[t].todo
    /\ order[o].status # "PENDING_PAYMENT"
    /\ Go(t, "orders", delivery[t].todo \ {o})
    /\ UNCHANGED <<failoverVars, checkout, customer, stale, payment, order, sweep,
                   confirmed, event>>

Submit(t) ==
    /\ At(t, "submit")
    /\ Walk(t)
    /\ UNCHANGED guestVars

\* The order is with a panel: its status and external id, whatever the row
\* has become, and then its event.
WriteProcessing(t) ==
    /\ At(t, "submit")
    /\ Walking(t, "won")
    /\ order' = [order EXCEPT ![walk[t].order] =
                    [status |-> "PROCESSING", panel |-> Panel(t)]]
    /\ Go(t, "created", delivery[t].todo)
    /\ UNCHANGED <<failoverVars, checkout, customer, stale, payment, sweep,
                   confirmed, event>>

WriteFailed(t) ==
    /\ At(t, "submit")
    /\ Exhausted(t)
    /\ order' = [order EXCEPT ![walk[t].order] =
                    [status |-> "FAILED", panel |-> @.panel]]
    /\ Go(t, "exhausted", delivery[t].todo)
    /\ UNCHANGED <<failoverVars, checkout, customer, stale, payment, sweep,
                   confirmed, event>>

EmitOutcomeIfCreated(t) ==   \* seeded fault
    /\ At(t, "created") \/ At(t, "exhausted")
    /\ IF At(t, "created") THEN Emit(walk[t].order, "created") ELSE UNCHANGED event
    /\ StopWalk(t)
    /\ Go(t, "orders", delivery[t].todo)
    /\ UNCHANGED <<placed, attempt, faults, checkout, customer, stale, payment, order,
                   sweep, confirmed>>

EmitOutcome(t) ==
    /\ At(t, "created") \/ At(t, "exhausted")
    /\ Emit(walk[t].order, delivery[t].at)
    /\ StopWalk(t)
    /\ Go(t, "orders", delivery[t].todo)
    /\ UNCHANGED <<placed, attempt, faults, checkout, customer, stale, payment, order,
                   sweep, confirmed>>

Finish(t) ==
    /\ At(t, "orders")
    /\ delivery[t].todo = {}
    /\ Rest(t)
    /\ UNCHANGED <<failoverVars, checkout, customer, stale, payment, order, sweep,
                   confirmed, event>>

\* The process dies or a statement throws.  Nothing is undone; the provider
\* gets no 200 and delivers again.
Crash(t) ==
    /\ delivery[t] # Resting
    /\ Fault("crash")
    /\ Rest(t)
    /\ StopWalk(t)
    /\ UNCHANGED <<placed, attempt, checkout, customer, stale, payment, order, sweep,
                   confirmed, event>>

-----------------------------------------------------------------------------
(* The expiry worker: one batch of stale unpaid orders, cancelled one by   *)
(* one without another look at them.                                       *)

SweepReadOpened ==   \* seeded fault
    /\ stale
    /\ checkout = "open"
    /\ sweep = Resting
    /\ Unpaid # {}
    /\ sweep' = [at |-> "batch", todo |-> Unpaid]
    /\ UNCHANGED <<failoverVars, checkout, customer, stale, payment, order, delivery,
                   confirmed, event>>

SweepRead ==
    /\ stale
    /\ sweep = Resting
    /\ Unpaid # {}
    /\ sweep' = [at |-> "batch", todo |-> Unpaid]
    /\ UNCHANGED <<failoverVars, checkout, customer, stale, payment, order, delivery,
                   confirmed, event>>

SweepCancel(o) ==
    /\ sweep.at = "batch"
    /\ o \in sweep.todo
    /\ order' = [order EXCEPT ![o] = [status |-> "CANCELLED", panel |-> @.panel]]
    /\ sweep' = [at |-> "emit", todo |-> sweep.todo \ {o}, order |-> o]
    /\ UNCHANGED <<failoverVars, checkout, customer, stale, payment, delivery,
                   confirmed, event>>

SweepEmit ==
    /\ sweep.at = "emit"
    /\ Emit(sweep.order, "cancelled")
    /\ sweep' = [at |-> "batch", todo |-> sweep.todo]
    /\ UNCHANGED <<failoverVars, checkout, customer, stale, payment, order, delivery,
                   confirmed>>

SweepEnd ==
    /\ sweep.at = "batch"
    /\ sweep.todo = {}
    /\ sweep' = Resting
    /\ UNCHANGED <<failoverVars, checkout, customer, stale, payment, order, delivery,
                   confirmed, event>>

\* The emit throws: the error is logged and the batch goes on.
SweepEmitFails ==
    /\ sweep.at = "emit"
    /\ Fault("crash")
    /\ sweep' = [at |-> "batch", todo |-> sweep.todo]
    /\ UNCHANGED <<placed, attempt, walk, checkout, customer, stale, payment, order,
                   delivery, confirmed, event>>

SweepCrash ==
    /\ sweep # Resting
    /\ Fault("crash")
    /\ sweep' = Resting
    /\ UNCHANGED <<placed, attempt, walk, checkout, customer, stale, payment, order,
                   delivery, confirmed, event>>

-----------------------------------------------------------------------------
Deliver(t) ==
    \/ Load(t)
    \/ ClaimPayment(t)
    \/ EmitConfirmed(t)
    \/ \E o \in Orders : ClaimOrder(t, o) \/ SkipOrder(t, o)
    \/ Submit(t)
    \/ WriteProcessing(t)
    \/ WriteFailed(t)
    \/ EmitOutcome(t)
    \/ Finish(t)

Sweep ==
    \/ SweepRead
    \/ \E o \in Orders : SweepCancel(o)
    \/ SweepEmit
    \/ SweepEnd
    \/ SweepEmitFails
    \/ SweepCrash

GuestNext ==
    \/ Checkout
    \/ CustomerPays
    \/ BecomesStale
    \/ \E t \in Tasks : Deliver(t) \/ Crash(t)
    \/ Sweep

GuestSpec == GuestInit /\ [][GuestNext]_vars

(* Fairness: the event loop runs a started delivery and a started batch on, *)
(* and the provider repeats an unanswered webhook.                          *)
FairGuestSpec ==
    /\ GuestSpec
    /\ \A t \in Tasks : WF_vars(Deliver(t))
    /\ WF_vars(SweepEmit \/ SweepEnd \/ \E o \in Orders : SweepCancel(o))
=============================================================================
