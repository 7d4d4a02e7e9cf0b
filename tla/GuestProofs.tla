---------------------------- MODULE GuestProofs ----------------------------
(***************************************************************************)
(* The properties of GuestOrders for every cart, every list of panels and  *)
(* any number of deliveries and faults.                                    *)
(***************************************************************************)
EXTENDS GuestProps, FiniteSetTheorems, TLAPS

\* While a task is at a panel, that panel is one of the order's route.
LEMMA PanelOfRoute ==
    ASSUME FailoverTypeOK, NEW t \in Tasks, NEW at, Walking(t, at)
    PROVE  /\ walk[t] \in Walks
           /\ walk[t].order \in Orders
           /\ walk[t].next \in DOMAIN Route[walk[t].order]
           /\ Panel(t) \in Panels
  <1>1. walk[t] \in Walks /\ walk[t].order \in Orders /\ walk[t].next \in Nat \ {0}
    BY DEF FailoverTypeOK, Walking, Walks, NoWalk
  <1>2. Route[walk[t].order] \in Seq(Panels)
    BY <1>1, FailoverAssumption
  <1>3. walk[t].next \in 1..Len(Route[walk[t].order])
    BY <1>1, <1>2 DEF Walking
  <1>4. Panel(t) \in Panels
    BY <1>2, <1>3 DEF Panel
  <1> QED BY <1>1, <1>2, <1>3, <1>4

\* A fault of any kind keeps the counters natural numbers.
LEMMA FaultTyped ==
    ASSUME faults \in [FaultKinds -> Nat], NEW kind \in FaultKinds, Fault(kind)
    PROVE  faults' \in [FaultKinds -> Nat]
  BY DEF Fault

\* The walk keeps its types.
LEMMA WalkTypeStep ==
    ASSUME FailoverTypeOK, NEW t \in Tasks, Walk(t)
    PROVE  FailoverTypeOK'
  <1>1. \E at : Walking(t, at)
    BY DEF Walk, PanelAccepts, PanelRefuses, AnswerLost, RecordSuccess,
           RecordSuccessFails, RecordFailure
  <1>2. /\ walk[t] \in Walks
        /\ walk[t].order \in Orders
        /\ walk[t].next \in Nat \ {0}
        /\ Panel(t) \in Panels
    BY <1>1, PanelOfRoute DEF Walks
  <1>3. placed' \in [Orders -> [Panels -> Nat]]
    <2> DEFINE more == [p \in Panels |-> IF p = Panel(t)
                                           THEN placed[walk[t].order][p] + 1
                                           ELSE placed[walk[t].order][p]]
    <2>1. placed[walk[t].order] \in [Panels -> Nat]
      BY <1>2 DEF FailoverTypeOK
    <2>2. more \in [Panels -> Nat]
      BY <2>1
    <2>3. Place(t) => placed' = [placed EXCEPT ![walk[t].order] = more]
      BY DEF Place
    <2>4. CASE Place(t)
      <3> HIDE DEF more
      <3> QED BY <2>2, <2>3, <2>4 DEF FailoverTypeOK
    <2>5. CASE UNCHANGED placed
      BY <2>5 DEF FailoverTypeOK
    <2> QED BY <2>4, <2>5 DEF Walk, PanelAccepts, PanelRefuses, AnswerLost,
            RecordSuccess, RecordSuccessFails, RecordFailure
  <1>4. attempt' \in [Orders -> SUBSET [panel : Panels, ok : BOOLEAN]]
    <2>1. \A ok \in BOOLEAN :
             Record(t, ok) =>
                attempt' \in [Orders -> SUBSET [panel : Panels, ok : BOOLEAN]]
      BY <1>2 DEF Record, FailoverTypeOK
    <2> QED BY <2>1 DEF Walk, PanelAccepts, PanelRefuses, AnswerLost,
            RecordSuccess, RecordSuccessFails, RecordFailure, FailoverTypeOK
  <1>5. walk' \in [Tasks -> {NoWalk} \cup Walks]
    <2> DEFINE Stages == {"panel", "accepted", "refused", "won"}
    <2>1. ASSUME NEW next \in Nat \ {0}, NEW at \in Stages, MoveTo(t, next, at)
          PROVE  walk' \in [Tasks -> {NoWalk} \cup Walks]
      <3>1. [order |-> walk[t].order, next |-> next, at |-> at] \in Walks
        BY <1>2, <2>1 DEF Walks
      <3> QED BY <2>1, <3>1 DEF MoveTo, FailoverTypeOK
    <2>2. walk[t].next + 1 \in Nat \ {0}
      BY <1>2
    <2>3. \/ \E at \in Stages : MoveTo(t, walk[t].next, at)
          \/ \E at \in Stages : MoveTo(t, walk[t].next + 1, at)
      BY DEF Walk, PanelAccepts, PanelRefuses, AnswerLost, RecordSuccess,
             RecordSuccessFails, RecordFailure
    <2> QED BY <1>2, <2>1, <2>2, <2>3
  <1>6. faults' \in [FaultKinds -> Nat]
    <2>1. UNCHANGED faults \/ Fault("answer") \/ Fault("record")
      BY DEF Walk, PanelAccepts, PanelRefuses, AnswerLost, RecordSuccess,
             RecordSuccessFails, RecordFailure
    <2> QED BY <2>1, FaultTyped DEF FailoverTypeOK, FaultKinds
  <1> QED BY <1>3, <1>4, <1>5, <1>6 DEF FailoverTypeOK

\* A step keeps the types.
LEMMA GuestTypeStep == GuestTypeOK /\ [GuestNext]_vars => GuestTypeOK'
  <1> SUFFICES ASSUME GuestTypeOK, [GuestNext]_vars
               PROVE  GuestTypeOK'
    OBVIOUS
  <1>0. FailoverTypeOK
    BY DEF GuestTypeOK
  <1>e. ASSUME NEW o, NEW e, Emit(o, e)
        PROVE  event' \in [Orders -> [Events -> Nat]]
    <2> DEFINE more == [x \in Events |-> IF x = e THEN event[o][x] + 1
                                                  ELSE event[o][x]]
    <2>1. event' = [event EXCEPT ![o] = more]
      BY <1>e DEF Emit
    <2>2. CASE o \in Orders
      <3>1. more \in [Events -> Nat]
        BY <2>2 DEF GuestTypeOK
      <3> HIDE DEF more
      <3> QED BY <2>1, <3>1 DEF GuestTypeOK
    <2>3. CASE o \notin Orders
      <3> HIDE DEF more
      <3> QED BY <2>1, <2>3 DEF GuestTypeOK
    <2> QED BY <2>2, <2>3
  <1>g. \A t \in Tasks, todo \in SUBSET Orders,
           at \in {"claim", "confirm", "orders", "submit", "created", "exhausted"} :
              Go(t, at, todo) => delivery' \in [Tasks -> {Resting} \cup Deliveries]
    BY DEF Go, GuestTypeOK, Deliveries
  <1>t. \A t \in Tasks : delivery[t] # Resting => delivery[t].todo \in SUBSET Orders
    BY DEF GuestTypeOK, Deliveries
  <1>r. Resting.at = "rest"
    BY DEF Resting
  <1>1. CASE UNCHANGED vars
    BY <1>1 DEF vars, failoverVars, guestVars, GuestTypeOK, FailoverTypeOK
  <1>2. CASE CustomerPays \/ BecomesStale
    BY <1>2 DEF CustomerPays, BecomesStale, failoverVars, GuestTypeOK, FailoverTypeOK
  <1>3. ASSUME NEW t \in Tasks, Load(t)
        PROVE  GuestTypeOK'
    <2>1. Unpaid \in SUBSET Orders
      BY DEF Unpaid
    <2>2. delivery' \in [Tasks -> {Resting} \cup Deliveries]
      BY <1>3, <2>1, <1>g DEF Load
    <2> QED BY <1>3, <2>2 DEF Load, failoverVars, GuestTypeOK, FailoverTypeOK
  <1>4. ASSUME NEW t \in Tasks, ClaimPayment(t) \/ EmitConfirmed(t)
        PROVE  GuestTypeOK'
    <2>1. delivery[t].todo \in SUBSET Orders
      BY <1>4, <1>t, <1>r DEF ClaimPayment, EmitConfirmed, At
    <2>2. delivery' \in [Tasks -> {Resting} \cup Deliveries]
      BY <1>4, <2>1, <1>g DEF ClaimPayment, EmitConfirmed
    <2> QED BY <1>4, <2>2 DEF ClaimPayment, EmitConfirmed, failoverVars,
            GuestTypeOK, FailoverTypeOK
  <1>5. ASSUME NEW t \in Tasks, NEW o \in Orders, ClaimOrder(t, o)
        PROVE  GuestTypeOK'
    <2>1. delivery[t].todo \ {o} \in SUBSET Orders
      BY <1>5, <1>t, <1>r DEF ClaimOrder, At
    <2>2. delivery' \in [Tasks -> {Resting} \cup Deliveries]
      BY <1>5, <2>1, <1>g DEF ClaimOrder
    <2>3. walk' \in [Tasks -> {NoWalk} \cup Walks]
      BY <1>5 DEF ClaimOrder, StartWalk, Walks, GuestTypeOK, FailoverTypeOK
    <2>4. order' \in [Orders -> [status : Statuses, panel : Panels \cup {NoPanel}]]
      BY <1>5 DEF ClaimOrder, GuestTypeOK, Statuses
    <2> QED BY <1>5, <2>2, <2>3, <2>4 DEF ClaimOrder, GuestTypeOK, FailoverTypeOK
  <1>6. ASSUME NEW t \in Tasks, NEW o \in Orders, SkipOrder(t, o)
        PROVE  GuestTypeOK'
    <2>1. delivery[t].todo \ {o} \in SUBSET Orders
      BY <1>6, <1>t, <1>r DEF SkipOrder, At
    <2>2. delivery' \in [Tasks -> {Resting} \cup Deliveries]
      BY <1>6, <2>1, <1>g DEF SkipOrder
    <2> QED BY <1>6, <2>2 DEF SkipOrder, failoverVars, GuestTypeOK, FailoverTypeOK
  <1>7. ASSUME NEW t \in Tasks, Submit(t)
        PROVE  GuestTypeOK'
    <2>1. FailoverTypeOK'
      BY <1>7, <1>0, WalkTypeStep DEF Submit
    <2> QED BY <1>7, <2>1 DEF Submit, guestVars, GuestTypeOK
  <1>8. ASSUME NEW t \in Tasks, WriteProcessing(t)
        PROVE  GuestTypeOK'
    <2>1. delivery[t].todo \in SUBSET Orders
      BY <1>8, <1>t, <1>r DEF WriteProcessing, At
    <2>2. delivery' \in [Tasks -> {Resting} \cup Deliveries]
      BY <1>8, <2>1, <1>g DEF WriteProcessing
    <2>3. walk[t].order \in Orders /\ Panel(t) \in Panels
      BY <1>8, <1>0, PanelOfRoute DEF WriteProcessing
    <2>4. order' \in [Orders -> [status : Statuses, panel : Panels \cup {NoPanel}]]
      BY <1>8, <2>3 DEF WriteProcessing, GuestTypeOK, Statuses
    <2> QED BY <1>8, <2>2, <2>4 DEF WriteProcessing, failoverVars, GuestTypeOK,
            FailoverTypeOK
  <1>9. ASSUME NEW t \in Tasks, WriteFailed(t)
        PROVE  GuestTypeOK'
    <2>1. delivery[t].todo \in SUBSET Orders
      BY <1>9, <1>t, <1>r DEF WriteFailed, At
    <2>2. delivery' \in [Tasks -> {Resting} \cup Deliveries]
      BY <1>9, <2>1, <1>g DEF WriteFailed
    <2>3. order' \in [Orders -> [status : Statuses, panel : Panels \cup {NoPanel}]]
      BY <1>9 DEF WriteFailed, GuestTypeOK, Statuses
    <2> QED BY <1>9, <2>2, <2>3 DEF WriteFailed, failoverVars, GuestTypeOK,
            FailoverTypeOK
  <1>10. ASSUME NEW t \in Tasks, EmitOutcome(t)
         PROVE  GuestTypeOK'
    <2>1. delivery[t].todo \in SUBSET Orders
      BY <1>10, <1>t, <1>r DEF EmitOutcome, At
    <2>2. delivery' \in [Tasks -> {Resting} \cup Deliveries]
      BY <1>10, <2>1, <1>g DEF EmitOutcome
    <2>3. walk' \in [Tasks -> {NoWalk} \cup Walks]
      BY <1>10 DEF EmitOutcome, StopWalk, GuestTypeOK, FailoverTypeOK
    <2>4. event' \in [Orders -> [Events -> Nat]]
      BY <1>10, <1>e DEF EmitOutcome
    <2> QED BY <1>10, <2>2, <2>3, <2>4 DEF EmitOutcome, GuestTypeOK, FailoverTypeOK
  <1>11. ASSUME NEW t \in Tasks, Finish(t) \/ Crash(t)
         PROVE  GuestTypeOK'
    <2>1. delivery' \in [Tasks -> {Resting} \cup Deliveries]
      BY <1>11 DEF Finish, Crash, Rest, GuestTypeOK
    <2>2. walk' \in [Tasks -> {NoWalk} \cup Walks]
      BY <1>11 DEF Finish, Crash, StopWalk, failoverVars, GuestTypeOK, FailoverTypeOK
    <2>3. faults' \in [FaultKinds -> Nat]
      BY <1>11 DEF Finish, Crash, Fault, failoverVars, GuestTypeOK, FailoverTypeOK
    <2> QED BY <1>11, <2>1, <2>2, <2>3 DEF Finish, Crash, failoverVars,
            GuestTypeOK, FailoverTypeOK
  <1>12. CASE Sweep
    <2>0. sweep # Resting => sweep.todo \in SUBSET Orders
      BY DEF GuestTypeOK, Sweeps
    <2>1. CASE SweepRead
      <3>1. sweep' \in Sweeps
        BY <2>1 DEF SweepRead, Sweeps, Unpaid
      <3> QED BY <2>1, <3>1 DEF SweepRead, failoverVars, GuestTypeOK, FailoverTypeOK
    <2>2. ASSUME NEW o \in Orders, SweepCancel(o)
          PROVE  GuestTypeOK'
      <3>1. sweep' \in Sweeps
        BY <2>0, <2>2, <1>r DEF SweepCancel, Sweeps
      <3>2. order' \in [Orders -> [status : Statuses, panel : Panels \cup {NoPanel}]]
        BY <2>2 DEF SweepCancel, GuestTypeOK, Statuses
      <3> QED BY <2>2, <3>1, <3>2 DEF SweepCancel, failoverVars, GuestTypeOK,
              FailoverTypeOK
    <2>3. CASE SweepEmit
      <3>1. sweep' \in Sweeps
        BY <2>0, <2>3, <1>r DEF SweepEmit, Sweeps
      <3>2. event' \in [Orders -> [Events -> Nat]]
        BY <2>3, <1>e DEF SweepEmit
      <3> QED BY <2>3, <3>1, <3>2 DEF SweepEmit, failoverVars, GuestTypeOK,
              FailoverTypeOK
    <2>4. CASE SweepEnd
      BY <2>4 DEF SweepEnd, failoverVars, GuestTypeOK, FailoverTypeOK
    <2>5. CASE SweepEmitFails
      <3>1. sweep' \in Sweeps
        BY <2>0, <2>5, <1>r DEF SweepEmitFails, Sweeps
      <3>2. faults' \in [FaultKinds -> Nat]
        BY <2>5, FaultTyped DEF FaultKinds, SweepEmitFails, GuestTypeOK, FailoverTypeOK
      <3> QED BY <2>5, <3>1, <3>2 DEF SweepEmitFails, GuestTypeOK, FailoverTypeOK
    <2>6. CASE SweepCrash
      <3>1. faults' \in [FaultKinds -> Nat]
        BY <2>6, FaultTyped DEF FaultKinds, SweepCrash, GuestTypeOK, FailoverTypeOK
      <3> QED BY <2>6, <3>1 DEF SweepCrash, GuestTypeOK, FailoverTypeOK
    <2> QED BY <1>12, <2>1, <2>2, <2>3, <2>4, <2>5, <2>6 DEF Sweep
  <1>13. CASE Checkout
    <2>1. /\ UNCHANGED <<placed, attempt, walk, customer, stale, delivery, sweep,
                         confirmed, event>>
          /\ UNCHANGED faults \/ Fault("crash")
      BY <1>13 DEF Checkout, CreateAutoUser, CreatePaymentWithOrders, CreatePaymentSession,
             AttachPaymentSession, EmitCheckoutStarted, CheckoutThrows, failoverVars
    <2>2. checkout' \in Checkouts
      BY <1>13 DEF Checkout, CreateAutoUser, CreatePaymentWithOrders, CreatePaymentSession,
             AttachPaymentSession, EmitCheckoutStarted, CheckoutThrows, Reaches, Checkouts
    <2>3. /\ payment' \in {"NONE", "PENDING", "PAID"}
          /\ order' \in [Orders -> [status : Statuses, panel : Panels \cup {NoPanel}]]
      BY <1>13 DEF Checkout, CreateAutoUser, CreatePaymentWithOrders, CreatePaymentSession,
             AttachPaymentSession, EmitCheckoutStarted, CheckoutThrows, GuestTypeOK, Statuses
    <2>4. faults' \in [FaultKinds -> Nat]
      BY <2>1, FaultTyped DEF FaultKinds, GuestTypeOK, FailoverTypeOK
    <2> QED BY <2>1, <2>2, <2>3, <2>4 DEF GuestTypeOK, FailoverTypeOK
  <1> QED
    BY <1>1, <1>2, <1>3, <1>4, <1>5, <1>6, <1>7, <1>8, <1>9, <1>10, <1>11, <1>12, <1>13
    DEF GuestNext, Deliver

\* Every state of every run has the types of GuestTypeOK.
THEOREM GuestTypeCorrect == GuestSpec => []GuestTypeOK
  <1>1. GuestInit => GuestTypeOK
    <2> SUFFICES ASSUME GuestInit
                 PROVE  GuestTypeOK
      OBVIOUS
    <2>1. FailoverTypeOK
      BY DEF GuestInit, FailoverInit, FailoverTypeOK
    <2>2. order \in [Orders -> [status : Statuses, panel : Panels \cup {NoPanel}]]
      BY DEF GuestInit, Statuses
    <2>3. event \in [Orders -> [Events -> Nat]]
      BY DEF GuestInit
    <2> QED BY <2>1, <2>2, <2>3 DEF GuestInit, GuestTypeOK, Checkouts
  <1> QED BY <1>1, GuestTypeStep, PTL DEF GuestSpec

-----------------------------------------------------------------------------
(* The inductive invariant, in three parts.                                *)

\* An order before anybody has gone on with it.
Early == {"NONE", "PENDING_PAYMENT"}

\* Until checkout writes the orders there are none, nor a sweep of them.  A
\* delivery that is submitting has an order in hand; no two have the same
\* one, and it is no longer unpaid, so that no third can claim it.
InHand ==
    /\ checkout \in {"none", "account"} =>
          sweep = Resting /\ \A o \in Orders : order[o].status = "NONE"
    /\ \A t \in Tasks :
          walk[t] # NoWalk <=> delivery[t].at \in {"submit", "created", "exhausted"}
    /\ \A t, u \in Tasks :
          t # u /\ walk[t] # NoWalk /\ walk[u] # NoWalk =>
              walk[t].order # walk[u].order
    /\ \A t \in Tasks :
          walk[t] # NoWalk => order[walk[t].order].status \notin Early

\* An unpaid order is nowhere, and one in hand is not yet with the panels
\* that its walk has still to ask.
Ahead(t, j) ==
    j > walk[t].next \/ (j = walk[t].next /\ walk[t].at = "panel")

PlacedInv ==
    /\ \A o \in Orders :
          order[o].status \in Early => \A p \in Panels : placed[o][p] = 0
    /\ \A o \in Orders, p \in Panels : placed[o][p] <= 1
    /\ \A t \in Tasks : walk[t] # NoWalk =>
          \A j \in DOMAIN Route[walk[t].order] :
              Ahead(t, j) => placed[walk[t].order][Route[walk[t].order][j]] = 0

\* Deliveries start once the guest has paid, go past the claim once the
\* payment says so, and at most one of them is between winning it and
\* reporting it.
PaidInv ==
    /\ \A t \in Tasks : delivery[t] # Resting => customer
    /\ customer => checkout = "open"
    /\ checkout \in {"orders", "session", "attached", "open"} => payment # "NONE"
    /\ payment = "PAID" => customer
    /\ payment # "PAID" =>
          /\ confirmed = 0
          /\ \A t \in Tasks : delivery[t].at \in {"rest", "claim"}
    /\ confirmed <= 1
    /\ \A t \in Tasks : delivery[t].at = "confirm" => confirmed = 0
    /\ \A t, u \in Tasks :
          delivery[t].at = "confirm" /\ delivery[u].at = "confirm" => t = u
    /\ \A o \in Orders :
          \/ order[o].status \in {"PROCESSING", "FAILED"}
          \/ \E p \in Panels : placed[o][p] > 0
          => payment = "PAID"

\* A walk stays with its order, moves only its own task, and only once it has
\* one.
LEMMA WalkKeepsOrder ==
    ASSUME FailoverTypeOK, NEW t \in Tasks, Walk(t)
    PROVE  /\ walk[t] # NoWalk
           /\ walk'[t] # NoWalk
           /\ walk'[t].order = walk[t].order
           /\ \A u \in Tasks : u # t => walk'[u] = walk[u]
  <1>1. /\ walk[t] # NoWalk
        /\ \E next, at : at # "none" /\ MoveTo(t, next, at)
    BY DEF Walk, PanelAccepts, PanelRefuses, AnswerLost, RecordSuccess,
           RecordSuccessFails, RecordFailure, Walking
  <1>2. PICK next, at : at # "none" /\ MoveTo(t, next, at)
    BY <1>1
  <1>3. /\ walk'[t] = [order |-> walk[t].order, next |-> next, at |-> at]
        /\ \A u \in Tasks : u # t => walk'[u] = walk[u]
    BY <1>2 DEF MoveTo, FailoverTypeOK
  <1>4. walk'[t].at = at /\ NoWalk.at = "none"
    BY <1>3 DEF NoWalk
  <1> QED BY <1>1, <1>2, <1>3, <1>4

LEMMA InHandStep == GuestTypeOK /\ InHand /\ [GuestNext]_vars => InHand'
  <1> SUFFICES ASSUME GuestTypeOK, InHand, [GuestNext]_vars
               PROVE  InHand'
    OBVIOUS
  <1>0. FailoverTypeOK
    BY DEF GuestTypeOK
  <1>r. Resting.at = "rest" /\ NoWalk.at = "none"
    BY DEF Resting, NoWalk
  <1>g. ASSUME NEW t \in Tasks, NEW at, NEW todo, Go(t, at, todo)
        PROVE  /\ delivery'[t].at = at
               /\ \A u \in Tasks : u # t => delivery'[u] = delivery[u]
    BY <1>g DEF Go, GuestTypeOK
  <1>1. CASE UNCHANGED <<checkout, sweep, walk, order>> /\ \A t \in Tasks :
               delivery'[t].at \in {"submit", "created", "exhausted"} <=>
               delivery[t].at \in {"submit", "created", "exhausted"}
    BY <1>1 DEF InHand
  <1>2. CASE UNCHANGED vars \/ CustomerPays \/ BecomesStale
    BY <1>1, <1>2 DEF vars, guestVars, failoverVars, CustomerPays, BecomesStale
  <1>c. CASE Checkout
    <2>1. UNCHANGED <<walk, delivery, sweep>>
      BY <1>c DEF Checkout, CreateAutoUser, CreatePaymentWithOrders, CreatePaymentSession,
             AttachPaymentSession, EmitCheckoutStarted, CheckoutThrows, failoverVars
    <2>2. CASE CreatePaymentWithOrders
      <3>1. \A u \in Tasks : walk[u] = NoWalk
        BY <2>2, <1>0 DEF CreatePaymentWithOrders, Reaches, InHand, Early,
               FailoverTypeOK, Walks
      <3>2. checkout' = "orders"
        BY <2>2 DEF CreatePaymentWithOrders, Reaches
      <3> QED BY <2>1, <3>1, <3>2 DEF InHand
    <2>3. CASE ~CreatePaymentWithOrders
      <3>1. order' = order
        BY <1>c, <2>3 DEF Checkout, CreateAutoUser, CreatePaymentSession,
               AttachPaymentSession, EmitCheckoutStarted, CheckoutThrows
      <3>2. checkout' \in {"none", "account"} => checkout \in {"none", "account"}
        BY <1>c, <2>3 DEF Checkout, CreateAutoUser, CreatePaymentSession,
               AttachPaymentSession, EmitCheckoutStarted, CheckoutThrows, Reaches
      <3> QED BY <2>1, <3>1, <3>2 DEF InHand
    <2> QED BY <2>2, <2>3
  <1>3. ASSUME NEW t \in Tasks, Load(t) \/ ClaimPayment(t) \/ EmitConfirmed(t) \/ Finish(t)
        PROVE  InHand'
    <2>1. UNCHANGED <<checkout, sweep, walk, order>>
      BY <1>3 DEF Load, ClaimPayment, EmitConfirmed, Finish, failoverVars
    <2>2. delivery[t].at \in {"rest", "claim", "confirm", "orders"}
      BY <1>3, <1>r DEF Load, ClaimPayment, EmitConfirmed, Finish, At
    <2>3. /\ delivery'[t].at \in {"rest", "claim", "confirm", "orders"}
          /\ \A u \in Tasks : u # t => delivery'[u] = delivery[u]
      <3>1. CASE Finish(t)
        BY <3>1, <1>r DEF Finish, Rest, GuestTypeOK
      <3>2. CASE Load(t) \/ ClaimPayment(t) \/ EmitConfirmed(t)
        BY <3>2, <1>g DEF Load, ClaimPayment, EmitConfirmed
      <3> QED BY <1>3, <3>1, <3>2
    <2> QED BY <2>1, <2>2, <2>3, <1>1
  <1>4. ASSUME NEW t \in Tasks, NEW o \in Orders, SkipOrder(t, o)
        PROVE  InHand'
    <2>1. UNCHANGED <<checkout, sweep, walk, order>>
      BY <1>4 DEF SkipOrder, failoverVars
    <2> QED BY <1>4, <2>1, <1>g, <1>1 DEF SkipOrder, At
  <1>5. ASSUME NEW t \in Tasks, NEW o \in Orders, ClaimOrder(t, o)
        PROVE  InHand'
    <2>1. /\ delivery'[t].at = "submit"
          /\ \A u \in Tasks : u # t => delivery'[u] = delivery[u]
      BY <1>5, <1>g DEF ClaimOrder
    <2>2. /\ walk'[t] = [order |-> o, next |-> 1, at |-> "panel"]
          /\ \A u \in Tasks : u # t => walk'[u] = walk[u]
      BY <1>5 DEF ClaimOrder, StartWalk, GuestTypeOK, FailoverTypeOK
    <2>3. walk'[t] # NoWalk /\ walk'[t].order = o
      BY <2>2, <1>r
    <2>4. /\ order'[o].status = "PROCESSING"
          /\ \A x \in Orders : x # o => order'[x] = order[x]
      BY <1>5 DEF ClaimOrder, GuestTypeOK
    <2>5. \A u \in Tasks : u # t /\ walk[u] # NoWalk => walk[u].order # o
      BY <1>5 DEF ClaimOrder, InHand, Early
    <2>6. \A u \in Tasks : walk[u] # NoWalk => walk[u].order \in Orders
      BY <1>0 DEF FailoverTypeOK, Walks
    <2>7. checkout' = checkout /\ checkout \notin {"none", "account"}
      BY <1>5 DEF ClaimOrder, InHand
    <2> QED BY <2>1, <2>2, <2>3, <2>4, <2>5, <2>6, <2>7 DEF InHand, Early
  <1>6. ASSUME NEW t \in Tasks, Submit(t)
        PROVE  InHand'
    <2>1. UNCHANGED <<checkout, sweep, delivery, order>>
      BY <1>6 DEF Submit, guestVars
    <2>2. /\ walk[t] # NoWalk
          /\ walk'[t] # NoWalk
          /\ walk'[t].order = walk[t].order
          /\ \A u \in Tasks : u # t => walk'[u] = walk[u]
      BY <1>0, <1>6, WalkKeepsOrder DEF Submit
    <2> QED BY <2>1, <2>2 DEF InHand
  <1>7. ASSUME NEW t \in Tasks, WriteProcessing(t) \/ WriteFailed(t)
        PROVE  InHand'
    <2>1. walk' = walk /\ walk[t] # NoWalk
      BY <1>7 DEF WriteProcessing, WriteFailed, failoverVars, Walking, Exhausted
    <2>2. /\ delivery'[t].at \in {"created", "exhausted"}
          /\ \A u \in Tasks : u # t => delivery'[u] = delivery[u]
      BY <1>7, <1>g DEF WriteProcessing, WriteFailed
    <2>3. \A o \in Orders :
             order'[o].status = order[o].status
             \/ order'[o].status \in {"PROCESSING", "FAILED"}
      BY <1>7 DEF WriteProcessing, WriteFailed, GuestTypeOK
    <2>4. \A u \in Tasks : walk[u] # NoWalk => walk[u].order \in Orders
      BY <1>0 DEF FailoverTypeOK, Walks
    <2>5. /\ checkout' = checkout
          /\ checkout \notin {"none", "account"}
      BY <1>7, <2>1, <2>4 DEF WriteProcessing, WriteFailed, InHand, Early
    <2>6. delivery[t].at = "submit"
      BY <1>7 DEF WriteProcessing, WriteFailed, At
    <2> QED BY <2>1, <2>2, <2>3, <2>4, <2>5, <2>6 DEF InHand, Early
  <1>8. ASSUME NEW t \in Tasks, EmitOutcome(t) \/ Crash(t)
        PROVE  InHand'
    <2>1. UNCHANGED <<checkout, sweep, order>>
      BY <1>8 DEF EmitOutcome, Crash
    <2>2. /\ walk'[t] = NoWalk
          /\ \A u \in Tasks : u # t => walk'[u] = walk[u]
      BY <1>8 DEF EmitOutcome, Crash, StopWalk, GuestTypeOK, FailoverTypeOK
    <2>3. /\ delivery'[t].at \in {"rest", "orders"}
          /\ \A u \in Tasks : u # t => delivery'[u] = delivery[u]
      <3>1. CASE EmitOutcome(t)
        BY <3>1, <1>g DEF EmitOutcome
      <3>2. CASE Crash(t)
        BY <3>2, <1>r DEF Crash, Rest, GuestTypeOK
      <3> QED BY <1>8, <3>1, <3>2
    <2> QED BY <2>1, <2>2, <2>3 DEF InHand
  <1>9. CASE Sweep
    <2>1. UNCHANGED <<walk, delivery>>
      BY <1>9 DEF Sweep, SweepRead, SweepCancel, SweepEmit, SweepEnd,
             SweepEmitFails, SweepCrash, failoverVars
    <2>2. \A o \in Orders :
             order'[o].status = order[o].status \/ order'[o].status = "CANCELLED"
      BY <1>9 DEF Sweep, SweepRead, SweepCancel, SweepEmit, SweepEnd,
             SweepEmitFails, SweepCrash, GuestTypeOK
    <2>3. \A u \in Tasks : walk[u] # NoWalk => walk[u].order \in Orders
      BY <1>0 DEF FailoverTypeOK, Walks
    <2>4. checkout' = checkout /\ checkout \notin {"none", "account"}
      <3>1. checkout' = checkout
        BY <1>9 DEF Sweep, SweepRead, SweepCancel, SweepEmit, SweepEnd,
               SweepEmitFails, SweepCrash
      <3>2. sweep # Resting \/ Unpaid # {}
        BY <1>9 DEF Sweep, SweepRead, SweepCancel, SweepEmit, SweepEnd,
               SweepEmitFails, SweepCrash, Resting
      <3> QED BY <3>1, <3>2 DEF InHand, Unpaid
    <2> QED BY <2>1, <2>2, <2>3, <2>4 DEF InHand, Early
  <1> QED
    BY <1>2, <1>c, <1>3, <1>4, <1>5, <1>6, <1>7, <1>8, <1>9 DEF GuestNext, Deliver

\* One call or one insert of the walk, on the order in hand: whether the
\* panel it is at has taken the order, and what is still ahead.
LEMMA WalkPlaces ==
    ASSUME FailoverTypeOK, PlacedInv, NEW t \in Tasks, Walk(t)
    PROVE  LET o == walk[t].order
           IN  /\ \A x \in Orders : x # o => placed'[x] = placed[x]
               /\ \A p \in Panels : placed'[o][p] <= 1
               /\ \A j \in DOMAIN Route[o] :
                     Ahead(t, j)' => placed'[o][Route[o][j]] = 0
  <1> DEFINE o == walk[t].order
             i == walk[t].next
  <1>1. PICK at : Walking(t, at)
    BY DEF Walk, PanelAccepts, PanelRefuses, AnswerLost, RecordSuccess,
           RecordSuccessFails, RecordFailure
  <1>2. /\ walk[t] \in Walks /\ o \in Orders /\ i \in DOMAIN Route[o]
        /\ i \in Nat /\ Panel(t) \in Panels /\ Panel(t) = Route[o][i]
    BY <1>1, PanelOfRoute DEF Walks, Panel
  <1>3. Route[o] \in Seq(Panels) /\ DOMAIN Route[o] \subseteq Nat
    BY <1>2, FailoverAssumption
  <1>4. \A j \in DOMAIN Route[o] : Route[o][j] \in Panels
    BY <1>3
  <1>5. walk[t] # NoWalk
    BY <1>1 DEF Walking
  <1>6. \A p \in Panels : placed[o][p] \in Nat /\ placed[o][p] <= 1
    BY <1>2 DEF FailoverTypeOK, PlacedInv
  <1>7. \A j \in DOMAIN Route[o] : Ahead(t, j) => placed[o][Route[o][j]] = 0
    BY <1>5 DEF PlacedInv
  <1>m. ASSUME NEW next, NEW stage, MoveTo(t, next, stage)
        PROVE  walk'[t].next = next /\ walk'[t].at = stage
    BY <1>m DEF MoveTo, FailoverTypeOK
  <1>8. CASE PanelAccepts(t) \/ AnswerLost(t)
    <2>1. walk[t].at = "panel" /\ Place(t)
      BY <1>8 DEF PanelAccepts, AnswerLost, Walking
    <2>2. placed[o][Panel(t)] = 0
      BY <2>1, <1>2, <1>7 DEF Ahead
    <2>3. /\ \A x \in Orders : x # o => placed'[x] = placed[x]
          /\ \A p \in Panels : placed'[o][p] =
                IF p = Panel(t) THEN placed[o][p] + 1 ELSE placed[o][p]
      BY <2>1, <1>2 DEF Place, FailoverTypeOK
    <2>4. walk'[t].next = i /\ walk'[t].at \in {"accepted", "refused"}
      BY <1>8, <1>m DEF PanelAccepts, AnswerLost
    <2>5. ASSUME NEW j \in DOMAIN Route[o], Ahead(t, j)'
          PROVE  placed'[o][Route[o][j]] = 0
      <3>1. j > i
        BY <2>4, <2>5 DEF Ahead
      <3>2. Route[o][j] # Route[o][i]
        BY <3>1, <1>2, <1>3, FailoverAssumption
      <3> QED BY <3>1, <3>2, <2>3, <1>2, <1>4, <1>7 DEF Ahead
    <2>6. \A p \in Panels : placed'[o][p] <= 1
      BY <2>2, <2>3, <1>6
    <2> HIDE DEF o, i
    <2> QED BY <2>3, <2>5, <2>6 DEF o
  <1>9. CASE PanelRefuses(t) \/ RecordSuccess(t) \/ RecordSuccessFails(t)
    <2>1. placed' = placed
      BY <1>9 DEF PanelRefuses, RecordSuccess, RecordSuccessFails
    <2>2. walk'[t].next = i /\ walk'[t].at \in {"refused", "won"}
      BY <1>9, <1>m DEF PanelRefuses, RecordSuccess, RecordSuccessFails
    <2>3. \A j \in DOMAIN Route[o] : Ahead(t, j)' => Ahead(t, j)
      BY <2>2 DEF Ahead
    <2> QED BY <2>1, <2>3, <1>6, <1>7
  <1>10. CASE RecordFailure(t)
    <2>1. placed' = placed
      BY <1>10 DEF RecordFailure
    <2>2. walk'[t].next = i + 1 /\ walk'[t].at = "panel"
      BY <1>10, <1>m DEF RecordFailure
    <2>3. \A j \in DOMAIN Route[o] : Ahead(t, j)' => j > i
      BY <2>2, <1>2, <1>3 DEF Ahead
    <2>4. \A j \in DOMAIN Route[o] : Ahead(t, j)' => Ahead(t, j)
      BY <2>3 DEF Ahead
    <2> QED BY <2>1, <2>4, <1>6, <1>7
  <1> QED BY <1>8, <1>9, <1>10 DEF Walk

LEMMA PlacedStep ==
    GuestTypeOK /\ InHand /\ PlacedInv /\ [GuestNext]_vars => PlacedInv'
  <1> SUFFICES ASSUME GuestTypeOK, InHand, PlacedInv, [GuestNext]_vars
               PROVE  PlacedInv'
    OBVIOUS
  <1>0. FailoverTypeOK
    BY DEF GuestTypeOK
  <1>w. \A t \in Tasks : walk[t] # NoWalk => walk[t].order \in Orders
    BY <1>0 DEF FailoverTypeOK, Walks
  \* Steps that place nothing, start no walk and make no order unpaid.
  <1>q. CASE /\ placed' = placed
             /\ \A t \in Tasks : walk'[t] = walk[t] \/ walk'[t] = NoWalk
             /\ \A o \in Orders :
                   order'[o].status \in Early => order[o].status \in Early
    BY <1>q DEF PlacedInv, Ahead
  <1>1. CASE UNCHANGED vars \/ CustomerPays \/ BecomesStale
    BY <1>1, <1>q DEF vars, guestVars, failoverVars, CustomerPays, BecomesStale
  <1>c. CASE Checkout
    <2>1. UNCHANGED <<placed, walk>>
      BY <1>c DEF Checkout, CreateAutoUser, CreatePaymentWithOrders, CreatePaymentSession,
             AttachPaymentSession, EmitCheckoutStarted, CheckoutThrows, failoverVars
    <2>2. \A o \in Orders : order'[o] = order[o] \/ order[o].status \in Early
      BY <1>c DEF Checkout, CreateAutoUser, CreatePaymentWithOrders, CreatePaymentSession,
             AttachPaymentSession, EmitCheckoutStarted, CheckoutThrows, Reaches, InHand, Early
    <2> QED BY <2>1, <2>2, <1>q
  <1>2. ASSUME NEW t \in Tasks,
               Load(t) \/ ClaimPayment(t) \/ EmitConfirmed(t) \/ Finish(t)
        PROVE  PlacedInv'
    BY <1>2, <1>q DEF Load, ClaimPayment, EmitConfirmed, Finish, failoverVars
  <1>3. ASSUME NEW t \in Tasks, NEW o \in Orders, SkipOrder(t, o)
        PROVE  PlacedInv'
    BY <1>3, <1>q DEF SkipOrder, failoverVars
  <1>4. ASSUME NEW t \in Tasks, NEW o \in Orders, ClaimOrder(t, o)
        PROVE  PlacedInv'
    <2>1. placed' = placed
      BY <1>4 DEF ClaimOrder
    <2>2. /\ walk'[t] = [order |-> o, next |-> 1, at |-> "panel"]
          /\ \A u \in Tasks : u # t => walk'[u] = walk[u]
      BY <1>4 DEF ClaimOrder, StartWalk, GuestTypeOK, FailoverTypeOK
    <2>3. \A p \in Panels : placed[o][p] = 0
      BY <1>4 DEF ClaimOrder, PlacedInv, Early
    <2>4. \A x \in Orders :
             order'[x].status \in Early => order[x].status \in Early
      BY <1>4 DEF ClaimOrder, GuestTypeOK, Early
    <2>5. \A j \in DOMAIN Route[o] : placed[o][Route[o][j]] = 0
      BY <2>3, FailoverAssumption
    <2>6. \A u \in Tasks : u # t => \A j : Ahead(u, j)' <=> Ahead(u, j)
      BY <2>2 DEF Ahead
    <2>7. ASSUME NEW u \in Tasks, walk'[u] # NoWalk,
                 NEW j \in DOMAIN Route[walk'[u].order], Ahead(u, j)'
          PROVE  placed'[walk'[u].order][Route[walk'[u].order][j]] = 0
      <3>1. CASE u = t
        BY <3>1, <2>1, <2>2, <2>5, <2>7
      <3>2. CASE u # t
        BY <3>2, <2>1, <2>2, <2>6, <2>7 DEF PlacedInv
      <3> QED BY <3>1, <3>2
    <2> QED BY <2>1, <2>4, <2>7 DEF PlacedInv
  <1>5. ASSUME NEW t \in Tasks, Submit(t)
        PROVE  PlacedInv'
    <2> DEFINE o == walk[t].order
    <2>1. order' = order
      BY <1>5 DEF Submit, guestVars
    <2>2. /\ walk[t] # NoWalk
          /\ walk'[t] # NoWalk
          /\ walk'[t].order = o
          /\ \A u \in Tasks : u # t => walk'[u] = walk[u]
      BY <1>0, <1>5, WalkKeepsOrder DEF Submit
    <2>3. /\ \A x \in Orders : x # o => placed'[x] = placed[x]
          /\ \A p \in Panels : placed'[o][p] <= 1
          /\ \A j \in DOMAIN Route[o] :
                Ahead(t, j)' => placed'[o][Route[o][j]] = 0
      BY <1>0, <1>5, WalkPlaces DEF Submit
    <2>4. order[o].status \notin Early
      BY <2>2 DEF InHand
    <2> HIDE DEF o
    <2>5. \A u \in Tasks : u # t /\ walk[u] # NoWalk => walk[u].order # o
      BY <2>2 DEF InHand, o
    <2>6. \A u \in Tasks : u # t => \A j : Ahead(u, j)' <=> Ahead(u, j)
      BY <2>2 DEF Ahead
    <2>7. ASSUME NEW u \in Tasks, walk'[u] # NoWalk,
                 NEW j \in DOMAIN Route[walk'[u].order], Ahead(u, j)'
          PROVE  placed'[walk'[u].order][Route[walk'[u].order][j]] = 0
      <3>1. CASE u = t
        BY <3>1, <2>2, <2>3, <2>7
      <3>2. CASE u # t
        BY <3>2, <2>2, <2>3, <2>5, <2>6, <2>7, <1>w DEF PlacedInv
      <3> QED BY <3>1, <3>2
    <2> QED BY <2>1, <2>3, <2>4, <2>7 DEF PlacedInv
  <1>6. ASSUME NEW t \in Tasks,
               WriteProcessing(t) \/ WriteFailed(t) \/ EmitOutcome(t) \/ Crash(t)
        PROVE  PlacedInv'
    <2>1. placed' = placed
      BY <1>6 DEF WriteProcessing, WriteFailed, EmitOutcome, Crash, failoverVars
    <2>2. \A u \in Tasks : walk'[u] = walk[u] \/ walk'[u] = NoWalk
      BY <1>6 DEF WriteProcessing, WriteFailed, EmitOutcome, Crash, StopWalk,
             failoverVars, GuestTypeOK, FailoverTypeOK
    <2>3. \A o \in Orders :
             order'[o].status \in Early => order[o].status \in Early
      <3>1. CASE WriteProcessing(t)
        BY <3>1 DEF WriteProcessing, GuestTypeOK, Early
      <3>2. CASE WriteFailed(t)
        BY <3>2 DEF WriteFailed, GuestTypeOK, Early
      <3>3. CASE EmitOutcome(t) \/ Crash(t)
        BY <3>3 DEF EmitOutcome, Crash
      <3> QED BY <1>6, <3>1, <3>2, <3>3
    <2> QED BY <2>1, <2>2, <2>3, <1>q
  <1>7. CASE Sweep
    <2>1. UNCHANGED <<placed, walk>>
      BY <1>7 DEF Sweep, SweepRead, SweepCancel, SweepEmit, SweepEnd,
             SweepEmitFails, SweepCrash, failoverVars
    <2>2. \A o \in Orders :
             order'[o].status = order[o].status \/ order'[o].status = "CANCELLED"
      BY <1>7 DEF Sweep, SweepRead, SweepCancel, SweepEmit, SweepEnd,
             SweepEmitFails, SweepCrash, GuestTypeOK
    <2> QED BY <2>1, <2>2, <1>q DEF Early
  <1> QED
    BY <1>1, <1>c, <1>2, <1>3, <1>4, <1>5, <1>6, <1>7 DEF GuestNext, Deliver

\* No panel gets an order twice and no two deliveries submit the same one:
\* for every cart, route and number of deliveries, crashes and lost answers.
THEOREM PlacedAtMostOncePerPanel == GuestSpec => []PlacedOncePerPanel
  <1>1. GuestInit => InHand /\ PlacedInv
    BY DEF GuestInit, FailoverInit, InHand, PlacedInv, Resting, NoWalk, Early
  <1>2. GuestTypeOK /\ InHand /\ PlacedInv /\ [GuestNext]_vars
        => InHand' /\ PlacedInv'
    BY InHandStep, PlacedStep
  <1>3. InHand /\ PlacedInv => PlacedOncePerPanel
    BY DEF InHand, PlacedInv, PlacedOncePerPanel
  <1> QED BY <1>1, <1>2, <1>3, GuestTypeCorrect, PTL DEF GuestSpec

LEMMA PaidStep ==
    GuestTypeOK /\ InHand /\ PlacedInv /\ PaidInv /\ [GuestNext]_vars => PaidInv'
  <1> SUFFICES ASSUME GuestTypeOK, InHand, PlacedInv, PaidInv, [GuestNext]_vars
               PROVE  PaidInv'
    OBVIOUS
  <1>0. FailoverTypeOK /\ payment \in {"NONE", "PENDING", "PAID"} /\ confirmed \in Nat
    BY DEF GuestTypeOK
  <1>r. Resting.at = "rest"
    BY DEF Resting
  <1>d. \A t \in Tasks : delivery[t] # Resting => delivery[t].at # "rest"
    BY DEF GuestTypeOK, Deliveries
  <1>g. ASSUME NEW t \in Tasks, NEW at, NEW todo, Go(t, at, todo)
        PROVE  /\ delivery'[t].at = at
               /\ \A u \in Tasks : u # t => delivery'[u] = delivery[u]
    BY <1>g DEF Go, GuestTypeOK
  \* Steps that leave the payment alone, start no delivery, bring no delivery
  \* to the claim or its report, and touch orders only when it is paid.
  <1>q. CASE /\ UNCHANGED <<checkout, customer, payment, confirmed>>
             /\ \A t \in Tasks :
                   \/ delivery'[t] = delivery[t]
                   \/ delivery'[t] = Resting
                   \/ /\ delivery[t] # Resting
                      /\ payment = "PAID"
                      /\ delivery'[t].at # "confirm"
             /\ \/ payment = "PAID"
                \/ /\ placed' = placed
                   /\ \A o \in Orders :
                         \/ order'[o].status = order[o].status
                         \/ order'[o].status = "CANCELLED"
    <2>1. \A t \in Tasks : delivery'[t] # Resting => customer'
      BY <1>q DEF PaidInv
    <2>2. payment' # "PAID" => \A t \in Tasks : delivery'[t].at \in {"rest", "claim"}
      BY <1>q, <1>r DEF PaidInv
    <2>3. \A t \in Tasks :
             delivery'[t].at = "confirm" => delivery[t].at = "confirm"
      BY <1>q, <1>r
    <2>4. \A o \in Orders :
             order'[o].status \in {"PROCESSING", "FAILED"}
             \/ (\E p \in Panels : placed'[o][p] > 0) => payment' = "PAID"
      BY <1>q DEF PaidInv
    <2> QED BY <2>1, <2>2, <2>3, <2>4, <1>q DEF PaidInv
  <1>1. CASE UNCHANGED vars \/ BecomesStale
    BY <1>1, <1>q DEF vars, guestVars, failoverVars, BecomesStale
  <1>2. CASE CustomerPays
    BY <1>2 DEF CustomerPays, failoverVars, PaidInv
  <1>c. CASE Checkout
    <2>1. UNCHANGED <<placed, customer, delivery, confirmed>>
      BY <1>c DEF Checkout, CreateAutoUser, CreatePaymentWithOrders, CreatePaymentSession,
             AttachPaymentSession, EmitCheckoutStarted, CheckoutThrows, failoverVars
    <2>2. ~customer /\ payment # "PAID"
      BY <1>c DEF Checkout, CreateAutoUser, CreatePaymentWithOrders, CreatePaymentSession,
             AttachPaymentSession, EmitCheckoutStarted, CheckoutThrows, Reaches, PaidInv
    <2>3. payment' = payment \/ payment' = "PENDING"
      BY <1>c DEF Checkout, CreateAutoUser, CreatePaymentWithOrders, CreatePaymentSession,
             AttachPaymentSession, EmitCheckoutStarted, CheckoutThrows
    <2>4. \A o \in Orders :
             order'[o] = order[o] \/ order'[o].status = "PENDING_PAYMENT"
      BY <1>c DEF Checkout, CreateAutoUser, CreatePaymentWithOrders, CreatePaymentSession,
             AttachPaymentSession, EmitCheckoutStarted, CheckoutThrows
    <2>5. checkout' \in {"orders", "session", "attached", "open"} => payment' # "NONE"
      BY <1>c DEF Checkout, CreateAutoUser, CreatePaymentWithOrders, CreatePaymentSession,
             AttachPaymentSession, EmitCheckoutStarted, CheckoutThrows, Reaches, PaidInv
    <2> QED BY <2>1, <2>2, <2>3, <2>4, <2>5 DEF PaidInv
  <1>3. ASSUME NEW t \in Tasks, Load(t)
        PROVE  PaidInv'
    <2>1. /\ customer /\ UNCHANGED <<checkout, customer, payment, confirmed, placed, order>>
          /\ delivery[t] = Resting
      BY <1>3 DEF Load, failoverVars
    <2>2. /\ delivery'[t].at = IF payment = "PENDING" THEN "claim" ELSE "orders"
          /\ \A u \in Tasks : u # t => delivery'[u] = delivery[u]
      BY <1>3, <1>g DEF Load
    <2>3. payment # "NONE"
      BY <2>1 DEF PaidInv
    <2> QED BY <2>1, <2>2, <2>3, <1>0 DEF PaidInv
  <1>4. ASSUME NEW t \in Tasks, ClaimPayment(t)
        PROVE  PaidInv'
    <2>1. /\ delivery[t].at = "claim"
          /\ payment' = "PAID"
          /\ UNCHANGED <<checkout, customer, confirmed, placed, order>>
      BY <1>4 DEF ClaimPayment, At, failoverVars
    <2>2. /\ delivery'[t].at = IF payment = "PENDING" THEN "confirm" ELSE "orders"
          /\ \A u \in Tasks : u # t => delivery'[u] = delivery[u]
      BY <1>4, <1>g DEF ClaimPayment
    <2>3. customer
      BY <2>1, <1>r DEF PaidInv
    <2>4. payment # "PAID" =>
             confirmed = 0 /\ \A u \in Tasks : delivery[u].at # "confirm"
      BY DEF PaidInv
    <2> QED BY <2>1, <2>2, <2>3, <2>4, <1>0 DEF PaidInv
  <1>5. ASSUME NEW t \in Tasks, EmitConfirmed(t)
        PROVE  PaidInv'
    <2>1. /\ delivery[t].at = "confirm"
          /\ confirmed' = confirmed + 1
          /\ UNCHANGED <<checkout, customer, payment, placed, order>>
      BY <1>5 DEF EmitConfirmed, At, failoverVars
    <2>2. /\ delivery'[t].at = "orders"
          /\ \A u \in Tasks : u # t => delivery'[u] = delivery[u]
      BY <1>5, <1>g DEF EmitConfirmed
    <2>3. confirmed = 0 /\ payment = "PAID" /\ customer
      BY <2>1, <1>0 DEF PaidInv
    <2>4. \A u \in Tasks : delivery'[u].at # "confirm"
      BY <2>1, <2>2 DEF PaidInv
    <2> QED BY <2>1, <2>2, <2>3, <2>4 DEF PaidInv
  <1>6. ASSUME NEW t \in Tasks,
               \/ \E o \in Orders : ClaimOrder(t, o) \/ SkipOrder(t, o)
               \/ WriteProcessing(t) \/ WriteFailed(t) \/ EmitOutcome(t)
        PROVE  PaidInv'
    <2>1. /\ delivery[t].at \in {"orders", "submit", "created", "exhausted"}
          /\ UNCHANGED <<checkout, customer, payment, confirmed, placed>>
      BY <1>6 DEF ClaimOrder, SkipOrder, WriteProcessing, WriteFailed,
             EmitOutcome, At, failoverVars
    <2>2. /\ delivery'[t].at \in {"orders", "submit", "created", "exhausted"}
          /\ \A u \in Tasks : u # t => delivery'[u] = delivery[u]
      BY <1>6, <1>g DEF ClaimOrder, SkipOrder, WriteProcessing, WriteFailed,
         EmitOutcome
    <2>3. payment = "PAID" /\ delivery[t] # Resting
      BY <2>1, <1>0, <1>r DEF PaidInv
    <2> QED BY <2>1, <2>2, <2>3, <1>q
  <1>7. ASSUME NEW t \in Tasks, Submit(t)
        PROVE  PaidInv'
    <2>1. UNCHANGED <<checkout, customer, payment, confirmed, delivery, order>>
      BY <1>7 DEF Submit, guestVars
    <2>2. payment = "PAID"
      BY <1>7, <1>0 DEF Submit, At, PaidInv
    <2> QED BY <2>1, <2>2, <1>q
  <1>8. ASSUME NEW t \in Tasks, Finish(t) \/ Crash(t)
        PROVE  PaidInv'
    <2>1. UNCHANGED <<checkout, customer, payment, confirmed, placed, order>>
      BY <1>8 DEF Finish, Crash, failoverVars
    <2>2. \A u \in Tasks : delivery'[u] = delivery[u] \/ delivery'[u] = Resting
      BY <1>8 DEF Finish, Crash, Rest, GuestTypeOK
    <2> QED BY <2>1, <2>2, <1>q
  <1>9. CASE Sweep
    <2>1. UNCHANGED <<checkout, customer, payment, confirmed, placed, delivery>>
      BY <1>9 DEF Sweep, SweepRead, SweepCancel, SweepEmit, SweepEnd,
             SweepEmitFails, SweepCrash, failoverVars
    <2>2. \A o \in Orders :
             order'[o].status = order[o].status \/ order'[o].status = "CANCELLED"
      BY <1>9 DEF Sweep, SweepRead, SweepCancel, SweepEmit, SweepEnd,
             SweepEmitFails, SweepCrash, GuestTypeOK
    <2> QED BY <2>1, <2>2, <1>q
  <1> QED
    BY <1>1, <1>2, <1>c, <1>3, <1>4, <1>5, <1>6, <1>7, <1>8, <1>9 DEF GuestNext, Deliver

\* A purchase is reported at most once, whatever number of webhooks race: the
\* claim of the payment row has one winner.
THEOREM ReportedAtMostOnce == GuestSpec => []ConfirmedAtMostOnce
  <1>1. GuestInit => InHand /\ PlacedInv /\ PaidInv
    BY DEF GuestInit, FailoverInit, InHand, PlacedInv, PaidInv, Resting, NoWalk, Early
  <1>2. GuestTypeOK /\ InHand /\ PlacedInv /\ PaidInv /\ [GuestNext]_vars
        => InHand' /\ PlacedInv' /\ PaidInv'
    BY InHandStep, PlacedStep, PaidStep
  <1>3. GuestTypeOK /\ PaidInv => ConfirmedAtMostOnce
    BY DEF GuestTypeOK, PaidInv, ConfirmedAtMostOnce
  <1> QED BY <1>1, <1>2, <1>3, GuestTypeCorrect, PTL DEF GuestSpec

\* Nothing is submitted, and no order goes on, before the payment is settled.
THEOREM PaymentComesFirst == GuestSpec => []NothingBeforePayment
  <1>1. GuestInit => InHand /\ PlacedInv /\ PaidInv
    BY DEF GuestInit, FailoverInit, InHand, PlacedInv, PaidInv, Resting, NoWalk, Early
  <1>2. GuestTypeOK /\ InHand /\ PlacedInv /\ PaidInv /\ [GuestNext]_vars
        => InHand' /\ PlacedInv' /\ PaidInv'
    BY InHandStep, PlacedStep, PaidStep
  <1>3. PaidInv => NothingBeforePayment
    BY DEF PaidInv, NothingBeforePayment, Copies
  <1> QED BY <1>1, <1>2, <1>3, GuestTypeCorrect, PTL DEF GuestSpec

-----------------------------------------------------------------------------
(* What the rows of attempts and the announcements say.                    *)

Refused(o, j)  == [panel |-> Route[o][j], ok |-> FALSE] \in attempt[o]
Accepted(o, p) == placed[o][p] = 1 /\ [panel |-> p, ok |-> TRUE] \in attempt[o]

Unannounced(o) == event[o]["created"] = 0 /\ event[o]["exhausted"] = 0

\* Walk t has asked every panel before the one it is at, and written down
\* that each refused; of the one it is at it knows what its stage says.
Asked(t) ==
    walk[t] # NoWalk =>
        LET o == walk[t].order
            i == walk[t].next
        IN  /\ walk[t].at # "panel" => i \in DOMAIN Route[o]
            /\ \A j \in DOMAIN Route[o] : j < i => Refused(o, j)
            /\ walk[t].at = "accepted" => placed[o][Route[o][i]] = 1
            /\ walk[t].at = "won" => Accepted(o, Route[o][i])

\* The order that t has in hand is not announced yet, and its row says of its
\* panel what t has come to.
Written(t) ==
    walk[t] # NoWalk =>
        LET o == walk[t].order
        IN  /\ Unannounced(o)
            /\ delivery[t].at = "submit" => order[o].panel = NoPanel
            /\ delivery[t].at = "created" => order[o].panel # NoPanel
            /\ delivery[t].at = "exhausted" =>
                  /\ order[o].panel = NoPanel
                  /\ \A j \in DOMAIN Route[o] : Refused(o, j)

\* An order nobody has gone on with has no panel and no announcement; what is
\* announced of the others is true.
Told(o) ==
    /\ order[o].status \in Early => order[o].panel = NoPanel /\ Unannounced(o)
    /\ event[o]["created"] + event[o]["exhausted"] <= 1
    /\ order[o].panel # NoPanel => Accepted(o, order[o].panel)
    /\ event[o]["created"] = 1 => order[o].panel # NoPanel
    /\ event[o]["exhausted"] = 1 =>
          /\ order[o].panel = NoPanel
          /\ \A j \in DOMAIN Route[o] : Refused(o, j)

OutcomeInv ==
    /\ \A t \in Tasks : Asked(t) /\ Written(t)
    /\ \A o \in Orders : Told(o)

\* The order in hand during a step of its walk, and the rows that step leaves.
LEMMA WalkOnly ==
    ASSUME FailoverTypeOK, NEW t \in Tasks, Walk(t)
    PROVE  LET o == walk[t].order
               i == walk[t].next
           IN  /\ o \in Orders /\ i \in Nat /\ i \in DOMAIN Route[o]
               /\ Panel(t) = Route[o][i] /\ Panel(t) \in Panels
               /\ \A x \in Orders : attempt[x] \subseteq attempt'[x]
               /\ \A x \in Orders, p \in Panels : placed[x][p] <= placed'[x][p]
  <1> DEFINE o == walk[t].order
             i == walk[t].next
  <1>1. PICK at : Walking(t, at)
    BY DEF Walk, PanelAccepts, PanelRefuses, AnswerLost, RecordSuccess,
           RecordSuccessFails, RecordFailure
  <1>2. /\ o \in Orders /\ i \in Nat /\ i \in DOMAIN Route[o]
        /\ Panel(t) = Route[o][i] /\ Panel(t) \in Panels
    BY <1>1, PanelOfRoute DEF Walks, Panel
  <1>3. \A x \in Orders : attempt[x] \subseteq attempt'[x]
    <2>1. ASSUME NEW ok, Record(t, ok)
          PROVE  \A x \in Orders : attempt[x] \subseteq attempt'[x]
      BY <2>1 DEF Record, FailoverTypeOK
    <2> QED BY <2>1 DEF Walk, PanelAccepts, PanelRefuses, AnswerLost,
               RecordSuccess, RecordSuccessFails, RecordFailure
  <1>4. \A x \in Orders, p \in Panels : placed[x][p] <= placed'[x][p]
    <2>1. \A x \in Orders, p \in Panels : placed[x][p] \in Nat
      BY DEF FailoverTypeOK
    <2>2. CASE Place(t)
      <3>1. \A x \in Orders, p \in Panels :
               placed'[x][p] = IF x = o /\ p = Panel(t)
                                 THEN placed[x][p] + 1 ELSE placed[x][p]
        BY <1>2, <2>2 DEF Place, FailoverTypeOK
      <3> QED BY <2>1, <3>1
    <2>3. CASE UNCHANGED placed
      BY <2>1, <2>3
    <2> QED BY <2>2, <2>3 DEF Walk, PanelAccepts, PanelRefuses, AnswerLost,
               RecordSuccess, RecordSuccessFails, RecordFailure
  <1> QED BY <1>2, <1>3, <1>4

\* A step of a walk keeps what the walk has written down.
LEMMA WalkAsks ==
    ASSUME FailoverTypeOK, PlacedInv, NEW t \in Tasks, Asked(t), Walk(t)
    PROVE  Asked(t)'
  <1> DEFINE o == walk[t].order
             i == walk[t].next
  <1>1. /\ o \in Orders /\ i \in Nat /\ i \in DOMAIN Route[o]
        /\ Panel(t) = Route[o][i] /\ Panel(t) \in Panels
        /\ \A x \in Orders : attempt[x] \subseteq attempt'[x]
    BY WalkOnly
  <1>2. walk[t] # NoWalk
    BY WalkKeepsOrder
  <1>3. DOMAIN Route[o] \subseteq Nat
    <2>1. Route[o] \in Seq(Panels)
      BY <1>1, FailoverAssumption
    <2> QED BY <2>1
  <1>4. /\ \A j \in DOMAIN Route[o] : j < i => Refused(o, j)
        /\ walk[t].at = "accepted" => placed[o][Route[o][i]] = 1
    BY <1>2 DEF Asked
  <1>m. ASSUME NEW next, NEW stage, MoveTo(t, next, stage)
        PROVE  /\ walk'[t].order = o /\ walk'[t].next = next
               /\ walk'[t].at = stage
    BY <1>m DEF MoveTo, FailoverTypeOK
  <1>5. \A j \in DOMAIN Route[o] :
           j < i => [panel |-> Route[o][j], ok |-> FALSE] \in attempt'[o]
    BY <1>1, <1>4 DEF Refused
  <1>6. CASE PanelAccepts(t)
    <2>1. /\ walk'[t].order = o /\ walk'[t].next = i
          /\ walk'[t].at = "accepted"
      BY <1>6, <1>m DEF PanelAccepts
    <2>2. placed[o][Panel(t)] = 0
      BY <1>1, <1>2, <1>6 DEF PanelAccepts, Walking, PlacedInv, Ahead
    <2>3. placed'[o][Panel(t)] = placed[o][Panel(t)] + 1
      BY <1>1, <1>6 DEF PanelAccepts, Place, FailoverTypeOK
    <2> HIDE DEF o, i
    <2> QED BY <1>1, <1>5, <2>1, <2>2, <2>3 DEF Asked, Refused
  <1>7. CASE PanelRefuses(t) \/ AnswerLost(t) \/ RecordSuccessFails(t)
    <2>1. /\ walk'[t].order = o /\ walk'[t].next = i
          /\ walk'[t].at = "refused"
      BY <1>7, <1>m DEF PanelRefuses, AnswerLost, RecordSuccessFails
    <2> HIDE DEF o, i
    <2> QED BY <1>1, <1>5, <2>1 DEF Asked, Refused
  <1>8. CASE RecordSuccess(t)
    <2>1. /\ walk'[t].order = o /\ walk'[t].next = i
          /\ walk'[t].at = "won"
      BY <1>8, <1>m DEF RecordSuccess
    <2>2. placed'[o][Route[o][i]] = 1
      BY <1>4, <1>8 DEF RecordSuccess, Walking
    <2>3. [panel |-> Panel(t), ok |-> TRUE] \in attempt'[o]
      BY <1>1, <1>8 DEF RecordSuccess, Record, FailoverTypeOK
    <2> HIDE DEF o, i
    <2> QED BY <1>1, <1>5, <2>1, <2>2, <2>3 DEF Asked, Refused, Accepted
  <1>9. CASE RecordFailure(t)
    <2>1. /\ walk'[t].order = o /\ walk'[t].next = i + 1
          /\ walk'[t].at = "panel"
      BY <1>9, <1>m DEF RecordFailure
    <2>2. [panel |-> Panel(t), ok |-> FALSE] \in attempt'[o]
      BY <1>1, <1>9 DEF RecordFailure, Record, FailoverTypeOK
    <2> HIDE DEF o, i
    <2>3. \A j \in DOMAIN Route[o] : j < i + 1 => j < i \/ j = i
      BY <1>1, <1>3
    <2> QED BY <1>1, <1>5, <2>1, <2>2, <2>3 DEF Asked, Refused
  <1> QED BY <1>6, <1>7, <1>8, <1>9 DEF Walk

\* Recorded attempts stay, and panels do not forget an order.
Grows ==
    \A x \in Orders :
        /\ attempt[x] \subseteq attempt'[x]
        /\ \A p \in Panels : placed[x][p] <= placed'[x][p]

LEMMA GrowsStep ==
    ASSUME GuestTypeOK, [GuestNext]_vars
    PROVE  Grows
  <1>1. CASE UNCHANGED <<placed, attempt>>
    BY <1>1 DEF Grows, GuestTypeOK, FailoverTypeOK
  <1>2. ASSUME NEW t \in Tasks, Submit(t)
        PROVE  Grows
    BY <1>2, WalkOnly DEF Submit, Grows, GuestTypeOK
  <1>3. ASSUME NEW t \in Tasks, Deliver(t), ~Submit(t)
        PROVE  UNCHANGED <<placed, attempt>>
    BY <1>3 DEF Deliver, Load, ClaimPayment, EmitConfirmed, ClaimOrder,
         SkipOrder, WriteProcessing, WriteFailed, EmitOutcome, Finish,
         failoverVars
  <1>4. ASSUME Checkout \/ CustomerPays \/ BecomesStale \/ Sweep
        PROVE  UNCHANGED <<placed, attempt>>
    BY <1>4 DEF Checkout, CreateAutoUser, CreatePaymentWithOrders,
         CreatePaymentSession, AttachPaymentSession, EmitCheckoutStarted,
         CheckoutThrows, CustomerPays, BecomesStale, Sweep, SweepRead,
         SweepCancel, SweepEmit, SweepEnd, SweepEmitFails, SweepCrash,
         failoverVars
  <1>5. ASSUME NEW t \in Tasks, Crash(t)
        PROVE  UNCHANGED <<placed, attempt>>
    BY <1>5 DEF Crash
  <1> QED BY <1>1, <1>2, <1>3, <1>4, <1>5 DEF GuestNext, vars, failoverVars

\* An acceptance stays one: the panel takes the order no second time.
LEMMA AcceptedLasts ==
    ASSUME GuestTypeOK, GuestTypeOK', PlacedInv', Grows,
           NEW o \in Orders, NEW p \in Panels
    PROVE  /\ placed[o][p] = 1 => placed'[o][p] = 1
           /\ Accepted(o, p) => Accepted(o, p)'
  <1>1. placed[o][p] \in Nat /\ placed'[o][p] \in Nat
    BY DEF GuestTypeOK, FailoverTypeOK
  <1>2. placed'[o][p] <= 1 /\ placed[o][p] <= placed'[o][p]
    BY DEF PlacedInv, Grows
  <1> QED BY <1>1, <1>2 DEF Accepted, Grows

\* What is known of an order stays true while its row and announcements stay.
LEMMA ToldLasts ==
    ASSUME GuestTypeOK, GuestTypeOK', PlacedInv', Grows,
           NEW o \in Orders, Told(o),
           order'[o].status \in Early => order[o].status \in Early,
           order'[o].panel = order[o].panel,
           event'[o]["created"] = event[o]["created"],
           event'[o]["exhausted"] = event[o]["exhausted"]
    PROVE  Told(o)'
  <1>1. order[o].panel # NoPanel => Accepted(o, order[o].panel)'
    <2>1. order[o].panel \in Panels \cup {NoPanel}
      BY DEF GuestTypeOK
    <2>2. order[o].panel # NoPanel => Accepted(o, order[o].panel)
      BY DEF Told
    <2> QED BY <2>1, <2>2, AcceptedLasts DEF Accepted
  <1>2. \A j : Refused(o, j) => Refused(o, j)'
    BY DEF Refused, Grows
  <1> QED BY <1>1, <1>2 DEF Told, Unannounced

\* So does what a walk knows while it rests.
LEMMA AskedLasts ==
    ASSUME GuestTypeOK, GuestTypeOK', PlacedInv', Grows,
           NEW t \in Tasks, Asked(t),
           walk'[t] = walk[t] \/ walk'[t] = NoWalk
    PROVE  Asked(t)'
  <1>1. CASE walk'[t] = NoWalk
    BY <1>1 DEF Asked
  <1>2. CASE walk'[t] = walk[t] /\ walk[t] # NoWalk
    <2> DEFINE o == walk[t].order
               i == walk[t].next
    <2>1. o \in Orders /\ Route[o] \in Seq(Panels)
      BY <1>2, FailoverAssumption DEF GuestTypeOK, FailoverTypeOK, Walks
    <2>2. walk[t].at # "panel" => i \in DOMAIN Route[o] /\ Route[o][i] \in Panels
      BY <1>2, <2>1 DEF Asked
    <2>3. \A j : Refused(o, j) => Refused(o, j)'
      BY <1>2, <2>1 DEF Refused, Grows
    <2>4. walk[t].at = "accepted" => placed'[o][Route[o][i]] = 1
      BY <1>2, <2>1, <2>2, AcceptedLasts DEF Asked
    <2>5. walk[t].at = "won" => Accepted(o, Route[o][i])'
      BY <1>2, <2>1, <2>2, AcceptedLasts DEF Asked
    <2> QED BY <1>2, <2>2, <2>3, <2>4, <2>5 DEF Asked
  <1> QED BY <1>1, <1>2

LEMMA WrittenLasts ==
    ASSUME GuestTypeOK, Grows, NEW t \in Tasks, Written(t),
           \/ walk'[t] = NoWalk
           \/ /\ walk'[t] = walk[t]
              /\ delivery'[t] = delivery[t]
              /\ walk[t] # NoWalk =>
                    LET o == walk[t].order
                    IN  /\ order'[o].panel = order[o].panel
                        /\ event'[o]["created"] = event[o]["created"]
                        /\ event'[o]["exhausted"] = event[o]["exhausted"]
    PROVE  Written(t)'
  <1>1. CASE walk'[t] = NoWalk
    BY <1>1 DEF Written
  <1>2. CASE walk'[t] # NoWalk
    <2>1. PICK o \in Orders : o = walk[t].order
      BY <1>2 DEF GuestTypeOK, FailoverTypeOK, Walks
    <2>2. \A j : Refused(o, j) => Refused(o, j)'
      BY DEF Refused, Grows
    <2>3. walk'[t].order = o /\ delivery'[t] = delivery[t]
      BY <1>2, <2>1
    <2> QED BY <1>2, <2>1, <2>2, <2>3 DEF Written, Unannounced
  <1> QED BY <1>1, <1>2

LEMMA OutcomeStep ==
    ASSUME GuestTypeOK, GuestTypeOK', InHand, PlacedInv, PlacedInv',
           OutcomeInv, [GuestNext]_vars
    PROVE  OutcomeInv'
  <1>0. FailoverTypeOK /\ Grows
    BY GrowsStep DEF GuestTypeOK
  <1>g. ASSUME NEW t \in Tasks, NEW at, NEW todo, Go(t, at, todo)
        PROVE  /\ delivery'[t].at = at
               /\ \A u \in Tasks : u # t => delivery'[u] = delivery[u]
    BY <1>g DEF Go, GuestTypeOK
  \* Orders whose rows and announcements stay.
  <1>o. ASSUME NEW o \in Orders,
               order'[o].status \in Early => order[o].status \in Early,
               order'[o].panel = order[o].panel,
               event'[o]["created"] = event[o]["created"],
               event'[o]["exhausted"] = event[o]["exhausted"]
        PROVE  Told(o)'
    BY <1>0, <1>o, ToldLasts DEF OutcomeInv
  \* Steps that leave every panel, announcement and walk alone.
  <1>q. ASSUME \A o \in Orders :
                  /\ order'[o].status \in Early => order[o].status \in Early
                  /\ order'[o].panel = order[o].panel
                  /\ event'[o]["created"] = event[o]["created"]
                  /\ event'[o]["exhausted"] = event[o]["exhausted"],
               \A t \in Tasks :
                  \/ walk'[t] = NoWalk
                  \/ walk'[t] = walk[t] /\ delivery'[t] = delivery[t]
        PROVE  OutcomeInv'
    <2>1. \A o \in Orders : Told(o)'
      BY <1>q, <1>o
    <2>2. \A t \in Tasks : Asked(t)'
      BY <1>0, <1>q, AskedLasts DEF OutcomeInv
    <2>3. \A t \in Tasks : walk[t] # NoWalk => walk[t].order \in Orders
      BY <1>0 DEF FailoverTypeOK, Walks
    <2>4. \A t \in Tasks : Written(t)'
      BY <1>0, <1>q, <2>3, WrittenLasts DEF OutcomeInv
    <2> QED BY <2>1, <2>2, <2>4 DEF OutcomeInv
  <1>1. CASE UNCHANGED vars \/ CustomerPays \/ BecomesStale
    BY <1>1, <1>q DEF vars, guestVars, failoverVars, CustomerPays, BecomesStale
  <1>2. CASE Checkout
    <2>1. UNCHANGED <<walk, delivery, event>>
      BY <1>2 DEF Checkout, CreateAutoUser, CreatePaymentWithOrders,
           CreatePaymentSession, AttachPaymentSession, EmitCheckoutStarted,
           CheckoutThrows, failoverVars
    <2>2. \A o \in Orders :
             \/ order'[o] = order[o]
             \/ order[o].status = "NONE" /\ order'[o].panel = NoPanel
      BY <1>2 DEF Checkout, CreateAutoUser, CreatePaymentWithOrders,
           CreatePaymentSession, AttachPaymentSession, EmitCheckoutStarted,
           CheckoutThrows, Reaches, InHand
    <2>3. \A o \in Orders : order[o].status = "NONE" => order[o].panel = NoPanel
      BY DEF OutcomeInv, Told, Early
    <2> QED BY <2>1, <2>2, <2>3, <1>q DEF Early
  <1>3. ASSUME NEW t \in Tasks,
               \/ Load(t) \/ ClaimPayment(t) \/ EmitConfirmed(t) \/ Finish(t)
               \/ \E o \in Orders : SkipOrder(t, o)
        PROVE  OutcomeInv'
    <2>1. UNCHANGED <<walk, order, event>>
      BY <1>3 DEF Load, ClaimPayment, EmitConfirmed, Finish, SkipOrder,
           failoverVars
    <2>2. \A u \in Tasks : u # t => delivery'[u] = delivery[u]
      BY <1>3, <1>g DEF Load, ClaimPayment, EmitConfirmed, Finish, SkipOrder,
           Rest, GuestTypeOK
    <2>3. walk[t] = NoWalk
      <3>1. delivery[t].at \in {"rest", "claim", "confirm", "orders"}
        <4>1. Resting.at = "rest"
          BY DEF Resting
        <4> QED BY <1>3, <4>1 DEF Load, ClaimPayment, EmitConfirmed, Finish,
                   SkipOrder, At
      <3> QED BY <3>1 DEF InHand
    <2> QED BY <2>1, <2>2, <2>3, <1>q
  <1>4. ASSUME NEW t \in Tasks, NEW o \in Orders, ClaimOrder(t, o)
        PROVE  OutcomeInv'
    <2>1. /\ delivery'[t].at = "submit"
          /\ \A u \in Tasks : u # t => delivery'[u] = delivery[u]
          /\ event' = event
      BY <1>4, <1>g DEF ClaimOrder
    <2>2. /\ walk'[t] = [order |-> o, next |-> 1, at |-> "panel"]
          /\ \A u \in Tasks : u # t => walk'[u] = walk[u]
      BY <1>4, <1>0 DEF ClaimOrder, StartWalk, FailoverTypeOK
    <2>3. \A x \in Orders :
             /\ order'[x].panel = order[x].panel
             /\ order'[x].status \in Early => order[x].status \in Early
      BY <1>4 DEF ClaimOrder, Early, GuestTypeOK
    <2>4. \A x \in Orders : Told(x)'
      BY <2>1, <2>3, <1>o
    <2>5. order[o].panel = NoPanel /\ Unannounced(o)
      BY <1>4 DEF ClaimOrder, OutcomeInv, Told, Early
    <2>6. Written(t)'
      BY <2>1, <2>2, <2>3, <2>5 DEF Written, Unannounced
    <2>7. Asked(t)'
      <3>1. \A j \in DOMAIN Route[o] : ~(j < 1)
        <4>1. Route[o] \in Seq(Panels)
          BY FailoverAssumption
        <4> QED BY <4>1
      <3> QED BY <2>2, <3>1 DEF Asked
    <2>8. \A u \in Tasks : u # t => Asked(u)'
      BY <1>0, <2>2, AskedLasts DEF OutcomeInv
    <2>9. \A u \in Tasks : walk[u] # NoWalk => walk[u].order \in Orders
      BY <1>0 DEF FailoverTypeOK, Walks
    <2>10. \A u \in Tasks : u # t => Written(u)'
      BY <1>0, <2>1, <2>2, <2>3, <2>9, WrittenLasts DEF OutcomeInv
    <2> QED BY <2>4, <2>6, <2>7, <2>8, <2>10 DEF OutcomeInv
  <1>5. ASSUME NEW t \in Tasks, Submit(t)
        PROVE  OutcomeInv'
    <2>1. UNCHANGED <<delivery, order, event>> /\ Walk(t) /\ delivery[t].at = "submit"
      BY <1>5 DEF Submit, guestVars, At
    <2>2. /\ walk[t] # NoWalk
          /\ walk'[t].order = walk[t].order
          /\ \A u \in Tasks : u # t => walk'[u] = walk[u]
      BY <1>0, <2>1, WalkKeepsOrder
    <2>3. \A x \in Orders : Told(x)'
      BY <2>1, <1>o
    <2>4. Asked(t)'
      BY <1>0, <2>1, WalkAsks DEF OutcomeInv
    <2>5. Written(t)'
      BY <2>1, <2>2 DEF OutcomeInv, Written, Unannounced
    <2>6. \A u \in Tasks : u # t => Asked(u)' /\ Written(u)'
      BY <1>0, <2>1, <2>2, AskedLasts, WrittenLasts DEF OutcomeInv
    <2> QED BY <2>3, <2>4, <2>5, <2>6 DEF OutcomeInv
  <1>6. ASSUME NEW t \in Tasks, WriteProcessing(t) \/ WriteFailed(t)
        PROVE  OutcomeInv'
    <2>1. /\ walk' = walk /\ event' = event /\ attempt' = attempt
          /\ placed' = placed /\ walk[t] # NoWalk /\ delivery[t].at = "submit"
      BY <1>6 DEF WriteProcessing, WriteFailed, failoverVars, Walking,
           Exhausted, At
    <2>2. PICK o \in Orders : o = walk[t].order
      BY <1>0, <2>1 DEF FailoverTypeOK, Walks
    <2>3. /\ Unannounced(o) /\ order[o].panel = NoPanel
          /\ order[o].status \notin Early
      BY <2>1, <2>2 DEF OutcomeInv, Written, InHand
    <2>4. /\ \A x \in Orders : x # o => order'[x] = order[x]
          /\ order'[o].status \notin Early
      BY <1>6, <2>2 DEF WriteProcessing, WriteFailed, Early, GuestTypeOK
    <2>5. \A u \in Tasks : u # t => delivery'[u] = delivery[u]
      BY <1>6, <1>g DEF WriteProcessing, WriteFailed
    <2>6. \A x \in Orders : x # o => Told(x)'
      BY <2>1, <2>4, <1>o
    <2>7. \A u \in Tasks : Asked(u)'
      BY <1>0, <2>1, AskedLasts DEF OutcomeInv
    <2>8. ASSUME NEW u \in Tasks, u # t
          PROVE  Written(u)'
      <3>1. walk[u] # NoWalk => walk[u].order \in Orders /\ walk[u].order # o
        BY <1>0, <2>1, <2>2, <2>8 DEF FailoverTypeOK, Walks, InHand
      <3> QED BY <1>0, <2>1, <2>4, <2>5, <2>8, <3>1, WrittenLasts DEF OutcomeInv
    <2>9. CASE WriteProcessing(t)
      <3>1. /\ order'[o].panel = Panel(t)
            /\ delivery'[t].at = "created"
            /\ walk[t].at = "won"
        BY <2>2, <2>9, <1>g DEF WriteProcessing, GuestTypeOK, Walking
      <3>2. Panel(t) \in Panels /\ Panel(t) # NoPanel
        BY <1>0, <2>9, PanelOfRoute, GuestAssumption DEF WriteProcessing
      <3>3. Accepted(o, Panel(t))
        BY <2>1, <2>2, <3>1 DEF OutcomeInv, Asked, Panel
      <3>4. Told(o)'
        BY <2>1, <2>3, <2>4, <3>1, <3>3 DEF Told, Unannounced, Accepted
      <3>5. Written(t)'
        BY <2>1, <2>2, <2>3, <3>1, <3>2 DEF Written, Unannounced
      <3> QED BY <2>6, <2>7, <2>8, <3>4, <3>5 DEF OutcomeInv
    <2>10. CASE WriteFailed(t)
      <3>1. /\ order'[o].panel = NoPanel
            /\ delivery'[t].at = "exhausted"
        BY <2>2, <2>3, <2>10, <1>g DEF WriteFailed, GuestTypeOK
      <3>2. \A j \in DOMAIN Route[o] : Refused(o, j)
        <4>1. /\ Route[o] \in Seq(Panels)
              /\ walk[t].next > Len(Route[o])
              /\ walk[t].next \in Nat
          BY <1>0, <2>1, <2>2, <2>10, FailoverAssumption
          DEF WriteFailed, Exhausted, FailoverTypeOK, Walks
        <4>2. \A j \in DOMAIN Route[o] : j < walk[t].next
          BY <4>1
        <4> QED BY <2>1, <2>2, <4>2 DEF OutcomeInv, Asked
      <3>3. Told(o)'
        BY <2>1, <2>3, <2>4, <3>1 DEF Told, Unannounced
      <3>4. Written(t)'
        BY <2>1, <2>2, <2>3, <3>1, <3>2 DEF Written, Unannounced, Refused
      <3> QED BY <2>6, <2>7, <2>8, <3>3, <3>4 DEF OutcomeInv
    <2> QED BY <1>6, <2>9, <2>10
  <1>7. ASSUME NEW t \in Tasks, EmitOutcome(t)
        PROVE  OutcomeInv'
    <2>1. /\ order' = order /\ attempt' = attempt /\ placed' = placed
          /\ delivery[t].at \in {"created", "exhausted"}
      BY <1>7 DEF EmitOutcome, At
    <2>2. walk[t] # NoWalk
      BY <2>1 DEF InHand
    <2>3. PICK o \in Orders : o = walk[t].order
      BY <1>0, <2>2 DEF FailoverTypeOK, Walks
    <2>4. /\ walk'[t] = NoWalk
          /\ \A u \in Tasks : u # t => walk'[u] = walk[u]
          /\ \A u \in Tasks : u # t => delivery'[u] = delivery[u]
      BY <1>0, <1>7, <1>g DEF EmitOutcome, StopWalk, FailoverTypeOK
    <2>5. /\ \A x \in Orders : x # o => event'[x] = event[x]
          /\ \A e \in Events : event'[o][e] =
                IF e = delivery[t].at THEN event[o][e] + 1 ELSE event[o][e]
      BY <1>7, <2>3 DEF EmitOutcome, Emit, GuestTypeOK
    <2>6. Unannounced(o)
      BY <2>2, <2>3 DEF OutcomeInv, Written
    <2>7. /\ event'[o]["created"] =
                IF delivery[t].at = "created" THEN 1 ELSE 0
          /\ event'[o]["exhausted"] =
                IF delivery[t].at = "exhausted" THEN 1 ELSE 0
      BY <2>5, <2>6 DEF Unannounced, Events
    <2>8. Told(o)'
      <3>1. order[o].status \notin Early
        BY <2>2, <2>3 DEF InHand
      <3>2. CASE delivery[t].at = "created"
        <4>1. order[o].panel # NoPanel /\ Told(o)
          BY <2>2, <2>3, <3>2 DEF OutcomeInv, Written
        <4> QED BY <2>1, <2>7, <3>1, <3>2, <4>1 DEF Told, Accepted
      <3>3. CASE delivery[t].at = "exhausted"
        <4>1. /\ order[o].panel = NoPanel
              /\ \A j \in DOMAIN Route[o] : Refused(o, j)
          BY <2>2, <2>3, <3>3 DEF OutcomeInv, Written
        <4> QED BY <2>1, <2>7, <3>1, <3>3, <4>1 DEF Told, Refused
      <3> QED BY <2>1, <3>2, <3>3
    <2>9. \A x \in Orders : x # o => Told(x)'
      BY <2>1, <2>5, <1>o
    <2>10. \A u \in Tasks : Asked(u)'
      BY <1>0, <2>4, AskedLasts DEF OutcomeInv
    <2>11. ASSUME NEW u \in Tasks
           PROVE  Written(u)'
      <3>1. CASE u = t
        BY <2>4, <3>1 DEF Written
      <3>2. CASE u # t
        <4>1. walk[u] # NoWalk =>
                 walk[u].order \in Orders /\ walk[u].order # o
          BY <1>0, <2>2, <2>3, <3>2 DEF FailoverTypeOK, Walks, InHand
        <4> QED BY <1>0, <2>1, <2>4, <2>5, <3>2, <4>1, WrittenLasts
                DEF OutcomeInv
      <3> QED BY <3>1, <3>2
    <2> QED BY <2>8, <2>9, <2>10, <2>11 DEF OutcomeInv
  <1>8. ASSUME NEW t \in Tasks, Crash(t)
        PROVE  OutcomeInv'
    <2>1. UNCHANGED <<order, event>>
      BY <1>8 DEF Crash
    <2>2. /\ walk'[t] = NoWalk
          /\ \A u \in Tasks : u # t =>
                walk'[u] = walk[u] /\ delivery'[u] = delivery[u]
      BY <1>0, <1>8 DEF Crash, StopWalk, Rest, FailoverTypeOK, GuestTypeOK
    <2> QED BY <2>1, <2>2, <1>q
  <1>9. CASE Sweep
    <2>1. UNCHANGED <<walk, delivery>>
      BY <1>9 DEF Sweep, SweepRead, SweepCancel, SweepEmit, SweepEnd,
           SweepEmitFails, SweepCrash, failoverVars
    <2>2. \A o \in Orders :
             /\ order'[o].panel = order[o].panel
             /\ order'[o].status = order[o].status \/ order'[o].status = "CANCELLED"
      BY <1>9 DEF Sweep, SweepRead, SweepCancel, SweepEmit, SweepEnd,
           SweepEmitFails, SweepCrash, GuestTypeOK
    <2>3. \A o \in Orders : /\ event'[o]["created"] = event[o]["created"]
                            /\ event'[o]["exhausted"] = event[o]["exhausted"]
      BY <1>9 DEF Sweep, SweepRead, SweepCancel, SweepEmit, SweepEnd,
           SweepEmitFails, SweepCrash, Emit, Events, GuestTypeOK
    <2> QED BY <2>1, <2>2, <2>3, <1>q DEF Early
  <1> QED BY <1>1, <1>2, <1>3, <1>4, <1>5, <1>6, <1>7, <1>8, <1>9
          DEF GuestNext, Deliver

\* What is announced of an order is true and is announced once, whatever
\* deliveries, crashes, lost answers and the expiry worker do to each other:
\* a created order has the external id of a panel that took it, an exhausted
\* one has none and every panel's refusal on record.
THEOREM AnnouncedOutcomesAreTrue == GuestSpec => []OutcomeIsTrue
  <1>1. GuestInit => InHand /\ PlacedInv /\ OutcomeInv
    BY DEF GuestInit, FailoverInit, InHand, PlacedInv, OutcomeInv, Resting,
         NoWalk, Early, Asked, Written, Told, Unannounced, Events
  <1>2. /\ GuestTypeOK /\ GuestTypeOK'
        /\ InHand /\ PlacedInv /\ OutcomeInv /\ [GuestNext]_vars
        => InHand' /\ PlacedInv' /\ OutcomeInv'
    BY InHandStep, PlacedStep, OutcomeStep
  <1>3. OutcomeInv => OutcomeIsTrue
    BY DEF OutcomeInv, Told, Accepted, Refused, OutcomeIsTrue
  <1> QED BY <1>1, <1>2, <1>3, GuestTypeCorrect, PTL DEF GuestSpec

-----------------------------------------------------------------------------
(* What copies of an order cost.                                           *)

\* The faults that can cost a copy.
Costs == faults["answer"] + faults["record"]

\* An unpaid order has no copies; every other has one for each fault and at
\* most one more, which it has not while its walk still asks panels.
CopiesInv ==
    /\ \A o \in Orders :
          /\ IsFiniteSet(Copies(o))
          /\ order[o].status \in Early => Copies(o) = {}
          /\ Cardinality(Copies(o)) <= 1 + Costs
    /\ \A t \in Tasks :
          walk[t] # NoWalk /\ walk[t].at \in {"panel", "refused"} =>
              Cardinality(Copies(walk[t].order)) <= Costs

\* Faults are never forgotten.
LEMMA CostsStep ==
    ASSUME GuestTypeOK, [GuestNext]_vars
    PROVE  Costs \in Nat /\ Costs' \in Nat /\ Costs <= Costs'
  <1>0. faults \in [FaultKinds -> Nat]
    BY DEF GuestTypeOK, FailoverTypeOK
  <1>1. \A k \in FaultKinds : faults'[k] \in Nat /\ faults[k] <= faults'[k]
    <2>1. ASSUME NEW kind, Fault(kind)
          PROVE  <1>1!:
      BY <1>0, <2>1 DEF Fault
    <2>2. CASE UNCHANGED faults
      BY <1>0, <2>2
    <2>3. UNCHANGED faults \/ \E kind : Fault(kind)
      <3>1. ASSUME NEW t \in Tasks, Deliver(t) \/ Crash(t)
            PROVE  <2>3!:
        BY <3>1 DEF Deliver, Load, ClaimPayment, EmitConfirmed, ClaimOrder,
             SkipOrder, Submit, Walk, PanelAccepts, PanelRefuses, AnswerLost,
             RecordSuccess, RecordSuccessFails, RecordFailure,
             WriteProcessing, WriteFailed, EmitOutcome, Finish, Crash,
             failoverVars
      <3>2. ASSUME Checkout \/ CustomerPays \/ BecomesStale \/ Sweep
            PROVE  <2>3!:
        BY <3>2 DEF Checkout, CreateAutoUser, CreatePaymentWithOrders,
             CreatePaymentSession, AttachPaymentSession, EmitCheckoutStarted,
             CheckoutThrows, CustomerPays, BecomesStale, Sweep, SweepRead,
             SweepCancel, SweepEmit, SweepEnd, SweepEmitFails, SweepCrash,
             failoverVars
      <3> QED BY <3>1, <3>2 DEF GuestNext, vars, failoverVars
    <2> QED BY <2>1, <2>2, <2>3
  <1>2. "answer" \in FaultKinds /\ "record" \in FaultKinds
    BY DEF FaultKinds
  <1>3. /\ faults["answer"] \in Nat /\ faults["record"] \in Nat
        /\ faults'["answer"] \in Nat /\ faults'["record"] \in Nat
        /\ faults["answer"] <= faults'["answer"]
        /\ faults["record"] <= faults'["record"]
    BY <1>0, <1>1, <1>2
  <1> QED BY <1>3 DEF Costs

\* A step of a walk copies its order to the panel it is at, or copies none.
LEMMA WalkCopies ==
    ASSUME FailoverTypeOK, NEW t \in Tasks, Walk(t), NEW x \in Orders,
           IsFiniteSet(Copies(x))
    PROVE  /\ IsFiniteSet(Copies(x)')
           /\ Cardinality(Copies(x)) \in Nat
           /\ Cardinality(Copies(x)') \in Nat
           /\ Cardinality(Copies(x)') <= Cardinality(Copies(x)) + 1
           /\ placed' = placed \/ x # walk[t].order => Copies(x)' = Copies(x)
  <1>1. /\ walk[t].order \in Orders
        /\ Panel(t) \in Panels
    BY WalkOnly
  <1>2. CASE placed' = placed \/ x # walk[t].order
    <2>1. placed'[x] = placed[x]
      BY <1>1, <1>2 DEF Walk, PanelAccepts, PanelRefuses, AnswerLost,
           RecordSuccess, RecordSuccessFails, RecordFailure, Place,
           FailoverTypeOK
    <2>2. Copies(x)' = Copies(x)
      BY <2>1 DEF Copies
    <2>3. Cardinality(Copies(x)) \in Nat
      BY FS_CardinalityType
    <2> QED BY <2>2, <2>3
  <1>3. CASE x = walk[t].order /\ placed' # placed
    <2>1. Place(t)
      BY <1>3 DEF Walk, PanelAccepts, PanelRefuses, AnswerLost,
           RecordSuccess, RecordSuccessFails, RecordFailure
    <2>2. \A p \in Panels : /\ placed[x][p] \in Nat
                            /\ placed'[x][p] = IF p = Panel(t)
                                 THEN placed[x][p] + 1 ELSE placed[x][p]
      BY <1>1, <1>3, <2>1 DEF Place, FailoverTypeOK
    <2>3. Copies(x)' = Copies(x) \cup {Panel(t)}
      BY <1>1, <2>2 DEF Copies
    <2>4. /\ IsFiniteSet(Copies(x) \cup {Panel(t)})
          /\ Cardinality(Copies(x) \cup {Panel(t)}) =
                IF Panel(t) \in Copies(x) THEN Cardinality(Copies(x))
                                          ELSE Cardinality(Copies(x)) + 1
      BY FS_AddElement
    <2>5. Cardinality(Copies(x)) \in Nat
      BY FS_CardinalityType
    <2> QED BY <1>3, <2>3, <2>4, <2>5
  <1> QED BY <1>2, <1>3

\* A step of a walk pays for the copy it makes.
LEMMA WalkPays ==
    ASSUME GuestTypeOK, CopiesInv, NEW t \in Tasks, Submit(t),
           NEW o \in Orders, o = walk[t].order
    PROVE  /\ Cardinality(Copies(o)') <= 1 + Costs'
           /\ walk'[t].at \in {"panel", "refused"} =>
                 Cardinality(Copies(o)') <= Costs'
  <1> DEFINE n == Cardinality(Copies(o)')
             c == Cardinality(Copies(o))
  <1>0. FailoverTypeOK /\ Walk(t)
    BY DEF GuestTypeOK, Submit
  <1>1. walk[t] # NoWalk
    BY <1>0, WalkKeepsOrder
  <1>2. /\ c \in Nat /\ n \in Nat
        /\ n <= c + 1
        /\ placed' = placed => n = c
    BY <1>0, <1>1, WalkCopies DEF CopiesInv
  <1>3. /\ c <= 1 + Costs
        /\ walk[t].at \in {"panel", "refused"} => c <= Costs
    BY <1>1 DEF CopiesInv
  <1>4. /\ faults["answer"] \in Nat /\ faults["record"] \in Nat
        /\ Costs \in Nat
    BY <1>0 DEF FailoverTypeOK, FaultKinds, Costs
  <1>m. ASSUME NEW next, NEW stage, MoveTo(t, next, stage)
        PROVE  walk'[t].at = stage
    BY <1>0, <1>m DEF MoveTo, FailoverTypeOK
  <1>f. ASSUME NEW kind \in {"answer", "record"}, Fault(kind)
        PROVE  Costs' = Costs + 1
    BY <1>0, <1>4, <1>f DEF Fault, Costs, FailoverTypeOK, FaultKinds
  <1>5. CASE PanelAccepts(t)
    <2>1. walk[t].at = "panel" /\ Costs' = Costs
      BY <1>5 DEF PanelAccepts, Walking, Costs
    <2>2. walk'[t].at = "accepted"
      BY <1>5, <1>m DEF PanelAccepts
    <2> HIDE DEF n, c
    <2> QED BY <1>2, <1>3, <1>4, <2>1, <2>2 DEF n
  <1>6. CASE AnswerLost(t)
    <2>1. walk[t].at = "panel" /\ Costs' = Costs + 1
      BY <1>6, <1>f DEF AnswerLost, Walking
    <2> HIDE DEF n, c
    <2> QED BY <1>2, <1>3, <1>4, <2>1 DEF n
  <1>7. CASE PanelRefuses(t) \/ RecordFailure(t)
    <2>1. /\ walk[t].at \in {"panel", "refused"}
          /\ Costs' = Costs /\ placed' = placed
      BY <1>7 DEF PanelRefuses, RecordFailure, Walking, Costs
    <2> HIDE DEF n, c
    <2> QED BY <1>2, <1>3, <1>4, <2>1 DEF n
  <1>8. CASE RecordSuccess(t)
    <2>1. Costs' = Costs /\ placed' = placed
      BY <1>8 DEF RecordSuccess, Costs
    <2>2. walk'[t].at = "won"
      BY <1>8, <1>m DEF RecordSuccess
    <2> HIDE DEF n, c
    <2> QED BY <1>2, <1>3, <1>4, <2>1, <2>2 DEF n
  <1>9. CASE RecordSuccessFails(t)
    <2>1. Costs' = Costs + 1 /\ placed' = placed
      BY <1>9, <1>f DEF RecordSuccessFails
    <2> HIDE DEF n, c
    <2> QED BY <1>2, <1>3, <1>4, <2>1 DEF n
  <1> QED BY <1>0, <1>5, <1>6, <1>7, <1>8, <1>9 DEF Walk

LEMMA CopiesStep ==
    ASSUME GuestTypeOK, InHand, CopiesInv, [GuestNext]_vars
    PROVE  CopiesInv'
  <1>0. FailoverTypeOK /\ Costs \in Nat /\ Costs' \in Nat /\ Costs <= Costs'
    BY CostsStep DEF GuestTypeOK
  <1>n. \A x \in Orders : Cardinality(Copies(x)) \in Nat
    BY FS_CardinalityType DEF CopiesInv
  <1>w. \A u \in Tasks : walk[u] # NoWalk => walk[u].order \in Orders
    BY <1>0 DEF FailoverTypeOK, Walks
  \* Steps that place nothing, and start no walk but of an unpaid order.
  <1>q. ASSUME placed' = placed,
               \A x \in Orders :
                  order'[x].status \in Early => order[x].status \in Early,
               \A u \in Tasks :
                  \/ walk'[u] = walk[u]
                  \/ walk'[u] = NoWalk
                  \/ /\ walk'[u].order \in Orders
                     /\ order[walk'[u].order].status \in Early
        PROVE  CopiesInv'
    <2>1. \A x : Copies(x)' = Copies(x)
      BY <1>q DEF Copies
    <2>2. \A x \in Orders :
             /\ IsFiniteSet(Copies(x)')
             /\ order'[x].status \in Early => Copies(x)' = {}
             /\ Cardinality(Copies(x)') <= 1 + Costs'
      BY <1>0, <1>n, <1>q, <2>1 DEF CopiesInv
    <2>3. ASSUME NEW u \in Tasks, walk'[u] # NoWalk,
                 walk'[u].at \in {"panel", "refused"}
          PROVE  Cardinality(Copies(walk'[u].order)) <= Costs'
      <3>1. CASE walk'[u] = walk[u]
        BY <1>0, <1>n, <1>w, <2>3, <3>1 DEF CopiesInv
      <3>2. CASE /\ walk'[u].order \in Orders
                 /\ order[walk'[u].order].status \in Early
        BY <1>0, <3>2, FS_EmptySet DEF CopiesInv
      <3> QED BY <1>q, <2>3, <3>1, <3>2
    <2>4. \A u \in Tasks : Copies(walk[u].order)' = Copies(walk'[u].order)
      BY <1>q DEF Copies
    <2> QED BY <2>2, <2>3, <2>4 DEF CopiesInv
  <1>1. CASE UNCHANGED vars \/ CustomerPays \/ BecomesStale
    BY <1>1, <1>q DEF vars, guestVars, failoverVars, CustomerPays, BecomesStale
  <1>2. CASE Checkout
    <2>1. UNCHANGED <<placed, walk>>
      BY <1>2 DEF Checkout, CreateAutoUser, CreatePaymentWithOrders,
           CreatePaymentSession, AttachPaymentSession, EmitCheckoutStarted,
           CheckoutThrows, failoverVars
    <2>2. \A o \in Orders : order'[o] = order[o] \/ order[o].status \in Early
      BY <1>2 DEF Checkout, CreateAutoUser, CreatePaymentWithOrders,
           CreatePaymentSession, AttachPaymentSession, EmitCheckoutStarted,
           CheckoutThrows, Reaches, InHand, Early
    <2> QED BY <2>1, <2>2, <1>q
  <1>3. ASSUME NEW t \in Tasks,
               \/ Load(t) \/ ClaimPayment(t) \/ EmitConfirmed(t) \/ Finish(t)
               \/ \E o \in Orders : SkipOrder(t, o)
        PROVE  CopiesInv'
    BY <1>3, <1>q DEF Load, ClaimPayment, EmitConfirmed, Finish, SkipOrder,
         failoverVars
  <1>4. ASSUME NEW t \in Tasks, NEW o \in Orders, ClaimOrder(t, o)
        PROVE  CopiesInv'
    <2>1. /\ walk'[t].order = o /\ placed' = placed
          /\ \A u \in Tasks : u # t => walk'[u] = walk[u]
      BY <1>0, <1>4 DEF ClaimOrder, StartWalk, FailoverTypeOK
    <2>2. /\ order[o].status \in Early
          /\ \A x \in Orders :
                order'[x].status \in Early => order[x].status \in Early
      BY <1>4 DEF ClaimOrder, GuestTypeOK, Early
    <2> QED BY <2>1, <2>2, <1>q
  <1>5. ASSUME NEW t \in Tasks, Submit(t)
        PROVE  CopiesInv'
    <2>1. order' = order /\ Walk(t)
      BY <1>5 DEF Submit, guestVars
    <2>2. /\ walk[t] # NoWalk
          /\ walk'[t].order = walk[t].order
          /\ \A u \in Tasks : u # t => walk'[u] = walk[u]
      BY <1>0, <2>1, WalkKeepsOrder
    <2>3. PICK o \in Orders : o = walk[t].order
      BY <1>w, <2>2
    <2>4. order[o].status \notin Early
      BY <2>2, <2>3 DEF InHand
    <2>5. /\ Cardinality(Copies(o)') <= 1 + Costs'
          /\ walk'[t].at \in {"panel", "refused"} =>
                Cardinality(Copies(o)') <= Costs'
      BY <1>5, <2>3, WalkPays
    <2>6. \A x \in Orders :
             /\ IsFiniteSet(Copies(x)')
             /\ x # o => Copies(x)' = Copies(x)
      BY <1>0, <2>1, <2>3, WalkCopies DEF CopiesInv
    <2>7. \A x \in Orders :
             /\ order'[x].status \in Early => Copies(x)' = {}
             /\ Cardinality(Copies(x)') <= 1 + Costs'
      BY <1>0, <1>n, <2>1, <2>4, <2>5, <2>6 DEF CopiesInv
    <2>8. ASSUME NEW u \in Tasks, walk'[u] # NoWalk,
                 walk'[u].at \in {"panel", "refused"}
          PROVE  Cardinality(Copies(walk[u].order))' <= Costs'
      <3>1. CASE u = t
        <4>1. walk'[u].order = o
          BY <2>2, <2>3, <3>1
        <4>2. Copies(walk[u].order)' = Copies(o)'
          BY <4>1 DEF Copies
        <4> QED BY <2>5, <2>8, <3>1, <4>2
      <3>2. CASE u # t
        <4>1. PICK x \in Orders : x = walk[u].order /\ x # o /\ x = walk'[u].order
          BY <1>w, <2>2, <2>3, <2>8, <3>2 DEF InHand
        <4>2. Copies(walk[u].order)' = Copies(x)'
          BY <4>1 DEF Copies
        <4>3. Copies(x)' = Copies(x)
          BY <2>6, <4>1
        <4>4. Cardinality(Copies(x)) <= Costs
          BY <2>2, <2>8, <3>2, <4>1 DEF CopiesInv
        <4> QED BY <1>0, <1>n, <4>2, <4>3, <4>4
      <3> QED BY <3>1, <3>2
    <2> QED BY <2>6, <2>7, <2>8 DEF CopiesInv
  <1>6. ASSUME NEW t \in Tasks,
               WriteProcessing(t) \/ WriteFailed(t) \/ EmitOutcome(t) \/ Crash(t)
        PROVE  CopiesInv'
    <2>1. placed' = placed
      BY <1>6 DEF WriteProcessing, WriteFailed, EmitOutcome, Crash, failoverVars
    <2>2. \A u \in Tasks : walk'[u] = walk[u] \/ walk'[u] = NoWalk
      BY <1>0, <1>6 DEF WriteProcessing, WriteFailed, EmitOutcome, Crash,
           StopWalk, failoverVars, FailoverTypeOK
    <2>3. \A o \in Orders :
             order'[o].status \in Early => order[o].status \in Early
      <3>1. CASE WriteProcessing(t)
        BY <3>1 DEF WriteProcessing, GuestTypeOK, Early
      <3>2. CASE WriteFailed(t)
        BY <3>2 DEF WriteFailed, GuestTypeOK, Early
      <3>3. CASE EmitOutcome(t) \/ Crash(t)
        BY <3>3 DEF EmitOutcome, Crash
      <3> QED BY <1>6, <3>1, <3>2, <3>3
    <2> QED BY <2>1, <2>2, <2>3, <1>q
  <1>7. CASE Sweep
    <2>1. UNCHANGED <<placed, walk>>
      BY <1>7 DEF Sweep, SweepRead, SweepCancel, SweepEmit, SweepEnd,
             SweepEmitFails, SweepCrash, failoverVars
    <2>2. \A o \in Orders :
             order'[o].status = order[o].status \/ order'[o].status = "CANCELLED"
      BY <1>7 DEF Sweep, SweepRead, SweepCancel, SweepEmit, SweepEnd,
             SweepEmitFails, SweepCrash, GuestTypeOK
    <2> QED BY <2>1, <2>2, <1>q DEF Early
  <1> QED BY <1>1, <1>2, <1>3, <1>4, <1>5, <1>6, <1>7 DEF GuestNext, Deliver

\* Beyond the one panel an order ends up with, every panel that took it was
\* paid for with a lost answer or a failed insert, and with nothing else: not
\* with crashes, repeated webhooks or the expiry worker.
THEOREM CopiesArePaidFor == GuestSpec => []CopiesCostFaults
  <1>1. GuestInit => InHand /\ CopiesInv
    <2> SUFFICES ASSUME GuestInit
                 PROVE  InHand /\ CopiesInv
      OBVIOUS
    <2>1. InHand
      BY DEF GuestInit, FailoverInit, InHand, Resting, NoWalk, Early
    <2>2. \A o \in Orders : Copies(o) = {}
      <3>1. \A o \in Orders, p \in Panels : placed[o][p] = 0
        BY DEF GuestInit, FailoverInit
      <3>2. \A o \in Orders, p \in Panels : ~(placed[o][p] > 0)
        BY <3>1
      <3> QED BY <3>2 DEF Copies
    <2>3. Costs = 0
      BY DEF GuestInit, FailoverInit, Costs, FaultKinds
    <2>4. \A t \in Tasks : walk[t] = NoWalk
      BY DEF GuestInit, FailoverInit
    <2> QED BY <2>1, <2>2, <2>3, <2>4, FS_EmptySet DEF CopiesInv
  <1>2. GuestTypeOK /\ InHand /\ CopiesInv /\ [GuestNext]_vars
        => InHand' /\ CopiesInv'
    BY InHandStep, CopiesStep
  <1>3. GuestTypeOK /\ CopiesInv => CopiesCostFaults
    <2> SUFFICES ASSUME GuestTypeOK, CopiesInv, NEW o \in Orders
                 PROVE  Cardinality(Copies(o))
                           <= 1 + faults["answer"] + faults["record"]
      BY DEF CopiesCostFaults
    <2>1. /\ faults["answer"] \in Nat /\ faults["record"] \in Nat
          /\ Cardinality(Copies(o)) \in Nat
      BY FS_CardinalityType
      DEF GuestTypeOK, FailoverTypeOK, FaultKinds, CopiesInv
    <2> QED BY <2>1 DEF CopiesInv, Costs
  <1> QED BY <1>1, <1>2, <1>3, GuestTypeCorrect, PTL DEF GuestSpec

=============================================================================
