--------------------------- MODULE OrderLifecycle ---------------------------
(***************************************************************************)
(* Orders that are paid from a wallet, from creation to settlement         *)
(* (modules/orders: create-order.flow, orders.service, the status poller,  *)
(* the timeout worker and fund-settlement; modules/admin/admin-orders).    *)
(*                                                                         *)
(* Every handler reads an order, decides, and then runs statement after    *)
(* statement, each committed on its own: a task holds the script of those  *)
(* still to come.  Nothing looks at the order again, and writes of its     *)
(* status are by id.  What happens when a statement throws differs from    *)
(* handler to handler.                                                     *)
(*                                                                         *)
(* The wallet of a customer has one pool of held money; an order has no    *)
(* part of it that is its own.  A call of billing is two steps, its read   *)
(* and its commit, as in Wallet.  One customer is enough, since no step    *)
(* touches two wallets.  The walk over the panels is Failover's; here it   *)
(* is one step with an outcome.                                            *)
(***************************************************************************)
EXTENDS WalletOps, Sequences

CONSTANTS
    Orders,
    Price,         \* what an order costs
    Quantity,      \* how much of the service it orders
    Remains,       \* what panels may say is left of a partial order
    Least,         \* the least of these numbers (the column is an INTEGER)
    NoNumber,      \* an answer that Number() makes NaN of
    Prepaid,       \* orders of a guest's cart: paid outside, nothing held
    Refills,       \* orders that do a completed one again, for nothing
    AdminOrders,   \* orders that administrators force and refund
    Tasks,         \* tasks that may run at the same time
    Opening,       \* the row at the start; its hold is of orders not in Orders
    MaxFaults,     \* bound: statements that throw, processes that die
    MaxActs        \* bound: requests of administrators

ASSUME OrderAssumption ==
    /\ Orders \subseteq Refs
    /\ Price \in [Orders -> Nat]
    /\ Quantity \in [Orders -> Nat \ {0}]
    /\ NoNumber \notin Int
    /\ Remains \subseteq Int \cup {NoNumber}
    /\ Least \in Int /\ Least <= 0       \* what is left out counts as 0
    /\ \A remains \in Remains \ {NoNumber} : remains >= Least
    /\ Prepaid \subseteq Orders
    /\ Refills \subseteq Orders \ Prepaid
    /\ \A o \in Refills : Price[o] = 0
    /\ AdminOrders \subseteq Orders
    /\ Opening \in WalletRow /\ Covered(Opening)
    /\ MaxFaults \in Nat
    /\ MaxActs \in Nat

VARIABLES
    wallet,   \* the customer's committed row
    order,    \* order[o]: the order row
    moved,    \* moved[o]: what the ledger rows of o amount to, by operation
    told,     \* told[o]: outbox rows of o, by event
    task,     \* task[t]: what t is in the middle of
    faults,
    acts      \* requests of administrators so far

vars == <<wallet, order, moved, told, task, faults, acts>>

Moves == {"hold", "release", "charge", "refund"}
Ended == {"COMPLETED", "PARTIAL", "FAILED", "CANCELLED"}
Statuses == {"NONE", "PENDING", "PROCESSING", "REFUNDED"} \cup Ended
Events ==
    {"created", "exhausted", "completed", "partial", "failed", "cancelled"}

Statement ==
    [do : Moves, amount : Nat]                 \* a call of billing
    \cup [do : {"walk", "place"}]              \* offer the order; note who took it
    \cup [do : {"write", "mark"}, status : Statuses]
    \cup [do : {"tell"}, event : Events]

Resting == [kind |-> "none"]

\* cleanup: the catch block of a failed creation; check: the timeout worker's
\* last question, with its own catch block; the others let a throw end them.
Kinds == {"create", "cleanup", "check", "plain"}

Running ==
    [kind : Kinds, order : Orders, script : Seq(Statement),
     at : {"next", "commit"}, seen : WalletRow]

Unread == [balance |-> 0, hold |-> 0]

OrderTypeOK ==
    /\ wallet \in WalletRow
    /\ order \in [Orders -> [status : Statuses, placed : BOOLEAN]]
    /\ moved \in [Orders -> [Moves -> Nat]]
    /\ told \in [Orders -> [Events -> Nat]]
    /\ task \in [Tasks -> {Resting} \cup Running]
    /\ faults \in Nat
    /\ acts \in Nat

OrderInit ==
    /\ wallet = Opening
    /\ order = [o \in Orders |-> [status |-> "NONE", placed |-> FALSE]]
    /\ moved = [o \in Orders |-> [m \in Moves |-> 0]]
    /\ told = [o \in Orders |-> [e \in Events |-> 0]]
    /\ task = [t \in Tasks |-> Resting]
    /\ faults = 0
    /\ acts = 0

-----------------------------------------------------------------------------
(* Scripts *)

Pay(move, amount) == [do |-> move, amount |-> amount]
Write(status) == [do |-> "write", status |-> status]
Tell(event) == [do |-> "tell", event |-> event]

\* The price of the part that was done, rounded to the smallest unit of money,
\* a half upwards.  Nobody checks what the panel says remains: it may be less
\* than nothing or more than was ordered.
DonePrice(o, remains) ==
    (2 * Price[o] * (Quantity[o] - remains) + Quantity[o]) \div (2 * Quantity[o])

Parts(o, done) ==
    (IF done > 0 THEN <<Pay("charge", done)>> ELSE <<>>)
    \o (IF Price[o] - done > 0 THEN <<Pay("release", Price[o] - done)>> ELSE <<>>)

\* Of a partial order with NaN neither part is greater than 0.
Split(o, remains) ==
    IF remains = NoNumber THEN <<>> ELSE Parts(o, DonePrice(o, remains))

\* settleFunds.
Settlement(o, status, remains) ==
    CASE status = "COMPLETED" -> <<Pay("charge", Price[o])>>
      [] status = "FAILED"    -> <<Pay("release", Price[o])>>
      [] status = "PARTIAL"   -> Split(o, remains)
      [] status = "CANCELLED" -> <<>>

Announcement(status) ==
    CASE status = "COMPLETED" -> <<Tell("completed")>>
      [] status = "FAILED"    -> <<Tell("failed")>>
      [] status = "PARTIAL"   -> <<Tell("partial")>>
      [] status = "CANCELLED" -> <<>>

\* A completed order whose service has a refill period is written once more;
\* an error there is swallowed, one of the emission in front of it is not.
Mark(status, refills) ==
    IF refills /\ status = "COMPLETED"
    THEN <<[do |-> "mark", status |-> "COMPLETED"]>> ELSE <<>>

EndSettledFirst(o, status, remains, refills) ==   \* seeded fault
    <<Write(status)>> \o Settlement(o, status, remains) \o Mark(status, refills)
    \o Announcement(status)

\* What follows a panel's word that o has ended.  The event is emitted in a
\* transaction around the writes of the status, which do not take part in it:
\* it appears when that commits.
End(o, status, remains, refills) ==
    <<Write(status)>> \o Mark(status, refills) \o Announcement(status)
    \o Settlement(o, status, remains)

ForceFailReleasesFirst(o) ==   \* seeded fault
    <<Pay("release", Price[o]), Write("FAILED"), Tell("failed")>>

ForceFail(o) ==
    <<Write("FAILED"), Tell("failed"), Pay("release", Price[o])>>

ReleaseAndFail(o) == <<Pay("release", Price[o]), Write("FAILED")>>

\* settleFinances of the administrator's forced status.
ForcedSettlement(o, status) ==
    CASE status \in {"COMPLETED", "PARTIAL"} -> <<Pay("charge", Price[o])>>
      [] status \in {"FAILED", "CANCELLED"}  -> <<Pay("release", Price[o])>>
      [] status = "REFUNDED" -> <<Pay("release", Price[o]), Pay("refund", Price[o])>>
      [] OTHER -> <<>>

-----------------------------------------------------------------------------
(* Tasks begin with a read of the order.                                   *)

Fresh(kind, o, script) ==
    [kind |-> kind, order |-> o, script |-> script, at |-> "next", seen |-> Unread]

Begin(t, kind, o, script) ==
    /\ task[t] = Resting
    /\ task' = [task EXCEPT ![t] = Fresh(kind, o, script)]

Rest(t) == task' = [task EXCEPT ![t] = Resting]

Read(t, o, script) ==
    /\ Begin(t, "plain", o, script)
    /\ UNCHANGED <<wallet, order, moved, told, faults, acts>>

SetStatus(o, status, placed) ==
    order' = [order EXCEPT ![o] = [status |-> status, placed |-> placed]]

CreateOrderUnheld(t, o) ==   \* seeded fault
    /\ order[o].status = "NONE"
    /\ o \notin Prepaid \cup Refills
    /\ SetStatus(o, "PENDING", FALSE)
    /\ Begin(t, "create", o, <<[do |-> "walk"]>>)
    /\ UNCHANGED <<wallet, moved, told, faults, acts>>

CreateOrder(t, o) ==
    /\ order[o].status = "NONE"
    /\ o \notin Prepaid \cup Refills
    /\ SetStatus(o, "PENDING", FALSE)
    /\ Begin(t, "create", o, <<Pay("hold", Price[o]), [do |-> "walk"]>>)
    /\ UNCHANGED <<wallet, moved, told, faults, acts>>

\* GuestOrders has brought o to a panel.
GuestOrderPlaced(o) ==
    /\ order[o].status = "NONE"
    /\ o \in Prepaid
    /\ SetStatus(o, "PROCESSING", TRUE)
    /\ UNCHANGED <<wallet, moved, told, task, faults, acts>>

\* One panel is asked.  If that throws the order stays PENDING.
RefillOrder(t, o) ==
    /\ order[o].status = "NONE"
    /\ o \in Refills
    /\ \E p \in Orders : order[p].status = "COMPLETED"
    /\ SetStatus(o, "PENDING", FALSE)
    /\ Begin(t, "plain", o, <<[do |-> "place"]>>)
    /\ UNCHANGED <<wallet, moved, told, faults, acts>>

CancelOrderAlways(t, o) ==   \* seeded fault
    /\ order[o].status # "NONE"
    /\ Read(t, o, <<Pay("release", Price[o]), Write("CANCELLED"), Tell("cancelled")>>)

CancelOrder(t, o) ==
    /\ order[o].status \in {"PENDING", "PROCESSING"}
    /\ Read(t, o, <<Pay("release", Price[o]), Write("CANCELLED"), Tell("cancelled")>>)

\* The poller asks the panel.  An answer that it is still at work changes
\* nothing and is no step, and neither is one that the row does not take.
PollOrder(t, o) ==
    /\ order[o].status = "PROCESSING"
    /\ order[o].placed
    /\ \E status \in Ended, remains \in Remains, refills \in BOOLEAN :
          Read(t, o, End(o, status, remains, refills))

\* The timeout worker asks the panel, once more, about an order that has not
\* changed for long ...
CheckTimedOutOrder(t, o) ==
    /\ order[o].status = "PROCESSING"
    /\ order[o].placed
    /\ \E status \in Ended, remains \in Remains :
          Begin(t, "check", o, End(o, status, remains, FALSE))
    /\ UNCHANGED <<wallet, order, moved, told, faults, acts>>

\* ... and fails it if there is nobody to ask, no answer, no end or an answer
\* that the row does not take.
ForceFailOrder(t, o) ==
    /\ order[o].status = "PROCESSING"
    /\ Read(t, o, ForceFail(o))

AdminRead(t, o, script) ==
    /\ o \in AdminOrders
    /\ acts < MaxActs
    /\ acts' = acts + 1
    /\ Begin(t, "plain", o, script)
    /\ UNCHANGED <<wallet, order, moved, told, faults>>

AdminForceStatus(t, o) ==
    /\ order[o].status # "NONE"
    /\ \E status \in Statuses \ {"NONE", order[o].status} :
          AdminRead(t, o, (IF order[o].status = "PROCESSING"
                           THEN ForcedSettlement(o, status) ELSE <<>>)
                          \o <<Write(status)>>)

AdminRefundOrder(t, o) ==
    /\ order[o].status \notin {"NONE", "REFUNDED"}
    /\ AdminRead(t, o, (IF order[o].status = "PROCESSING"
                        THEN <<Pay("release", Price[o])>> ELSE <<>>)
                       \o <<Pay("refund", Price[o]), Write("REFUNDED")>>)

-----------------------------------------------------------------------------
(* ... and go on statement by statement.                                   *)

Facing(t, doing) ==
    /\ task[t] # Resting
    /\ task[t].script # <<>>
    /\ Head(task[t].script).do \in doing

Go(t, kind, script) ==
    task' = [task EXCEPT ![t] =
                IF script = <<>> THEN Resting
                                 ELSE Fresh(kind, task[t].order, script)]

Done(t) == Go(t, task[t].kind, Tail(task[t].script))

\* The catch blocks.
Throw(t) ==
    LET o == task[t].order
    IN  \/ (task[t].kind = "cleanup" \/ Head(task[t].script).do = "mark") /\ Done(t)
        \/ task[t].kind = "create" /\ Go(t, "cleanup", ReleaseAndFail(o))
        \/ task[t].kind = "check" /\ Go(t, "plain", ForceFail(o))
        \/ task[t].kind = "plain" /\ Rest(t)

Permits(w, s) ==
    CASE s.do = "hold" -> CanHold(w, s.amount)
      [] s.do \in {"release", "charge"} -> CanSettle(w, s.amount)
      [] s.do = "refund" -> TRUE

After(w, s) ==
    CASE s.do = "hold"    -> Held(w, s.amount)
      [] s.do = "release" -> Released(w, s.amount)
      [] s.do = "charge"  -> Charged(w, s.amount)
      [] s.do = "refund"  -> Credited(w, s.amount)

PayReadUnchecked(t) ==   \* seeded fault
    /\ Facing(t, Moves)
    /\ task[t].at = "next"
    /\ task' = [task EXCEPT ![t] = [kind |-> task[t].kind, order |-> task[t].order,
                                    script |-> task[t].script, at |-> "commit",
                                    seen |-> wallet]]
    /\ UNCHANGED <<wallet, order, moved, told, faults, acts>>

PayRead(t) ==
    /\ Facing(t, Moves)
    /\ task[t].at = "next"
    /\ Permits(wallet, Head(task[t].script))
    /\ task' = [task EXCEPT ![t] = [kind |-> task[t].kind, order |-> task[t].order,
                                    script |-> task[t].script, at |-> "commit",
                                    seen |-> wallet]]
    /\ UNCHANGED <<wallet, order, moved, told, faults, acts>>

PayRefused(t) ==
    /\ Facing(t, Moves)
    /\ task[t].at = "next"
    /\ ~Permits(wallet, Head(task[t].script))
    /\ Throw(t)
    /\ UNCHANGED <<wallet, order, moved, told, faults, acts>>

PayCommit(t) ==
    LET o == task[t].order
        s == Head(task[t].script)
    IN  /\ Facing(t, Moves)
        /\ task[t].at = "commit"
        /\ wallet' = After(task[t].seen, s)
        /\ moved' = [moved EXCEPT ![o] =
                        [m \in Moves |-> IF m = s.do THEN moved[o][m] + s.amount
                                                     ELSE moved[o][m]]]
        /\ Done(t)
        /\ UNCHANGED <<order, told, faults, acts>>

WalkSucceeds(t) ==
    /\ Facing(t, {"walk"})
    /\ Go(t, task[t].kind, <<[do |-> "place"], Tell("created")>>)
    /\ UNCHANGED <<wallet, order, moved, told, faults, acts>>

\* No panel took it: the event, then the throw, whether or not the event was
\* emitted.
WalkExhausted(t) ==
    /\ Facing(t, {"walk"})
    /\ Go(t, "cleanup", <<Tell("exhausted")>> \o ReleaseAndFail(task[t].order))
    /\ UNCHANGED <<wallet, order, moved, told, faults, acts>>

\* The panel that was asked for a refill says no, or is not there any more.
RefillRefused(t) ==
    /\ Facing(t, {"place"})
    /\ task[t].kind = "plain"
    /\ Throw(t)
    /\ UNCHANGED <<wallet, order, moved, told, faults, acts>>

NotePlace(t) ==
    /\ Facing(t, {"place"})
    /\ SetStatus(task[t].order, "PROCESSING", TRUE)
    /\ Done(t)
    /\ UNCHANGED <<wallet, moved, told, faults, acts>>

WriteStatus(t) ==
    LET o == task[t].order
    IN  /\ Facing(t, {"write", "mark"})
        /\ SetStatus(o, Head(task[t].script).status, order[o].placed)
        /\ Done(t)
        /\ UNCHANGED <<wallet, moved, told, faults, acts>>

TellEvent(t) ==
    LET o == task[t].order
        s == Head(task[t].script)
    IN  /\ Facing(t, {"tell"})
        /\ told' = [told EXCEPT ![o] =
                       [e \in Events |-> IF e = s.event THEN told[o][e] + 1
                                                        ELSE told[o][e]]]
        /\ Done(t)
        /\ UNCHANGED <<wallet, order, moved, faults, acts>>

Fault ==
    /\ faults < MaxFaults
    /\ faults' = faults + 1

StatementFails(t) ==
    /\ task[t] # Resting
    /\ task[t].script # <<>>
    /\ Fault
    /\ Throw(t)
    /\ UNCHANGED <<wallet, order, moved, told, acts>>

Die(t) ==
    /\ task[t] # Resting
    /\ Fault
    /\ Rest(t)
    /\ UNCHANGED <<wallet, order, moved, told, acts>>

-----------------------------------------------------------------------------
Arrive(t, o) ==
    \/ CreateOrder(t, o)
    \/ RefillOrder(t, o)
    \/ CancelOrder(t, o)
    \/ PollOrder(t, o)
    \/ CheckTimedOutOrder(t, o)
    \/ ForceFailOrder(t, o)
    \/ AdminForceStatus(t, o)
    \/ AdminRefundOrder(t, o)

Advance(t) ==
    \/ PayRead(t)
    \/ PayRefused(t)
    \/ PayCommit(t)
    \/ WalkSucceeds(t)
    \/ WalkExhausted(t)
    \/ RefillRefused(t)
    \/ NotePlace(t)
    \/ WriteStatus(t)
    \/ TellEvent(t)

OrderNext ==
    \/ \E o \in Orders : GuestOrderPlaced(o)
    \/ \E t \in Tasks, o \in Orders : Arrive(t, o)
    \/ \E t \in Tasks : Advance(t) \/ StatementFails(t) \/ Die(t)

OrderSpec == OrderInit /\ [][OrderNext]_vars

(* Fairness: the event loop runs a started task on, and the timeout worker *)
(* comes round to every order that stays PROCESSING.                       *)
FairOrderSpec ==
    /\ OrderSpec
    /\ \A t \in Tasks : WF_vars(Advance(t))
    /\ \A o \in Orders :
          SF_vars(\E t \in Tasks : CheckTimedOutOrder(t, o) \/ ForceFailOrder(t, o))
=============================================================================
