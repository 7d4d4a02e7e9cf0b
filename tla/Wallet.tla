------------------------------- MODULE Wallet -------------------------------
(***************************************************************************)
(* The wallet and its ledger under concurrent requests                     *)
(* (modules/billing/billing-internal.service.ts).                          *)
(*                                                                         *)
(* Each of the five operations opens a transaction but reads the wallet    *)
(* through the pool, outside it, and writes the row back as absolute       *)
(* numbers.  So one request is two steps: it reads the committed row and   *)
(* decides, and later commits a row and a ledger entry computed from what  *)
(* it read.  Requests of other API handlers and workers may commit between *)
(* the two.  Both writes of the second step are in one transaction and     *)
(* nothing is read between them, so they take effect together or, if the   *)
(* process dies or the database refuses, not at all.                       *)
(***************************************************************************)
EXTENDS WalletOps, Sequences

CONSTANTS
    Users,
    Requests,      \* requests that may be in flight at the same time
    Amounts,       \* amounts of hold, release, charge and refund
    Adjustments,   \* signed amounts an administrator may adjust by
    OrderRefs,     \* the orders requests refer to
    AdminRef,      \* the reference of an administrator's adjustment
    Opening,       \* each user's balance at the start, deposited earlier
    OpeningRef,    \* the deposit it came from
    MaxEntries     \* bound: ledger rows per user

ASSUME WalletAssumption ==
    /\ Amounts \subseteq Nat
    /\ Adjustments \subseteq Int
    /\ OrderRefs \subseteq Refs
    /\ AdminRef \in Refs
    /\ OpeningRef \in Refs
    /\ Opening \in [Users -> Nat]
    /\ MaxEntries \in Nat

VARIABLES
    wallet,    \* wallet[u]: the committed wallet row of user u
    ledger,    \* ledger[u]: the committed ledger rows of u, oldest first
    request    \* request[r]: the operation request r is in the middle of

walletVars == <<wallet, ledger, request>>

Ops == {"hold", "release", "charge", "refund", "adjust"}

Idle == [op |-> "idle"]

\* An operation between its read and its commit; seen is the row it read.
InFlight == [op : Ops, user : Users, amount : Int, ref : Refs,
             seen : WalletRow]

WalletTypeOK ==
    /\ wallet \in [Users -> WalletRow]
    /\ ledger \in [Users -> Seq(LedgerRow)]
    /\ request \in [Requests -> {Idle} \cup InFlight]

WalletInit ==
    /\ wallet = [u \in Users |-> [balance |-> Opening[u], hold |-> 0]]
    /\ ledger = [u \in Users |->
                    <<[type |-> "DEPOSIT", amount |-> Opening[u], before |-> 0,
                       after |-> Opening[u], ref |-> OpeningRef]>>]
    /\ request = [r \in Requests |-> Idle]

-----------------------------------------------------------------------------
(* The read: getOrCreateWallet and the check that may throw.  A request    *)
(* whose check fails ends without a trace, so only the others are steps.   *)

Read(r, op, u, a, ref) ==
    /\ request[r] = Idle
    /\ Len(ledger[u]) < MaxEntries
    /\ request' = [request EXCEPT ![r] =
                      [op |-> op, user |-> u, amount |-> a, ref |-> ref,
                       seen |-> wallet[u]]]
    /\ UNCHANGED <<wallet, ledger>>

BeginChargeUnchecked(r, u, a, ref) ==   \* seeded fault
    Read(r, "charge", u, a, ref)

BeginHold(r, u, a, ref)    == CanHold(wallet[u], a) /\ Read(r, "hold", u, a, ref)
BeginRelease(r, u, a, ref) == CanSettle(wallet[u], a) /\ Read(r, "release", u, a, ref)
BeginCharge(r, u, a, ref)  == CanSettle(wallet[u], a) /\ Read(r, "charge", u, a, ref)
BeginRefund(r, u, a, ref)  == Read(r, "refund", u, a, ref)
BeginAdjust(r, u, a)       == CanAdjust(wallet[u], a) /\ Read(r, "adjust", u, a, AdminRef)

(* The commit: the row computed from what was read, and its ledger entry.  *)

Write(r, type, amount, after) ==
    LET q == request[r]
    IN  /\ wallet' = [wallet EXCEPT ![q.user] = after]
        /\ ledger' = [ledger EXCEPT ![q.user] =
                         Append(@, Entry(type, amount, q.seen, after, q.ref))]
        /\ request' = [request EXCEPT ![r] = Idle]

HoldFunds(r) ==
    /\ request[r].op = "hold"
    /\ Write(r, "HOLD", request[r].amount,
             Held(request[r].seen, request[r].amount))

ReleaseFunds(r) ==
    /\ request[r].op = "release"
    /\ Write(r, "RELEASE", request[r].amount,
             Released(request[r].seen, request[r].amount))

ChargeFunds(r) ==
    /\ request[r].op = "charge"
    /\ Write(r, "WITHDRAW", request[r].amount,
             Charged(request[r].seen, request[r].amount))

RefundFunds(r) ==
    /\ request[r].op = "refund"
    /\ Write(r, "REFUND", request[r].amount,
             Credited(request[r].seen, request[r].amount))

\* The row carries the size of the adjustment, without its sign.
AdjustBalance(r) ==
    /\ request[r].op = "adjust"
    /\ Write(r, "ADMIN_ADJUSTMENT", Abs(request[r].amount),
             Credited(request[r].seen, request[r].amount))

\* The process dies or the database refuses: the transaction rolls back.
Rollback(r) ==
    /\ request[r] # Idle
    /\ request' = [request EXCEPT ![r] = Idle]
    /\ UNCHANGED <<wallet, ledger>>

Commit(r) ==
    \/ HoldFunds(r)
    \/ ReleaseFunds(r)
    \/ ChargeFunds(r)
    \/ RefundFunds(r)
    \/ AdjustBalance(r)

Begin(r) ==
    \E u \in Users :
        \/ \E a \in Amounts, ref \in OrderRefs :
              \/ BeginHold(r, u, a, ref)
              \/ BeginRelease(r, u, a, ref)
              \/ BeginCharge(r, u, a, ref)
              \/ BeginRefund(r, u, a, ref)
        \/ \E a \in Adjustments : BeginAdjust(r, u, a)

WalletNext == \E r \in Requests : Begin(r) \/ Commit(r) \/ Rollback(r)

WalletSpec == WalletInit /\ [][WalletNext]_walletVars
=============================================================================
