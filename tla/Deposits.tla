------------------------------ MODULE Deposits ------------------------------
(***************************************************************************)
(* Deposits and the wallets they credit (modules/billing deposit           *)
(* lifecycle, its Stripe and Cryptomus webhooks, the expiry worker, and    *)
(* modules/admin/admin-deposits.service.ts), on top of Wallet: the money   *)
(* requests of orders go on while deposits are settled.                    *)
(*                                                                         *)
(* A deposit is settled by a task: a webhook handler, an iteration of the  *)
(* expiry worker or an administrator's request.  The lifecycle service     *)
(* reads and writes inside one transaction at READ COMMITTED and takes no  *)
(* lock, so each of its reads is a step and its writes are one more, at    *)
(* the commit.  The administrator's confirmation has no transaction: every *)
(* one of its statements is a step that stays when the next one fails.     *)
(* (If the wallet upsert of confirmDepositTransaction does lock the row,   *)
(* the behaviours are among those of this module.)                         *)
(***************************************************************************)
EXTENDS Wallet

CONSTANTS
    DepositIds,
    Owner,         \* whose deposit it is
    Value,         \* how much it credits
    Tasks,         \* tasks that may run at the same time
    AdminSettles,  \* deposits that administrators settle by hand, too
    MaxAborts      \* bound: tasks that die or whose statement fails

ASSUME DepositsAssumption ==
    /\ DepositIds \subseteq Refs
    /\ DepositIds \cap (OrderRefs \cup {AdminRef, OpeningRef}) = {}
    /\ Owner \in [DepositIds -> Users]
    /\ Value \in [DepositIds -> Nat]
    /\ AdminSettles \subseteq DepositIds
    /\ MaxAborts \in Nat

VARIABLES
    deposit,    \* deposit[d]: its status, "NONE" before checkout
    session,    \* deposits whose checkout page reached the customer
    provider,   \* what became of the payment at the provider
    due,        \* deposits past their expiresAt
    event,      \* event[d]: outbox rows emitted, by type
    task,       \* task[t]: what t is in the middle of
    aborts

depositVars == <<deposit, session, provider, due, event, task, aborts>>
vars == <<walletVars, depositVars>>

Resting == [kind |-> "none"]

Running ==
    [kind : {"confirm", "fail", "adminConfirm", "adminExpire"},
     deposit : DepositIds,
     at : {"wallet", "write", "ledger", "status"},   \* its next statement
     seen : WalletRow]                               \* the row it has read

Statuses == {"NONE", "PENDING", "CONFIRMED", "FAILED", "EXPIRED"}

DepositTypeOK ==
    /\ WalletTypeOK
    /\ deposit \in [DepositIds -> Statuses]
    /\ session \subseteq DepositIds
    /\ provider \in [DepositIds -> {"open", "paid", "failed"}]
    /\ due \subseteq DepositIds
    /\ event \in [DepositIds -> [confirmed : Nat, failed : Nat]]
    /\ task \in [Tasks -> {Resting} \cup Running]
    /\ aborts \in Nat

DepositInit ==
    /\ WalletInit
    /\ deposit = [d \in DepositIds |-> "NONE"]
    /\ session = {}
    /\ provider = [d \in DepositIds |-> "open"]
    /\ due = {}
    /\ event = [d \in DepositIds |-> [confirmed |-> 0, failed |-> 0]]
    /\ task = [t \in Tasks |-> Resting]
    /\ aborts = 0

-----------------------------------------------------------------------------
(* Checkout.  The deposit row is written before the provider is asked for  *)
(* a page; if that call or the update after it fails, the row stays        *)
(* PENDING without a session and the customer has nothing to pay.          *)

PrepareDepositCheckout(d) ==
    /\ deposit[d] = "NONE"
    /\ deposit' = [deposit EXCEPT ![d] = "PENDING"]
    /\ UNCHANGED <<walletVars, session, provider, due, event, task, aborts>>

AttachSession(d) ==
    /\ deposit[d] # "NONE"
    /\ d \notin session
    /\ session' = session \cup {d}
    /\ UNCHANGED <<walletVars, deposit, provider, due, event, task, aborts>>

(* The provider and the clock.  A payment may arrive after the deposit has *)
(* expired here.                                                           *)

ProviderDecides(d, outcome) ==
    /\ d \in session
    /\ provider[d] = "open"
    /\ provider' = [provider EXCEPT ![d] = outcome]
    /\ UNCHANGED <<walletVars, deposit, session, due, event, task, aborts>>

BecomesDue(d) ==
    /\ deposit[d] # "NONE"
    /\ d \notin due
    /\ due' = due \cup {d}
    /\ UNCHANGED <<walletVars, deposit, session, provider, event, task, aborts>>

-----------------------------------------------------------------------------
(* Tasks *)

Unread == [balance |-> 0, hold |-> 0]   \* before the wallet has been read

StartInAnyStatus(t, kind, d, at) ==   \* seeded fault
    /\ deposit[d] # "NONE"
    /\ task[t] = Resting
    /\ task' = [task EXCEPT ![t] =
                   [kind |-> kind, deposit |-> d, at |-> at, seen |-> Unread]]
    /\ UNCHANGED <<walletVars, deposit, session, provider, due, event, aborts>>

Start(t, kind, d, at) ==
    /\ deposit[d] = "PENDING"
    /\ task[t] = Resting
    /\ task' = [task EXCEPT ![t] =
                   [kind |-> kind, deposit |-> d, at |-> at, seen |-> Unread]]
    /\ UNCHANGED <<walletVars, deposit, session, provider, due, event, aborts>>

\* What a webhook may say of d.  (Stripe's says only that d was paid.)
SaysPaid(d)   == provider[d] = "paid"
SaysFailed(d) == provider[d] = "failed"

ConfirmBeginUnpaid(t, d) ==   \* seeded fault
    Start(t, "confirm", d, "wallet")

\* A webhook says the deposit was paid; confirmDepositTransaction reads it
\* in its transaction and goes on only if it is PENDING.  A webhook of any
\* other deposit is answered and changes nothing (this guard, and
\* handleDepositWebhook's replay guard before it), so it is not a step.
ConfirmBegin(t, d) ==
    /\ SaysPaid(d)
    /\ Start(t, "confirm", d, "wallet")

FailBeginEarly(t, d) ==   \* seeded fault
    Start(t, "fail", d, "write")

\* failDepositTransaction: on a webhook of a failed payment, or from the
\* expiry worker for a deposit that is past its time.
FailBegin(t, d) ==
    /\ SaysFailed(d) \/ d \in due
    /\ Start(t, "fail", d, "write")

AdminConfirmBegin(t, d) ==
    /\ d \in AdminSettles
    /\ Start(t, "adminConfirm", d, "wallet")

AdminExpireBegin(t, d) ==
    /\ d \in AdminSettles
    /\ Start(t, "adminExpire", d, "write")

At(t, kind, at) ==
    /\ task[t] # Resting
    /\ task[t].kind = kind
    /\ task[t].at = at

ReadWallet(t) ==
    /\ At(t, "confirm", "wallet") \/ At(t, "adminConfirm", "wallet")
    /\ task' = [task EXCEPT ![t].at = "write",
                            ![t].seen = wallet[Owner[task[t].deposit]]]
    /\ UNCHANGED <<walletVars, deposit, session, provider, due, event, aborts>>

CreditWallet(t) ==
    LET d == task[t].deposit
    IN  wallet' = [wallet EXCEPT ![Owner[d]] = Credited(task[t].seen, Value[d])]

CreditLedger(t) ==
    LET d == task[t].deposit
        seen == task[t].seen
    IN  ledger' = [ledger EXCEPT ![Owner[d]] =
                      Append(@, Entry("DEPOSIT", Value[d], seen,
                                      Credited(seen, Value[d]), d))]

Settle(t, status) ==
    deposit' = [deposit EXCEPT ![task[t].deposit] = status]

\* Outbox rows of deposit.confirmed and deposit.failed.
Emit(d, confirmed, failed) ==
    event' = [event EXCEPT ![d] = [confirmed |-> @.confirmed + confirmed,
                                   failed |-> @.failed + failed]]

Finish(t) == task' = [task EXCEPT ![t] = Resting]

ConfirmCommitUnlogged(t) ==   \* seeded fault
    /\ At(t, "confirm", "write")
    /\ CreditWallet(t)
    /\ Settle(t, "CONFIRMED")
    /\ Emit(task[t].deposit, 1, 0)
    /\ Finish(t)
    /\ UNCHANGED <<ledger, request, session, provider, due, aborts>>

\* The commit of confirmDepositTransaction: wallet, ledger, status and
\* outbox row together.  The status is written whatever it has become.
ConfirmCommit(t) ==
    /\ At(t, "confirm", "write")
    /\ CreditWallet(t)
    /\ CreditLedger(t)
    /\ Settle(t, "CONFIRMED")
    /\ Emit(task[t].deposit, 1, 0)
    /\ Finish(t)
    /\ UNCHANGED <<request, session, provider, due, aborts>>

FailCommit(t) ==
    /\ At(t, "fail", "write")
    /\ Settle(t, "FAILED")
    /\ Emit(task[t].deposit, 0, 1)
    /\ Finish(t)
    /\ UNCHANGED <<walletVars, session, provider, due, aborts>>

\* The administrator's confirmation, statement by statement.
AdminWriteWallet(t) ==
    /\ At(t, "adminConfirm", "write")
    /\ CreditWallet(t)
    /\ task' = [task EXCEPT ![t].at = "ledger"]
    /\ UNCHANGED <<ledger, request, deposit, session, provider, due, event, aborts>>

AdminWriteLedger(t) ==
    /\ At(t, "adminConfirm", "ledger")
    /\ CreditLedger(t)
    /\ task' = [task EXCEPT ![t].at = "status"]
    /\ UNCHANGED <<wallet, request, deposit, session, provider, due, event, aborts>>

AdminConfirmEnd(t) ==
    /\ At(t, "adminConfirm", "status")
    /\ Settle(t, "CONFIRMED")
    /\ Finish(t)
    /\ UNCHANGED <<walletVars, session, provider, due, event, aborts>>

AdminExpireEndElsewhere(t) ==   \* seeded fault
    /\ At(t, "adminExpire", "write")
    /\ Settle(t, "CANCELLED")
    /\ Finish(t)
    /\ UNCHANGED <<walletVars, session, provider, due, event, aborts>>

AdminExpireEnd(t) ==
    /\ At(t, "adminExpire", "write")
    /\ Settle(t, "EXPIRED")
    /\ Finish(t)
    /\ UNCHANGED <<walletVars, session, provider, due, event, aborts>>

\* The process dies or a statement fails.  What was committed stays.
Abort(t) ==
    /\ task[t] # Resting
    /\ aborts < MaxAborts
    /\ aborts' = aborts + 1
    /\ Finish(t)
    /\ UNCHANGED <<walletVars, deposit, session, provider, due, event>>

-----------------------------------------------------------------------------
Outside(d) ==
    \/ PrepareDepositCheckout(d)
    \/ AttachSession(d)
    \/ \E outcome \in {"paid", "failed"} : ProviderDecides(d, outcome)
    \/ BecomesDue(d)

Arrive(t, d) ==
    \/ ConfirmBegin(t, d)
    \/ FailBegin(t, d)
    \/ AdminConfirmBegin(t, d)
    \/ AdminExpireBegin(t, d)

Advance(t) ==
    \/ ReadWallet(t)
    \/ ConfirmCommit(t)
    \/ FailCommit(t)
    \/ AdminWriteWallet(t)
    \/ AdminWriteLedger(t)
    \/ AdminConfirmEnd(t)
    \/ AdminExpireEnd(t)

DepositNext ==
    \/ \E d \in DepositIds : Outside(d)
    \/ \E t \in Tasks, d \in DepositIds : Arrive(t, d)
    \/ \E t \in Tasks : Advance(t) \/ Abort(t)
    \/ WalletNext /\ UNCHANGED depositVars

DepositSpec == DepositInit /\ [][DepositNext]_vars

(* Fairness: a started task goes on (the event loop runs it), and the      *)
(* provider repeats a webhook until it gets an answer, which it gets only  *)
(* once the deposit is no longer PENDING.                                  *)
FairDepositSpec ==
    /\ DepositSpec
    /\ \A t \in Tasks : WF_vars(Advance(t))
    /\ \A d \in DepositIds : SF_vars(\E t \in Tasks : ConfirmBegin(t, d))
=============================================================================
