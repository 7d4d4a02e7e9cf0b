# Youboost in TLA+

Youboost sells promotion of YouTube videos. Customers keep money in a wallet
or pay for a cart as guests; an order is handed to one of several external
panels, followed until it ends, and charged or given back. The backend
(`src/src`) is a modular monolith: an HTTP API and a set of background workers
run in each process, several processes share one PostgreSQL database and one
Redis, and the transactions run at PostgreSQL's default READ COMMITTED. Almost
everything that can go wrong between two such processes is a question of what
was read before whose commit, and that is what these modules are about.

All paths below are relative to the repository.

## 1. Inventory

### 1.1 The parts, their state and their operations

| component | state | operations | modelled |
|---|---|---|---|
| wallet and ledger (`modules/billing/billing-internal.service.ts`) | `wallets` (balance, hold), `ledger` rows | hold, release, charge, refund, adjust | `Wallet` |
| deposits (`modules/billing/deposit-lifecycle.service.ts`, the Stripe and Cryptomus services, the expiry worker, `modules/admin/admin-deposits.service.ts`) | `deposits` | prepare, attach session, confirm, fail, expire, confirm and expire by hand | `Deposits` |
| payments of guest carts (`modules/billing/payment.repository.ts`, `payment-completion.router.ts`) | `payments` | create with the orders, attach the session, claim for settlement; routing of a completed session | `GuestOrders` but the routing |
| billing read endpoints | - | lists | no: reads |
| failover walk (`modules/orders/submit-with-failover.ts`) | `provider_order_attempts` | offer an order to the panels of its service in order, record each attempt | `Failover` |
| confirmation of a paid cart (`modules/orders/confirm-order-payment.flow.ts`) | `orders`, `payments` | claim the payment, claim and submit each order, give up | `GuestOrders` |
| guest checkout (`modules/landings`) | `users`, `payments`, `orders` | make an account, write payment and orders, open a session | `GuestOrders` |
| pending-payment expiry worker | `orders` | cancel stale unpaid orders | `GuestOrders` |
| order creation, cancellation, refill, bulk (`orders.service.ts`, `create-order.flow.ts`) | `orders`, wallet | create with a hold, cancel with a release, refill at price 0, create many one by one | `OrderLifecycle` |
| status polling (`status-poll.worker.ts`, `circuit-breaker.ts`) | `orders`, one breaker per provider in memory | ask the panel, write the status, settle the hold, count failures | `OrderLifecycle` but the breaker |
| timeout worker (`order-timeout.worker.ts`, `fund-settlement.ts`) | `orders`, wallet | last status check, force-fail, settle | `OrderLifecycle` |
| drip feed (`drip-feed.worker.ts`) | `orders` (runs counted, paused at) | submit a run, count it, complete | `DripFeed` |
| admin: orders (`admin-orders.service.ts`) | `orders`, wallet | force a status, refund, pause and resume a drip feed | `OrderLifecycle`, `DripFeed` |
| outbox (`shared/outbox`) | `outbox_events` | emit in a transaction, claim a batch, dispatch, retry, give up | `Outbox` |
| outbox handlers (`composition/outbox-handlers.ts`) | of coupons, referrals, notifications, webhooks | one effect per event | `Effects`, `Dispatch` |
| queue (`shared/queue/queue.ts`) | BullMQ, Redis | named workers, attempts, repeated jobs | jobs in `Dispatch`; ticks with their workers |
| notifications, customer webhooks | `notifications`; jobs; `webhooks` | look up, enqueue, deliver, retry | `Dispatch` but registration |
| coupons | `coupons` (used count, active) | validate, apply, deactivate | `Effects` |
| referrals | `referral_bonuses`, wallet | apply; credit the pending bonus (has no caller) | `Effects`: apply |
| auth | `users`, `refresh_tokens`, blacklist in Redis, e-mail tokens | make an account, log in, refresh, log out, reset | only the account of a guest, in `GuestOrders` |
| API keys, providers, pages of landings, catalog, support, tracking, analytics | their own rows | create, read, update, delete | no: no step depends on another's |
| admin: users, services, dashboard, billing, outbox view | - | reads; single updates; the adjustment of a balance is `Wallet`'s | no |
| composition, configuration, HTTP, OpenAPI | - | wiring | no |
| frontend (`frontend/`) | in the browser | a client of the API | no |

The directory `services/` holds the READMEs of an earlier split into
micro-services; the code it describes now lives in `src/src/modules`.

### 1.2 How they interact

- Calls: orders hold, release and charge through billing; the admin module
  calls orders and billing; the payment router hands a completed Stripe or
  Cryptomus session to deposits or to the confirmation flow.
- Shared rows: `wallets` is written by orders, deposits, referrals and
  administrators; `orders` by the API, four workers, webhooks and
  administrators. Almost every write of a status is by id and unconditional.
  The exceptions are two guarded updates, `claimPaymentForSettlement` and
  `claimOrderForSubmission`, and the outbox's `FOR UPDATE SKIP LOCKED`.
- Events: a business transaction leaves rows in `outbox_events`; a worker in
  each process hands them to the subscribed handlers, at least once.
- Outside: panels and payment providers, which may answer late, twice or not
  at all.

### 1.3 What is hard

Reads through the pool inside a transaction (they see neither its writes nor a
lock), absolute writes computed from an earlier read, statements that are
inside a `$transaction` callback but go through the pool and so commit on their
own, webhooks that are repeated or run twice at once, workers of several
processes on the same rows, a process that dies between two awaits, leases that
run out on a worker that is still busy. `PROJECT.json` lists each such place
under `hazards`, with its line and the properties aimed at it.

### 1.4 What makes each component correct

| component | it is correct when |
|---|---|
| wallet | no more is held than is there; the ledger explains the balance; operations behave as if one came after the other |
| deposits | what is credited was paid, once; what is confirmed was credited; a settled deposit stays as it is; a paid one is credited in the end |
| guest carts | nothing happens before payment; no order is at two panels, or twice at one; every announced outcome is true; a paid order moves on |
| orders with a hold | each hold is settled once, with the whole price; a terminal order holds nothing; a terminal status stays |
| outbox | a row has one holder; it is dispatched after all handlers, given up after the last attempt, and decided in the end |
| drip feed | a run is counted if and only if a panel took it; no more runs than were bought but for overlaps and failures; all of them go out; a paused order is left alone |
| coupons, referrals | no use is lost; repeats are counted only for failures, although handlers should be idempotent; the limit holds against what was counted |
| dispatchers | the row of a mail says what became of it; what reaches nobody has a reason; every job ends |
| auth | a refresh token is exchanged once (not modelled) |

## 2. The modules

| module | models | depends on |
|---|---|---|
| `WalletOps` | the arithmetic of a wallet row and the ledger entry of an operation | |
| `Wallet` | requests that read a row and later commit one | `WalletOps` |
| `AtomicWallet` | what billing promises: one indivisible step per operation | `WalletOps` |
| `Deposits` | deposits and the tasks that settle them, on a wallet that order requests use meanwhile | `Wallet` |
| `Failover` | the walk over the panels, one await at a time | |
| `GuestOrders` | checkout, payment, orders, webhook deliveries, expiry worker | `Failover` |
| `OrderLifecycle` | orders with a hold and refills: creation, cancellation, poller, timeout worker, administrators | `WalletOps` |
| `DripFeed` | ticks that give orders their runs, pause and resume, beside all of `OrderLifecycle` | `OrderLifecycle` |
| `Outbox` | rows, workers, batches, leases, retries | |
| `Delivery` | what the outbox promises: at-least-once delivery in handler order | |
| `Effects` | coupons and referrals: what handlers of the outbox count | `Outbox` |
| `Dispatch` | the jobs that send mails and customer webhooks for an event | |
| `*Props` | the properties | the component |
| `MC*` | values for TLC | `*Props` |
| `BillingProofs`, `GuestProofs`, `OrderProofs`, `OutboxProofs`, `EffectsProofs`, `DripProofs`, `DispatchProofs` | theorems; those of `Wallet` and `Deposits` are in `BillingProofs` | `*Props`, `TLAPS` |
| `SumProofs` | sums over finite sets, which `OrderProofs` and `EffectsProofs` rest on | `Functions`, `TLAPS` |

Two modules state what a component promises and are implemented by the
detailed one under a refinement mapping: `Atomic == INSTANCE AtomicWallet WITH`
in `WalletProps` maps a request between its read and its commit to nothing yet
done, and `Promise == INSTANCE Delivery WITH` in `OutboxProps` forgets batches,
leases and backoffs and keeps how often each handler has finished and what was
decided. `Effects` and `DripFeed` extend the component they rest on: their
steps are its steps with more state, or leave it alone.

### Wallet

`wallet[u]` is the committed row, `ledger[u]` the committed entries in commit
order, `request[r]` an operation between its read and its commit. All five
operations of `billing-internal.service.ts` open a `$transaction` and read
through `walletRepo.getOrCreateWallet`, which does not take the transaction:
`Begin*` is that read with the check that may throw, `HoldFunds`,
`ReleaseFunds`, `ChargeFunds`, `RefundFunds`, `AdjustBalance` are the commit of
the two writes, `Rollback` the transaction that fails. Nothing is read between
the two writes, so they are one step. A request whose check fails leaves no
trace and is no step. The code also runs its reads through an upsert; if that
does lock, the behaviours are among those of the model.

Money is an integer count of the smallest unit. The code adds
JavaScript numbers and the columns are `Decimal(15,2)`: drift of sums of cents
is not modelled. `AdminRef` stands for the missing reference of an adjustment.

### Deposits

`deposit[d]` is the row's status, `provider[d]` what became of the payment
outside, `session` the deposits whose page reached the customer, `due` those
past `expiresAt`, `event[d]` its outbox rows, `task[t]` what a webhook handler,
an iteration of the expiry worker or an administrator's request is in the
middle of. `ConfirmBegin`/`ReadWallet`/`ConfirmCommit` are
`confirmDepositTransaction`: its two reads, unlocked, and its writes with the
emission at the commit. `FailBegin`/`FailCommit` are `failDepositTransaction`,
called by a webhook and by the worker. `AdminConfirmBegin` to `AdminConfirmEnd`
are the administrator's confirmation, which has no transaction: each statement
is a step that stays when the next one fails. `Abort` is a task that dies or
throws at any of these points. A webhook for a deposit that is not PENDING
changes nothing and is no step.

### Failover and GuestOrders

`placed[o][p]` counts how often panel p has accepted o (it belongs to the
panels, the program cannot see it), `attempt[o]` is the recorded rows, `walk[t]`
how far the walk of delivery t is. `RecordSuccessFails` is the insert that sits
in the same `try` as the call. Three kinds of faults are counted apart:
`answer` (a panel accepted, the call fails), `record` (that insert fails),
`crash` (the process dies or another statement throws).

`checkout` is how far `executeGuestCartCheckout` is: the account with its mail
(one transaction), the payment with its orders (one transaction), the session
at the provider, its id in the payment row, the event. `CheckoutThrows` is any
of these that throws, and a provider that opens no session is no fault. What is
written stays, so a broken checkout leaves orders nobody can pay for. The guest
is sent to the provider by the answer, so `CustomerPays` needs a checkout that
came to its end. Carts that are refused before the first write are no step.

`delivery[t]` is a delivery of the provider's webhook: `Load` reads payment and
orders, `ClaimPayment` and `ClaimOrder` are the two guarded updates,
`EmitConfirmed`, `WriteProcessing`, `WriteFailed` and `EmitOutcome` the writes
that follow. `updateOrderStatus` goes through the pool although it is called
inside the transaction that emits, so the status and the event are two steps.
`sweep` is the expiry worker: `SweepRead` reads the stale unpaid orders,
`SweepCancel` writes CANCELLED by id, `SweepEmit` emits. The orders of a cart
are created in one transaction and expire together (`stale`). `Load` reads the
payment and its orders in one step; the status it reads only decides whether
the claim is tried, and the claim is guarded by the database. `Route` is the
active mappings a walk reads when it starts.

### OrderLifecycle

`wallet` is the one row of a customer, with its pool of held money; `order[o]`
is the row's status and whether it has an external id (`placed`); `moved[o]`
what the ledger rows that refer to o amount to, by operation; `told[o]` its
outbox rows. `Opening` may hold money for orders that are not in the instance.

Every handler reads an order, decides, and then runs statements that commit one
by one. `task[t].script` is what is left of them, in the order of the code:

| handler | script |
|---|---|
| `executeCreateOrder` | hold, walk, write PROCESSING with the external id, emit |
| its catch block | release, write FAILED; errors are swallowed |
| `cancelOrder` | release, write CANCELLED, emit |
| `pollSingleOrder` | write, mark as refillable, emit, settle |
| `attemptFinalStatusCheck` | the same without the mark; a throw anywhere leads to `forceFailOrder` |
| `forceFailOrder` | write FAILED, emit, release |
| `forceOrderStatus`, `refundOrder` | settle or refund, write |

`Settlement` is `settleFunds`. What it does with a partial order depends on the
remains, which come from the panel unchecked (`smm-api-client.ts:93`) and which
`fund-settlement.ts:33-44` does not clamp either. `Remains` is any set of
integers, with `NoNumber` for the NaN that `Number()` makes of other text.
`DonePrice` is the charge, rounded to the smallest unit of money as the code
rounds it: with a negative `remains` it is above the price and nothing is
released; with more remains than were ordered it is at most 0, so nothing is
charged, and the release is above the price and may take what is held for other
orders; with NaN neither comparison holds and nothing is settled. The column is
an `INTEGER`: if the database or its client refuses an answer, the poll is no
step and the timeout worker force-fails the order (`ForceFailOrder`).
`Least` is the least that a panel says remains, 0 if that is not negative;
`Worth(o)`, the charge at `Least`, is the most a partial order can cost: its
price if no panel says less than nothing. The actions `CreateOrder`
to `AdminRefundOrder` are the reads that put a script in a task, `PayRead` and
`PayCommit` a call of billing (as `Begin*` and the commits of `Wallet`),
`PayRefused` the call that throws, `WalkSucceeds` and `WalkExhausted` the two
outcomes of `Failover`, `NotePlace`, `WriteStatus` and `TellEvent` the other
statements. `RefillOrder` makes an order of price 0 beside a completed
one, with nothing to hold; `RefillRefused` is the walk that fails for it, which
nobody catches. Bulk creation is creation again and again.
`updateOrderStatus` goes through the pool, so a write of the status
stands although the transaction around it does not commit. `Throw` is what each
handler does when a statement throws, `Die` a process that is gone. An order of
a guest's cart appears PROCESSING and without a hold (`Prepaid`).

### Outbox

`due` and `locked` are the comparisons of `available_at` and `locked_until`
with the clock; `todo[w]` and `job[w]` are a worker's batch with the attempts
each row had when it was claimed; `done[e][h]` is how often handler h has
finished with e. `ClaimPendingBatch` is the one statement with
`FOR UPDATE SKIP LOCKED`; `MarkDispatched`, `MarkRetryable` and `MarkFailed` are
the updates by id that end an attempt. `SlowWorkers` says whether a lease may
run out on a worker that still has the row. The length of the backoff is left
out: a row becomes due some time.

### DripFeed

`counted[o]` is `dripFeedRunsCompleted` (the order's creation is its first
run), `sent[o]` what panels took from ticks, which the program cannot see,
`todo[k]` and `run[k]` the batch of a tick and the run it is in the middle of.
Several processes tick, and a job that lost its lock is run again, so ticks
overlap. `FindDue` is the query; which of the orders are past their interval is
left open. `SubmitRun` is the panel that takes a chunk, `CountRun` the update
that adds one and returns the row, `CompleteOrder` the update by id after the
last run. A run that fails (`SubmitFails`, `AnswerLost`, `TickBreaks`) ends the
batch, since the loop's `catch` throws again, and the oldest order comes first:
the orders behind it wait for another tick. Everything that `OrderLifecycle`
does to an order may happen in between.

### Effects

`checked` is the orders that were given a coupon, named by the event they will
cause; `uses[c]` is `usedCount`, `bonuses[e]` the bonus rows made for e.
`ValidateCoupon` looks at the limit when an order is made, `ApplyCoupon` adds
one when its event is handled and looks at neither the limit nor whether the
coupon is active; `ApplyReferral` makes a bonus. Both are the handler of an outbox row
and finish as `Outbox`'s `HandlerDone`, so whatever repeats a handler repeats
them. Each row has one handler that counts; the others that see the same event
are in `Outbox` and `Dispatch`.

### Dispatch

One event. `note[m]` is the status of a mail's row, `job[d]` a job of the queue
with the attempts it has left, `tried[d]` and `took[d]` how often the receiver
was offered it and took it (the latter the program cannot see).
`EnqueueNotificationFails` and `EnqueueWebhookDeliveryFails` are the errors the
handlers swallow; `LookupFails` to `NoteFailedFails` the statements of the
processor that may fail, in the code's `try` and `catch`; `Again` the queue
when a processor has thrown; `Stall` a process that dies with a job: the queue
gives it back once without counting an attempt. Links, texts, signatures and
the time of a webhook's last delivery are left out.

## 3. What is model-checked

Every run is a module and a `.cfg` in this directory, for instance
`tlc -config WalletRacing.cfg MCWallet`. Deadlock is not checked in any of
them: in all of these systems everyone may be at rest, and the bounds stop the
rest.

| run | instance | shows |
|---|---|---|
| `WalletRacing` | 1 user, 2 requests, amounts 1 and 2, up to 4 ledger rows | held money is there (`HoldCovered`), the last entry shows the balance (`LedgerHead`), and every step that is not a commit on a changed row is a step of `AtomicWallet` (`AtomicUnlessStale`) |
| `DepositsSequential` | 2 deposits, 1 task at a time, 1 order request beside it, 2 aborts, fair | a deposit is credited and announced exactly if it is CONFIRMED, once (`CreditedOnceIfConfirmed`); a paid one that is in time is confirmed (`PaidIsCredited`) |
| `DepositsRacing` | 2 deposits, one also settled by hand, 2 tasks, 1 abort | `ConfirmedWasCredited`, `CreditedWasPaid`, `SettledIsFinal` |
| `DepositsDoubleCredit` | 1 deposit, 2 webhooks | violation: both credit it |
| `Guest` | 2 orders with routes of 2 panels and none, 2 deliveries, one fault of each kind, fair | `PlacedOncePerPanel`, `CopiesCostFaults`, `NothingBeforePayment`, `ConfirmedAtMostOnce`, `OutcomeIsTrue`; a paid order leaves PENDING_PAYMENT (`PaidMovesOn`) and, without a crash, is announced (`PaidIsResolved`); an order nobody pays for is cancelled in the end (`NoneWaitsForever`) |
| `OrdersSequential` | 4 orders: of price 2 and 1, a guest's that is also forced or refunded once, and a refill; remains of 0, 1 or 2 for quantities of 2 and 1; 2 units of money, 1 task at a time | the wallet is at all times what the ledger makes it (`PoolIsExplained`); every order is charged, given back and announced as its status says, once, or stays held if what a panel says does not divide its price (`SettledAsItEnded`) |
| `OrdersRacing` | 1 order of price and quantity 2, remains of -1, 1, 3 or NaN, 2 tasks, 4 units of money of which 2 are held for others, 2 faults, fair | `HeldIsThere`, `ChargedWasTold`, `EndedIsFinal`; a placed order ends (`PlacedEnds`) |
| `DripFeed` | 1 order of 3 runs, 2 ticks, 1 other task, 1 fault, fair | `RunsArePaidFor`, `OverrunsBounded`, `CompletedInFull`, `LeftAlone`; all runs go out (`RunsGoOut`) |
| `Effects` | 2 orders with a coupon of one use and 1 referral, 2 workers, batches of 2, 2 attempts, 1 fault, leases outlast their holders | `OneHolder`, `RepeatsArePaidFor`, and the outbox implements `Delivery`, with handlers that count in place; `UsesExplained`, `LimitOnceCounted` |
| `EffectsTwice` | 1 order with a coupon and 1 referral, 1 worker, 2 attempts, 1 fault | violation: an event that is handled again is counted again (`AppliedOnce`) |
| `OutboxSlow` | 1 row with 2 handlers, 2 workers, 3 attempts, 1 fault, leases may run out, fair | outcomes have reasons (`DecidedForAReason`) and every row gets one (`EmittedIsDecided`) |
| `Dispatch` | 1 mail and 2 webhooks, 2 attempts, 2 faults, fair | `MailIsTrue`, `DroppedForAReason`; every job ends (`QueuedIsOver`) |

**Bounds.** Two requests, tasks, deliveries or workers are the least that
race; the races in this code are between one reader and one writer of a row,
and a third party only repeats what a second can do one after the other. One
user is enough for the wallet because no operation touches two rows. Two
deposits show that a task touches only its own, two orders that a walk does.
The first route has a panel to go on to after one that refuses or whose
acceptance is lost, and an end; the second is empty, so that its order fails at
once: the cart has both outcomes. One fault of each kind at any
place, two aborts in a row for a deposit, more attempts than faults for the
outbox. Three runs leave one between the first, which creation makes, and the
last, which completes; two ticks are the least that overlap. A coupon of one
use and two orders pass its limit; two faults kill a job's process twice. The
rows of `Effects` have one handler each: the order of several is checked in
`OutboxSlow`, and the refinement is proved for any number of them. For orders
the sequential run has too little money for all of them, so that holds are
refused, and the racing run has money held for others, so that what a race
takes twice is there to be taken. What panels say remains is, between the two
runs, less than nothing, nothing, a part, all, more than was ordered and no
number. The bounds are named constants: `MaxEntries`,
`MaxAborts`, `MaxFaults`, `MaxActs`.

**Fairness.** `FairDepositSpec`: a started task goes on (weak fairness of
`Advance`: the event loop runs it), and the provider repeats a webhook that was
not answered (strong fairness of `ConfirmBegin`: it can begin only while a task
slot is free, again and again). `FairGuestSpec`: a delivery that can begin or go
on does (the provider redelivers what got no 200, `stripe.routes.ts` and the
event loop), and a begun sweep goes on. No fairness makes the guest pay, a
panel accept or the sweep begin. `FairOrderSpec`: a started task goes on, and
the timeout worker comes round to an order that is PROCESSING again and again
(it runs at a fixed interval and takes the oldest hundred; strong fairness,
since it can begin only while a task slot is free). The poller, panels and
customers may do nothing. `FairOutboxSpec`: each worker ticks every two
seconds and runs its batch on, backoffs and leases come to their end.
Nothing is assumed about which handler succeeds. `FairDripSpec`: a tick comes
every minute and goes on once begun, and every order's interval passes and its
panel takes a run now and then (strong fairness of `FindDue` with the order in
the batch and of `SubmitRun`, since pauses, other batches and refusals disable
them in between); nothing is assumed of the poller, the timeout worker, the
customer and the administrator.
`FairDispatchSpec`: the queue's workers take up what waits, and calls return or
time out. `NoneWaitsForever` names what it needs beyond `FairGuestSpec` itself:
time passes and the expiry worker ticks.

**Seeded faults.** A definition marked `\* seeded fault` stands before the one
it is a wrong version of: a guard dropped, a status elsewhere, a write
forgotten. No behaviour uses it. `PROJECT.json` pairs each property with one of
them: put in the place of the right definition, it breaks the property.

### Where code and comments disagree

1. *fresh fetch inside tx guards against double credit*
   (`deposit-lifecycle.service.ts:76`). The fetch takes no lock and the update
   has no condition: two deliveries at once both credit (`DepositsDoubleCredit`).
   One after the other they do not (`CreditedOnceIfConfirmed`).
2. *Handlers must be idempotent — events can be retried on failure, so every
   side effect must be safe to apply more than once (use the outbox event id as
   idempotency key)* (`shared/outbox/handlers.ts:5-7`). The handlers of coupons
   and referrals ignore the event id: a worker that dies between the handler
   and the mark makes a second use of the coupon or a second bonus of one event
   (`EffectsTwice`). `UsesExplained` says how far that goes: no use is lost, and
   repeats are no more than failed attempts and dead workers.

Met while reading, without a run of their own:

- `docs/user-guide.md:143` says of a partial order *Частично списаны, остаток
  возвращён* (partly charged, the rest given back), and
  `services/order-service/README.md:170` that a proportional amount is charged;
  that holds if the panel's remains divide the price (`SettledAsItEnded`). A
  negative `remains` charges more than the price, more remains than were ordered
  release more than was held, and what billing refuses stays held for ever
  (`ChargedWasTold` has `Worth` for this reason);
- `docs/user-guide.md:255` promises three repeats of a webhook, after 10, 20 and
  40 seconds; a job has three attempts, which are two repeats
  (`webhook-dispatcher.ts:61`; the properties hold for any number of attempts);
- `submit-with-failover.ts:26` says that panels are tried *until one accepts
  it*; if the insert that records a success fails, the next panel gets the order
  too (`CopiesCostFaults` bounds the copies by the faults);
- `create-order.flow.ts:148` says that *the catch below releases the wallet
  hold*; the catch also runs when the hold was refused, and `releaseFunds` asks
  only whether the pool holds as much, so it takes the hold of another order of
  the customer (`HeldIsThere` says that nothing worse happens to the wallet);
- a drip feed that the worker completes is not charged, no event tells of it,
  and its hold stays for ever (`docs/user-guide.md:142` says that the money of
  a completed order is charged); the poller, on the other hand, completes and
  charges a drip feed in full once the panel has finished its first chunk, and
  a drip feed with several chunks in flight has only the first one's external id;
- `shared/queue/queue.ts:20` names drip-feed ticks as work whose errors are
  caught and logged; `drip-feed.worker.ts:105` has them thrown, and its loop
  throws at the first order that fails, so an order that fails in every tick
  keeps all orders behind it waiting (`RunsGoOut` excludes this);
- the mail job throws so that the queue tries it again, but has marked the row
  FAILED before, and an attempt skips what is not PENDING: a mail is sent at most
  once however many attempts the job has, unless marking it fails as well
  (`MailIsTrue`); a mail that was sent and could not be marked SENT is marked
  FAILED;
- `services/notification-service/README.md:173` promises at-least-once delivery
  of webhooks and 30 seconds for an answer; an event whose jobs cannot be added
  is dropped, since the handlers swallow the error and the outbox takes it for
  handled, and the code waits 10 seconds;
- `creditPendingBonuses` has no caller: bonuses stay PENDING;
- `services/billing-service/README.md:165` calls all balance operations atomic;
  of two operations that read the same row the later commit erases the earlier
  one while both ledger rows stay (`AtomicUnlessStale` says that this is the
  only way in which the wallet departs from an atomic one);
- `confirm-order-payment.flow.ts:125` says that a failed order was reverted to
  PENDING_PAYMENT for a later delivery; nothing reverts it, and an order whose
  delivery crashed after the claim stays PROCESSING without a panel until the
  timeout worker fails it;
- `shared/outbox/handlers.ts:18` says that the handlers after one that throws
  are not skipped; the loop ends there, and they are called only if a later
  attempt gets past it;
- an order a panel cancelled keeps its hold for ever (`settleFunds` has no case
  for it, as `fund-settlement.test.ts` expects), and so does one whose creation
  crashed while it was PENDING, which no worker looks at;
- an administrator's refund of a PROCESSING order releases the hold and credits
  the price, though nothing was charged; `docs/admin-guide.md` says that a
  refund moves the money out of the hold, and that a forced status does not
  touch money, which it does;
- the settlement of a guest's order is refused, or takes the hold of another
  order, since nothing was held for it; the timeout worker then force-fails an
  order it has just announced as completed;
- an adjustment looks at the balance and not at what is held, so adjusting
  below the held amount and charging afterwards makes the balance negative;
- an administrator's confirmation that dies after its first statement leaves a
  credit without a ledger row and a PENDING deposit;
- `payment.confirmed` is lost for good if the process dies between the claim of
  the payment and the emission;
- a status is committed without its event if the emission fails;
- the expiry worker may cancel an order that a panel already has, and a guest
  who pays after the expiry has paid for CANCELLED orders;
- a late `markFailed` or `markDispatched` of a slow outbox worker overwrites
  the outcome another worker wrote.

## 4. What is proved

`tlapm` checks every proof of the eight proof modules. Every safety property
the passing runs check, invariant or action property, is a theorem, and so is
the refinement of `Delivery`. The theorems hold
for every value of the constants that meets the assumptions `WalletAssumption`,
`DepositsAssumption`, `FailoverAssumption`, `GuestAssumption`,
`OrderAssumption`, `OutboxAssumption`, `DripAssumption`, `EffectsAssumption`
and `DispatchAssumption`: any number of users, requests, deposits, orders,
panels, workers, ticks, mails, webhooks, attempts and faults. What a theorem
assumes beyond that is said with it in the table.

| theorem | says |
|---|---|
| `WalletTypeCorrect`, `DepositTypeCorrect`, `GuestTypeCorrect`, `OrderTypeCorrect`, `OutboxTypeCorrect`, `DripTypeCorrect`, `EffectsTypeCorrect`, `DispatchTypeCorrect` | the type invariants |
| `PermittedAlways` | a pending request was permitted by the row it read |
| `HoldsStayCovered`, `HoldsStayCoveredByDeposits` | `HoldCovered` of `WalletSpec` and of `DepositSpec`, if no adjustment takes money away |
| `LedgerHeadShowsBalance`, `WebhooksKeepLedgerHead` | `LedgerHead` of `WalletSpec`, and of `DepositSpec` if no deposit is settled by an administrator |
| `AtomicButForStaleCommits` | `AtomicUnlessStale`: the step simulation by `AtomicWallet`, up to stale commits |
| `SettledStaysFinal` | `SettledIsFinal` |
| `OnlyPaidIsCredited`, `NoConfirmationWithoutCredit` | `CreditedWasPaid`, `ConfirmedWasCredited`, for any races |
| `SequentialTasksCreditOnce` | `CreditedOnceIfConfirmed`, with one task and no administrator, as in `DepositsSequential` |
| `PlacedAtMostOncePerPanel` | `PlacedOncePerPanel` |
| `ReportedAtMostOnce` | `ConfirmedAtMostOnce` |
| `PaymentComesFirst` | `NothingBeforePayment` |
| `AnnouncedOutcomesAreTrue` | `OutcomeIsTrue` |
| `CopiesArePaidFor` | `CopiesCostFaults`, for any number of faults |
| `HeldStaysThere` | `HeldIsThere`, for any orders, tasks, faults and administrators |
| `EndedStaysFinal` | `EndedIsFinal` |
| `ChargesWereTold` | `ChargedWasTold`, for any races and faults and whatever integers panels say remain: at most the price for each announced completion, at most `Worth` for each announced part |
| `PoolStaysExplained` | `PoolIsExplained`, with one task and finitely many orders |
| `OrdersSettleAsTheyEnd` | `SettledAsItEnded`, with one task, finitely many orders and no faults (`MaxFaults = 0`), as in `OrdersSequential`; whatever panels say remains |
| `OutcomesHaveReasons` | `DecidedForAReason`, whatever leases do |
| `RowsHaveOneHolder`, `RepeatsStayPaidFor` | `OneHolder`, `RepeatsArePaidFor`, while leases outlast their holders |
| `OutboxDelivers` | `ImplementsDelivery`: the outbox implements `Delivery`, while leases outlast their holders |
| `EffectsImplementOutbox` | handlers that count are handlers: what is proved of the outbox holds of them |
| `LimitHoldsOnceCounted` | `LimitOnceCounted`, whatever leases do |
| `UsesStayExplained` | `UsesExplained`, while leases outlast their holders |
| `RunsStayPaidFor`, `OverrunsStayBounded` | `RunsArePaidFor`, `OverrunsBounded`, for any orders, runs and ticks |
| `CompletesInFull`, `StaysLeftAlone` | `CompletedInFull`, `LeftAlone` |
| `HeldStaysThereInRuns`, `ChargesWereToldInRuns` | `HeldIsThere`, `ChargedWasTold` of `DripSpec`: with drip feeds among the orders |
| `PoolStaysExplainedInRuns` | `PoolIsExplained` of `DripSpec`, with one task, finitely many orders and any number of ticks |
| `MailsAreTrue`, `DropsHaveReasons` | `MailIsTrue`, `DroppedForAReason` |

**Wallet.** A commit looks at nothing: what makes it safe is the check done at
the read. `PermittedInv` carries that check along in `request[r].seen`. With it,
the row a commit writes is covered because the row it read was, however old
that is; so `HoldCovered` speaks of the rows in flight as well. The assumption
that adjustments are not negative is needed: see above.

**Deposits.** `SettledIsFinal` needs that only a task that credits d adds an
entry that refers to d. An order request writes the reference it was begun
with, which is why `PermittedInv` is part of the induction here too
(`LedgerStep`), and appending an entry of another reference leaves `Credits(d)`
as it is (`OtherRow`). `BooksInv` says what the status of a deposit, its
ledger rows, its events and the payment outside have to do with each other, and
`Grounded` what a task that is about to credit has seen: a webhook begins only
on a payment, and payments are not taken back. That a credit is made once needs
that nothing happens between the read of PENDING and the commit: `FreshInv`
says so of a single task, and it is what a second task takes away
(`DepositsDoubleCredit`). `SeenCovered` is `PermittedInv` for the rows that
deposits read: a credit from a row that was covered writes a covered row.

**Guest carts.** That no delivery submits another's order is not inductive: a
claim must know that an order still PENDING_PAYMENT is in nobody's hands.
`InHand` says so: a walk belongs to a delivery at `submit` or later, its order
has left PENDING_PAYMENT for good, and no two walks have one order.
`PlacedInv` adds that the panels ahead of a walk have not seen the order, which
uses that a route names a panel once. `OutcomeInv` gives every place of a walk
what must be on record there (`Asked`, `Written`): at the panel i all panels
before it have refused or lost an answer, so an exhausted walk has the word of
each. `CopiesInv` counts: an order that is still at a panel or was just refused
has at most one copy for each answer or record that was lost, and the step that
makes one copy more is either the last of the walk or a fault. `PaidInv` relates the places of a
delivery to the payment row, and those of the checkout: orders are there only
after the payment row is, and a guest pays only after both.

**Orders.** `PayingInv` says that a task between the read and the commit of a
call of billing is at a statement that the row it read permits; with it
`AfterCovered` carries `HeldIsThere` over a commit, however old the row. That
the scripts are made of statements (`EndTyped`, `FailScriptsTyped`,
`AdminScriptsTyped`) is most of the type invariant. The other proofs see a step
only through what it does to the tasks (`ArriveMoves`, `ReadTyped`,
`GoesOnMoves`): one task is started on an order, moved on or stopped, and
touches no other order (`GoesOnTouches`). `EndedIsFinal` follows, since no
handler begins on an order that has ended.

For `ChargedWasTold` the scripts are looked at as a whole: `Chargeable` says
that one charges once, after every announcement, and at most the price, or for
a part at most `Worth` (`ScriptsInv`). `Due(o)` is the tasks that have announced
and are still to charge, `More(o)` those of them that may charge more than the
price, which only a task that announced a part can be in. `ChargedInv` says that
what was charged and what these may still charge is covered by the
announcements (`Covers`): a charge moves its amount from one to the other
(`ChargeBalance`).

`PoolIsExplained` is a sum over all orders. `SumProofs` defines sums by a table
of all subsets and proves, by induction over the subsets of a finite set, what
a sum does when one summand changes (`SumChange`) and that, if none is
negative, no summand is more than the sum (`SumCovers`); `FoldIsSum` says that
the fold in the property is this sum. `PoolInv` is then the property, and `ReadInv` that
the row a task has read is still the row, which is what one task at a time
means. Without it the sum is wrong after the first lost update.

`SettledAsItEnded` speaks of moments at which everyone rests, so its invariant
`SettledInv` must say how far an order has come at every statement in between.
`Ahead` lists the stages: not yet held; alive, on its way to a panel
(`Proceeding`) or with its end decided (`Ending`); given back; end written;
announced and being settled. `AheadStep` shows that each statement leads from
its stage to the next one or to a settled order. What a panel says of a partial
order is either in `Dones(o)`, the charges that divide its price, or makes a
charge or release that billing refuses or none at all (`Misfits`), and then the
price stays held: the poller leaves the order so, the timeout worker fails it
after all and gives the price back (`Failing`). A charge above the
price or a release of more than was held that billing does not refuse takes
money that was held for another order, which is `Foreign`. That a call of billing is not
refused on the way is `PoolCovers`: as long as no order has taken more than was
held for it (`~Foreign`, which once lost does not come back, `ForeignStays`),
the pool holds what is outstanding of each order. `HeldOnceInv` says that a hold
is the first thing that happens to an order and happens once.

**Outbox.** `WorkedInv` says of a job at handler n that all handlers before n
have finished, and that the attempts it remembers are not more than the row has
now. The latter is why comparing a stale number is still sound. While leases
outlast their holders, `PromptInv` adds that what a worker has is locked and
PROCESSING and in no other worker's batch: so the row is exclusively the
worker's until it writes the outcome, and the attempts it remembers are the
row's. From it follow `OneHolder`, the count of repeats (`RepeatInv`) and the
refinement: a handler that finishes is the next one `Delivery` allows, and an
outcome comes when `Delivery` allows it.

**Effects.** A step is a step of the outbox (`EffectsAreOutbox`), so its
invariants hold here. What is counted for a row is then how often its handler
has finished (`CountInv`), and a dispatched row's has. The counter
of a coupon is the sum of these over its rows (`SumInv`), which grows with each
summand (`SumGrows`): at most by what the outbox repeats.

**Drip feed.** `Balanced(o)` counts the ticks that are between a panel's yes and
the update (`Counting`) and those that have the order in their hands
(`Underway`): runs counted, plus those in flight, are those taken but for
faults, and each tick brings at most one run more than were ordered, since the
query saw one left. `EffectOnOrder` says that a step does one of six things to
an order's numbers; the rest is arithmetic on cardinalities. `RunInv` keeps
that a tick at `complete` has seen the last run counted. A step is a step of
`OrderLifecycle` or leaves wallet, ledger, events and tasks alone
(`DripStepIsOrders`), so what is proved of those four holds beside the drip
feed. `SettledAsItEnded` and `EndedIsFinal`, which speak of the status of an
order, do not carry over: a tick completes an order whatever its status is, and
neither charges nor tells. `LeftAlone` says what is left of the second.

**Dispatch.** `MailInv` and `HookInv` relate the place of a job to its row, the
attempts it has left and the faults so far: the catch block that marks a row
FAILED and the check at the start of an attempt together say that a mail is
offered again only after a fault.

**What only the runs show.** The liveness properties, which are out of this
prover's reach: `PaidIsCredited`, `PaidMovesOn`, `PaidIsResolved`,
`NoneWaitsForever`, `PlacedEnds`, `EmittedIsDecided`, `RunsGoOut` and
`QueuedIsOver`; and the violations in `DepositsDoubleCredit` and
`EffectsTwice`. The other way
round, the type invariants of `Wallet`, `GuestOrders`, `OrderLifecycle`,
`Outbox`, `Effects` and `Dispatch` are proved and not checked in a run, and so
are `HoldCovered` and `LedgerHead` of `DepositSpec`.

## 5. Not modelled

- Validation of requests, prices and discounts, signatures of webhooks,
  encryption, JWT, currency conversion, paging and formatting; the read
  endpoints; the CRUD modules; configuration and wiring: they keep no state that
  two steps could disagree about, or are computed by libraries.
- Sessions and tokens: the rotation of a refresh token deletes by id and
  creates, and two requests with the same token may both pass; no state of
  orders or money depends on it.
- The circuit breaker and the poller's loop over providers: they only decide
  when a poll comes, which `OrderLifecycle` leaves open. An order whose
  settlement throws is counted as a failure of its provider, so a few of them
  delay the polls of the others.
- The arithmetic of discounts, and floating-point drift in sums of cents; the
  payout of referral bonuses, which nothing calls.
- The frontend: a client of the API, whose state the server does not rely on.

What is left out of a modelled component is named in its section above.

## 6. Plan

Next: the circuit breaker with the poller's loop; `Tokens`, the rotation of
refresh tokens.
