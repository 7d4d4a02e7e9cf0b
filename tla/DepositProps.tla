---------------------------- MODULE DepositProps ----------------------------
(***************************************************************************)
(* What is checked and proved of Deposits.                                 *)
(***************************************************************************)
EXTENDS Deposits, FiniteSets

Settled(d) == deposit[d] \in {"CONFIRMED", "FAILED", "EXPIRED"}

\* A task has read d as PENDING and has not finished with it.
InProgress(d) ==
    \E t \in Tasks : task[t] # Resting /\ task[t].deposit = d

\* The ledger rows that credit d.
Credits(d) ==
    {i \in DOMAIN ledger[Owner[d]] : ledger[Owner[d]][i].ref = d}

\* While tasks come one at a time, whatever dies in between and however often
\* a webhook is repeated: a deposit is credited, and announced, exactly when
\* it is CONFIRMED, once (confirmDepositTransaction's PENDING guard).
CreditedOnceIfConfirmed ==
    \A d \in DepositIds :
        LET credits == IF deposit[d] = "CONFIRMED" THEN 1 ELSE 0
        IN  /\ Cardinality(Credits(d)) = credits
            /\ event[d].confirmed = credits

\* With any number of tasks racing: what is CONFIRMED was credited at least
\* once, and no more is announced than was credited.
ConfirmedWasCredited ==
    \A d \in DepositIds :
        /\ deposit[d] = "CONFIRMED" => Credits(d) # {}
        /\ event[d].confirmed <= Cardinality(Credits(d))

\* Webhooks and the expiry worker, racing each other and order requests,
\* credit only what the provider was paid for, and announce every credit in
\* the commit that makes it.  (An administrator announces nothing.)
CreditedWasPaid ==
    \A d \in DepositIds \ AdminSettles :
        /\ Credits(d) # {} => provider[d] = "paid"
        /\ event[d].confirmed = Cardinality(Credits(d))

\* Once a deposit is settled and no task that saw it PENDING is left, nothing
\* touches it again: no late webhook, no expiry tick, no administrator.
SettledIsFinal ==
    [][\A d \in DepositIds :
          Settled(d) /\ ~InProgress(d) =>
              /\ deposit'[d] = deposit[d]
              /\ event'[d] = event[d]
              /\ Credits(d)' = Credits(d)
              /\ ~InProgress(d)']_vars

\* A paid deposit that is not past its time is credited.
PaidIsCredited ==
    \A d \in DepositIds :
        provider[d] = "paid" ~> deposit[d] = "CONFIRMED" \/ d \in due

\* A fresh fetch inside the transaction guards against double credit under
\* concurrent webhook retries (deposit-lifecycle.service.ts).
NoDoubleCredit == \A d \in DepositIds : Cardinality(Credits(d)) <= 1
=============================================================================
