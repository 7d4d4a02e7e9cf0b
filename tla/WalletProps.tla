----------------------------- MODULE WalletProps -----------------------------
(***************************************************************************)
(* What is checked and proved of Wallet.                                   *)
(***************************************************************************)
EXTENDS Wallet

\* What billing promises, with its own wallet and ledger for the promised ones.
Atomic ==
    INSTANCE AtomicWallet WITH
        Users <- Users, Amounts <- Amounts, Adjustments <- Adjustments,
        OrderRefs <- OrderRefs, AdminRef <- AdminRef, Refs <- Refs,
        Opening <- Opening, OpeningRef <- OpeningRef,
        wallet <- wallet, ledger <- ledger

\* Held money is always there, and never negative: however requests race and
\* whichever update is lost (billing-internal.service.ts writes balance and
\* hold as one pair computed from one pair).  Needs that no administrator
\* takes money away: CanAdjust looks at the balance and not at what is held.
HoldCovered ==
    /\ \A u \in Users : Covered(wallet[u])
    /\ \A r \in Requests : request[r] # Idle => Covered(request[r].seen)

\* The newest ledger row of a user always shows the user's balance: the two
\* writes of an operation commit together and no request writes one alone.
LedgerHead ==
    \A u \in Users :
        /\ ledger[u] # <<>>
        /\ ledger[u][Len(ledger[u])].after = wallet[u].balance

\* Request r commits in this step on a row that is no longer the one it read.
StaleCommit(r) ==
    /\ request[r] # Idle
    /\ ledger' # ledger
    /\ request'[r] = Idle
    /\ request[r].seen # wallet[request[r].user]

\* Every step of the billing service is a step of the atomic wallet, or it is
\* the commit of a request whose row changed since it was read: the missing
\* row lock is the only way the service departs from what it promises.
AtomicUnlessStale ==
    [][(\A r \in Requests : ~StaleCommit(r)) => Atomic!Next]_<<wallet, ledger>>
=============================================================================
