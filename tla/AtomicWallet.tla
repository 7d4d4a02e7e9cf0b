---------------------------- MODULE AtomicWallet ----------------------------
(***************************************************************************)
(* What the billing module promises its callers: a wallet on which every   *)
(* operation is one indivisible step on the current row, recorded by one   *)
(* ledger row.  Wallet is compared with it.                                *)
(***************************************************************************)
EXTENDS WalletOps, Sequences

CONSTANTS Users, Amounts, Adjustments, OrderRefs, AdminRef, Opening, OpeningRef

VARIABLES wallet, ledger

Init ==
    /\ wallet = [u \in Users |-> [balance |-> Opening[u], hold |-> 0]]
    /\ ledger = [u \in Users |->
                    <<[type |-> "DEPOSIT", amount |-> Opening[u], before |-> 0,
                       after |-> Opening[u], ref |-> OpeningRef]>>]

Apply(u, type, amount, after, ref) ==
    /\ wallet' = [wallet EXCEPT ![u] = after]
    /\ ledger' = [ledger EXCEPT ![u] =
                     Append(@, Entry(type, amount, wallet[u], after, ref))]

Hold(u, a, ref) ==
    /\ CanHold(wallet[u], a)
    /\ Apply(u, "HOLD", a, Held(wallet[u], a), ref)

Release(u, a, ref) ==
    /\ CanSettle(wallet[u], a)
    /\ Apply(u, "RELEASE", a, Released(wallet[u], a), ref)

Charge(u, a, ref) ==
    /\ CanSettle(wallet[u], a)
    /\ Apply(u, "WITHDRAW", a, Charged(wallet[u], a), ref)

Refund(u, a, ref) ==
    Apply(u, "REFUND", a, Credited(wallet[u], a), ref)

Adjust(u, a) ==
    /\ CanAdjust(wallet[u], a)
    /\ Apply(u, "ADMIN_ADJUSTMENT", Abs(a), Credited(wallet[u], a), AdminRef)

Next ==
    \E u \in Users :
        \/ \E a \in Amounts, ref \in OrderRefs :
              Hold(u, a, ref) \/ Release(u, a, ref) \/ Charge(u, a, ref) \/ Refund(u, a, ref)
        \/ \E a \in Adjustments : Adjust(u, a)

Spec == Init /\ [][Next]_<<wallet, ledger>>
=============================================================================
