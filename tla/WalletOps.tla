----------------------------- MODULE WalletOps -----------------------------
(***************************************************************************)
(* The arithmetic of a wallet row and the ledger rows it leaves behind, as *)
(* every billing operation of modules/billing computes them.  A wallet row *)
(* is the pair the code reads and writes back as one: the balance and the  *)
(* part of it that is held for running orders.  Money is an integer number *)
(* of the smallest unit (the columns are Decimal(15,2)).                   *)
(*                                                                         *)
(* Every operator works on a row w that the caller read earlier: the code  *)
(* never asks the database to add or subtract, it writes back the absolute *)
(* numbers computed from what it read.                                     *)
(***************************************************************************)
EXTENDS Integers

CONSTANT Refs   \* what a ledger row may refer to: orders, deposits, admins

WalletRow == [balance : Int, hold : Int]

Available(w) == w.balance - w.hold

\* A row of the ledger: what was moved, and the balance around the move.
LedgerTypes ==
    {"DEPOSIT", "HOLD", "RELEASE", "WITHDRAW", "REFUND", "ADMIN_ADJUSTMENT"}

LedgerRow == [type : LedgerTypes, amount : Int, before : Int, after : Int,
              ref : Refs]

EntryOfBalanceBefore(type, amount, w, after, ref) ==   \* seeded fault
    [type |-> type, amount |-> amount, before |-> w.balance,
     after |-> w.balance, ref |-> ref]

Entry(type, amount, w, after, ref) ==
    [type |-> type, amount |-> amount, before |-> w.balance,
     after |-> after.balance, ref |-> ref]

Abs(n) == IF n < 0 THEN -n ELSE n

-----------------------------------------------------------------------------
(* The five operations of billing-internal.service and the deposit credit: *)
(* when each refuses, and the row it writes.                               *)

CanHold(w, a)   == Available(w) >= a
CanSettle(w, a) == w.hold >= a           \* release and charge
CanAdjust(w, a) == w.balance + a >= 0    \* looks at the balance only

ChargedStillHeld(w, a) ==   \* seeded fault
    [balance |-> w.balance - a, hold |-> w.hold]

Held(w, a)     == [balance |-> w.balance, hold |-> w.hold + a]
Released(w, a) == [balance |-> w.balance, hold |-> w.hold - a]
Charged(w, a)  == [balance |-> w.balance - a, hold |-> w.hold - a]
Credited(w, a) == [balance |-> w.balance + a, hold |-> w.hold]

(* What makes a row healthy: nothing held that is not there.               *)
Covered(w) == 0 <= w.hold /\ w.hold <= w.balance
=============================================================================
