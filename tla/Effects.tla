------------------------------- MODULE Effects -------------------------------
(***************************************************************************)
(* What handlers of the outbox count (modules/coupons and                  *)
(* modules/referrals), on top of Outbox, which repeats them.               *)
(*                                                                         *)
(* coupon.used counts a use of the coupon whose limit was looked at when   *)
(* the order was made; referral.applied adds a bonus.  Neither looks       *)
(* whether it has seen the event before.                                   *)
(***************************************************************************)
EXTENDS Outbox

CONSTANTS
    Kind,      \* what a row is about
    Coupon,    \* the coupon of a row
    Coupons,
    MaxUses    \* maxUses of a coupon

ASSUME EffectsAssumption ==
    /\ IsFiniteSet(Rows)
    /\ Kind \in [Rows -> {"coupon", "referral"}]
    /\ HandlerCount = [e \in Rows |-> 1]
    /\ Coupon \in [Rows -> Coupons]
    /\ MaxUses \in [Coupons -> Nat]

VARIABLES
    checked,    \* orders that were given a coupon, by the event to come
    active,     \* coupons that are
    uses,       \* usedCount
    bonuses     \* bonuses[e]: referral bonuses made for e

effects == <<checked, active, uses, bonuses>>
allVars == <<vars, effects>>

EffectsTypeOK ==
    /\ OutboxTypeOK
    /\ checked \subseteq Rows
    /\ active \subseteq Coupons
    /\ uses \in [Coupons -> Nat]
    /\ bonuses \in [Rows -> Nat]

EffectsInit ==
    /\ OutboxInit
    /\ checked = {}
    /\ active = Coupons
    /\ uses = [c \in Coupons |-> 0]
    /\ bonuses = [e \in Rows |-> 0]

-----------------------------------------------------------------------------
(* A coupon, and the events *)

ValidateCouponUnlimited(e) ==   \* seeded fault
    /\ Kind[e] = "coupon"
    /\ e \notin checked
    /\ Coupon[e] \in active
    /\ checked' = checked \cup {e}
    /\ UNCHANGED <<vars, active, uses, bonuses>>

\* validateCoupon, when an order is made ...
ValidateCoupon(e) ==
    /\ Kind[e] = "coupon"
    /\ e \notin checked
    /\ Coupon[e] \in active
    /\ uses[Coupon[e]] < MaxUses[Coupon[e]]
    /\ checked' = checked \cup {e}
    /\ UNCHANGED <<vars, active, uses, bonuses>>

DeactivateCoupon(c) ==
    /\ c \in active
    /\ active' = active \ {c}
    /\ UNCHANGED <<vars, checked, uses, bonuses>>

\* ... whose event comes when a panel has taken it.
EmitRow(e) ==
    /\ Kind[e] = "coupon" => e \in checked
    /\ EmitEvent(e)
    /\ UNCHANGED effects

-----------------------------------------------------------------------------
(* The handlers *)

ApplyCouponWhileActive(w) ==   \* seeded fault
    LET c == Coupon[job[w].row]
    IN  /\ HandlerDone(w)
        /\ Kind[job[w].row] = "coupon"
        /\ uses' = IF c \in active THEN [uses EXCEPT ![c] = uses[c] + 1] ELSE uses
        /\ UNCHANGED <<checked, active, bonuses>>

\* applyCoupon looks at neither the limit nor whether the coupon is active.
ApplyCoupon(w) ==
    LET c == Coupon[job[w].row]
    IN  /\ HandlerDone(w)
        /\ Kind[job[w].row] = "coupon"
        /\ uses' = [uses EXCEPT ![c] = uses[c] + 1]
        /\ UNCHANGED <<checked, active, bonuses>>

\* applyReferral.  That the referred user is pointed at the referrer again
\* changes nothing.
ApplyReferral(w) ==
    LET e == job[w].row
    IN  /\ HandlerDone(w)
        /\ Kind[e] = "referral"
        /\ bonuses' = [bonuses EXCEPT ![e] = bonuses[e] + 1]
        /\ UNCHANGED <<checked, active, uses>>

Plumb(w) ==
    \/ ClaimPendingBatch(w)
    \/ Take(w)
    \/ HandlerThrows(w)
    \/ MarkDispatched(w)
    \/ MarkDispatchedThrows(w)
    \/ MarkRetryable(w)
    \/ MarkFailed(w)
    \/ Crash(w)

EffectsNext ==
    \/ \E e \in Rows :
          \/ ValidateCoupon(e)
          \/ EmitRow(e)
          \/ (BecomesDue(e) \/ LockExpires(e)) /\ UNCHANGED effects
    \/ \E c \in Coupons : DeactivateCoupon(c)
    \/ \E w \in Workers :
          \/ ApplyCoupon(w)
          \/ ApplyReferral(w)
          \/ Plumb(w) /\ UNCHANGED effects

EffectsSpec == EffectsInit /\ [][EffectsNext]_allVars
=============================================================================
