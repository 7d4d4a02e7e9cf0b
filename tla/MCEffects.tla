----------------------------- MODULE MCEffects -----------------------------
(* Small outboxes with effects for TLC.                                    *)
EXTENDS EffectsProps

CONSTANTS c1, c2, r, coupon   \* model values: events and a coupon

OneHandler == [e \in Rows |-> 1]
MCKind == [e \in Rows |-> IF e = r THEN "referral" ELSE "coupon"]
MCCoupon == [e \in Rows |-> coupon]
MCMaxUses == [c \in Coupons |-> 1]
=============================================================================
