---------------------------- MODULE EffectsProps ----------------------------
(***************************************************************************)
(* What is checked and proved of Effects.                                  *)
(***************************************************************************)
EXTENDS Effects, OutboxProps, Functions

Of(c) == {e \in Rows : Kind[e] = "coupon" /\ Coupon[e] = c}

\* How often a handler may have seen e: once, and once more for an attempt
\* that failed or a worker that died.
Excused(e) == IF status[e] = "NONE" THEN 0 ELSE 1 + attempts[e] + faults

\* No use of a coupon is lost: its counter is at least the orders whose event
\* was dispatched.  It may be more, since the handler is not idempotent
\* (AppliedOnce), but only by what the outbox repeated: by no more than the
\* attempts that failed and the workers that died.
UsesExplained ==
    \A c \in Coupons :
        /\ Cardinality({e \in Of(c) : status[e] = "DISPATCHED"}) <= uses[c]
        /\ uses[c] <= FoldFunction(+, 0, [e \in Of(c) |-> Excused(e)])

\* The limit is looked at when an order is made and counted when its event is
\* handled: it is passed by orders whose use is not counted yet, never by one
\* made after as many as the limit were dispatched.
LimitOnceCounted ==
    [][\A e \in checked' \ checked :
          LET used == {d \in checked : Coupon[d] = Coupon[e] /\ status[d] = "DISPATCHED"}
          IN  Cardinality(used) < MaxUses[Coupon[e]]]_allVars

\* shared/outbox/handlers.ts:5-7: "Handlers must be idempotent ... every side
\* effect must be safe to apply more than once"; so however often the outbox
\* repeats an event, its use of a coupon is counted once and its referral
\* earns one bonus.
AppliedOnce ==
    /\ \A c \in Coupons :
          uses[c] <= Cardinality({e \in Of(c) : status[e] # "NONE"})
    /\ \A e \in Rows : bonuses[e] <= 1
=============================================================================
