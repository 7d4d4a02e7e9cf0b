--------------------------- MODULE EffectsProofs ---------------------------
(***************************************************************************)
(* Proofs about Effects.  Its behaviours are behaviours of the outbox, so  *)
(* what is proved there holds here; what the handlers count follows from   *)
(* how often they have finished.                                           *)
(***************************************************************************)
EXTENDS EffectsProps, OutboxProofs, SumProofs

LEMMA EffectsAreOutbox == [EffectsNext]_allVars => [OutboxNext]_vars
  <1> SUFFICES ASSUME [EffectsNext]_allVars
               PROVE  [OutboxNext]_vars
    OBVIOUS
  <1>1. CASE UNCHANGED allVars
    BY <1>1 DEF allVars
  <1>2. ASSUME NEW e \in Rows, EmitRow(e) \/ BecomesDue(e) \/ LockExpires(e)
        PROVE  OutboxNext
    BY <1>2 DEF EmitRow, OutboxNext
  <1>3. ASSUME NEW w \in Workers, ApplyCoupon(w) \/ ApplyReferral(w) \/ Plumb(w)
        PROVE  OutboxNext
    BY <1>3 DEF ApplyCoupon, ApplyReferral, Plumb, OutboxNext, Work
  <1>4. ASSUME NEW e \in Rows, ValidateCoupon(e)
        PROVE  UNCHANGED vars
    BY <1>4 DEF ValidateCoupon
  <1>5. ASSUME NEW c \in Coupons, DeactivateCoupon(c)
        PROVE  UNCHANGED vars
    BY <1>5 DEF DeactivateCoupon
  <1> QED BY <1>1, <1>2, <1>3, <1>4, <1>5 DEF EffectsNext

\* What is proved of the outbox holds with its handlers in place.
THEOREM EffectsImplementOutbox == EffectsSpec => OutboxSpec
  <1>1. EffectsInit => OutboxInit
    BY DEF EffectsInit
  <1> QED BY <1>1, EffectsAreOutbox, PTL DEF EffectsSpec, OutboxSpec

\* What a step does to the counters: a handler finishes and counts, or an order
\* is given a coupon, or neither.
LEMMA EffectsCases ==
    ASSUME [EffectsNext]_allVars
    PROVE  \/ \E w \in Workers : ApplyCoupon(w) \/ ApplyReferral(w)
           \/ \E e \in Rows : ValidateCoupon(e)
           \/ UNCHANGED <<done, checked, uses, bonuses>>
  <1>1. CASE UNCHANGED allVars
    BY <1>1 DEF allVars, vars, effects
  <1>2. ASSUME NEW e \in Rows,
               \/ EmitRow(e)
               \/ (BecomesDue(e) \/ LockExpires(e)) /\ UNCHANGED effects
        PROVE  UNCHANGED <<done, checked, uses, bonuses>>
    BY <1>2 DEF EmitRow, EmitEvent, BecomesDue, LockExpires, effects
  <1>3. ASSUME NEW w \in Workers, Plumb(w) /\ UNCHANGED effects
        PROVE  UNCHANGED <<done, checked, uses, bonuses>>
    BY <1>3 DEF Plumb, ClaimPendingBatch, Take, HandlerThrows, MarkDispatched,
           MarkDispatchedThrows, MarkRetryable, MarkFailed, Crash, effects
  <1>4. ASSUME NEW c \in Coupons, DeactivateCoupon(c)
        PROVE  UNCHANGED <<done, checked, uses, bonuses>>
    BY <1>4 DEF DeactivateCoupon, vars
  <1>5. EffectsNext =>
           \/ \E w \in Workers : ApplyCoupon(w) \/ ApplyReferral(w)
           \/ \E e \in Rows : ValidateCoupon(e)
           \/ UNCHANGED <<done, checked, uses, bonuses>>
    <2> SUFFICES ASSUME EffectsNext,
                        \A w \in Workers : ~ApplyCoupon(w) /\ ~ApplyReferral(w),
                        \A e \in Rows : ~ValidateCoupon(e)
                 PROVE  UNCHANGED <<done, checked, uses, bonuses>>
      OBVIOUS
    <2>1. CASE \E e \in Rows :
                    \/ ValidateCoupon(e)
                    \/ EmitRow(e)
                    \/ (BecomesDue(e) \/ LockExpires(e)) /\ UNCHANGED effects
      BY <2>1, <1>2
    <2>2. CASE \E c \in Coupons : DeactivateCoupon(c)
      BY <2>2, <1>4
    <2>3. CASE \E w \in Workers :
                    \/ ApplyCoupon(w)
                    \/ ApplyReferral(w)
                    \/ Plumb(w) /\ UNCHANGED effects
      BY <2>3, <1>3
    <2> QED BY <2>1, <2>2, <2>3 DEF EffectsNext
  <1> QED BY <1>1, <1>5

-----------------------------------------------------------------------------
LEMMA EffectsTypeStep ==
    ASSUME EffectsTypeOK, [EffectsNext]_allVars
    PROVE  EffectsTypeOK'
  <1>1. OutboxTypeOK'
    BY OutboxTypeStep, EffectsAreOutbox DEF EffectsTypeOK
  <1> DEFINE CountersTyped == /\ checked \subseteq Rows
                              /\ uses \in [Coupons -> Nat]
                              /\ bonuses \in [Rows -> Nat]
  <1>2. CountersTyped'
    <2>1. CASE UNCHANGED <<done, checked, uses, bonuses>>
      BY <2>1 DEF EffectsTypeOK
    <2>2. ASSUME NEW e \in Rows, ValidateCoupon(e)
          PROVE  CountersTyped'
      BY <2>2 DEF ValidateCoupon, EffectsTypeOK
    <2>3. ASSUME NEW w \in Workers, ApplyCoupon(w)
          PROVE  CountersTyped'
      <3>1. job[w].row \in Rows
        BY <2>3, TallyTyped DEF ApplyCoupon, EffectsTypeOK, Jobs
      <3>2. Coupon[job[w].row] \in Coupons
        BY <3>1, EffectsAssumption
      <3> QED BY <2>3, <3>2 DEF ApplyCoupon, EffectsTypeOK
    <2>4. ASSUME NEW w \in Workers, ApplyReferral(w)
          PROVE  CountersTyped'
      <3>1. job[w].row \in Rows
        BY <2>4, TallyTyped DEF ApplyReferral, EffectsTypeOK, Jobs
      <3> QED BY <2>4, <3>1 DEF ApplyReferral, EffectsTypeOK
    <2> QED BY <2>1, <2>2, <2>3, <2>4, EffectsCases
  <1>3. active' \subseteq active
    <2>1. \A e \in Rows : ValidateCoupon(e) \/ EmitRow(e) => active' = active
      BY DEF ValidateCoupon, EmitRow, effects
    <2>2. \A w \in Workers : ApplyCoupon(w) \/ ApplyReferral(w) => active' = active
      BY DEF ApplyCoupon, ApplyReferral
    <2>3. \A c \in Coupons : DeactivateCoupon(c) => active' \subseteq active
      BY DEF DeactivateCoupon
    <2>4. UNCHANGED effects \/ UNCHANGED allVars => active' = active
      BY DEF effects, allVars
    <2> QED BY <2>1, <2>2, <2>3, <2>4 DEF EffectsNext
  <1>4. active' \subseteq Coupons
    BY <1>3 DEF EffectsTypeOK
  <1> QED BY <1>1, <1>2, <1>4 DEF EffectsTypeOK

THEOREM EffectsTypeCorrect == EffectsSpec => []EffectsTypeOK
  <1>1. EffectsInit => EffectsTypeOK
    <2>1. OutboxInit => OutboxTypeOK
      BY DEF OutboxInit, OutboxTypeOK, Statuses, HandlersOf
    <2> QED BY <2>1 DEF EffectsInit, EffectsTypeOK
  <1>2. EffectsTypeOK /\ [EffectsNext]_allVars => EffectsTypeOK'
    BY EffectsTypeStep
  <1> QED BY <1>1, <1>2, PTL DEF EffectsSpec

-----------------------------------------------------------------------------
(* Counters and the handler's runs *)

\* The one handler of a row.
LEMMA OneHandlerEach ==
    ASSUME NEW e \in Rows
    PROVE  HandlersOf(e) = {1}
  BY EffectsAssumption DEF HandlersOf

LEMMA HandledOnceMore ==
    ASSUME OutboxTypeOK, NEW w \in Workers, HandlerDone(w)
    PROVE  /\ job[w].row \in Rows
           /\ done[job[w].row][1] \in Nat
           /\ done'[job[w].row][1] = done[job[w].row][1] + 1
           /\ \A e \in Rows : e # job[w].row => done'[e][1] = done[e][1]
  <1> DEFINE r == job[w].row
  <1>1. r \in Rows /\ job[w].next \in HandlersOf(r)
    BY TallyTyped DEF Jobs
  <1>2. job[w].next = 1
    BY <1>1, OneHandlerEach
  <1>3. done[r] \in [HandlersOf(r) -> Nat] /\ 1 \in HandlersOf(r) /\ DOMAIN done = Rows
    BY <1>1, OneHandlerEach DEF OutboxTypeOK
  <1>4. done'[r] = [h \in HandlersOf(r) |-> IF h = 1 THEN done[r][h] + 1 ELSE done[r][h]]
    BY <1>1, <1>2, <1>3 DEF HandlerDone
  <1>5. \A e \in Rows : e # r => done'[e] = done[e]
    BY <1>1, TallyTyped
  <1> QED BY <1>1, <1>3, <1>4, <1>5

-----------------------------------------------------------------------------
(* The limit of a coupon *)

\* Rows of c whose handler has finished, each of which counts.
Seen(c) == {e \in Of(c) : done[e][1] > 0}

CountInv ==
    /\ \A c \in Coupons : Cardinality(Seen(c)) <= uses[c]
    /\ \A e \in checked : Kind[e] = "coupon"

LEMMA SeenFinite ==
    ASSUME NEW c
    PROVE  IsFiniteSet(Seen(c)) /\ Cardinality(Seen(c)) \in Nat
  <1>1. Seen(c) \subseteq Rows
    BY DEF Seen, Of
  <1> QED BY <1>1, EffectsAssumption, FS_Subset, FS_CardinalityType

LEMMA OneMore ==
    ASSUME NEW c, NEW e
    PROVE  /\ IsFiniteSet(Seen(c) \cup {e})
           /\ Cardinality(Seen(c) \cup {e}) <= Cardinality(Seen(c)) + 1
           /\ Cardinality(Seen(c) \cup {e}) \in Nat
  <1> DEFINE seen == Seen(c)
  <1>1. IsFiniteSet(seen) /\ Cardinality(seen) \in Nat
    BY SeenFinite
  <1> HIDE DEF seen
  <1>2. /\ IsFiniteSet(seen \cup {e})
        /\ Cardinality(seen \cup {e}) = IF e \in seen THEN Cardinality(seen)
                                                    ELSE Cardinality(seen) + 1
    BY <1>1, FS_AddElement
  <1>3. /\ Cardinality(seen \cup {e}) <= Cardinality(seen) + 1
        /\ Cardinality(seen \cup {e}) \in Nat
    BY <1>1, <1>2
  <1> QED BY <1>2, <1>3 DEF seen

LEMMA CountStep ==
    ASSUME EffectsTypeOK, CountInv, [EffectsNext]_allVars
    PROVE  CountInv'
  <1>t. OutboxTypeOK /\ uses \in [Coupons -> Nat]
    BY DEF EffectsTypeOK
  <1>1. CASE UNCHANGED <<done, checked, uses, bonuses>>
    BY <1>1 DEF CountInv, Seen, Of
  <1>2. ASSUME NEW e \in Rows, ValidateCoupon(e)
        PROVE  CountInv'
    BY <1>2 DEF ValidateCoupon, vars, CountInv, Seen, Of
  <1>3. ASSUME NEW w \in Workers, ApplyReferral(w)
        PROVE  CountInv'
    <2>1. HandlerDone(w) /\ Kind[job[w].row] = "referral" /\ uses' = uses /\ checked' = checked
      BY <1>3 DEF ApplyReferral
    <2>2. \A e \in Rows : e # job[w].row => done'[e][1] = done[e][1]
      BY <2>1, <1>t, HandledOnceMore
    <2>3. \A c \in Coupons : Seen(c)' = Seen(c)
      BY <2>1, <2>2 DEF Seen, Of
    <2> QED BY <2>1, <2>3 DEF CountInv
  <1>4. ASSUME NEW w \in Workers, ApplyCoupon(w)
        PROVE  CountInv'
    <2> DEFINE r == job[w].row
               d == Coupon[r]
    <2>1. HandlerDone(w) /\ uses' = [uses EXCEPT ![d] = uses[d] + 1] /\ checked' = checked
      BY <1>4 DEF ApplyCoupon
    <2>2. r \in Rows /\ \A e \in Rows : e # r => done'[e][1] = done[e][1]
      BY <2>1, <1>t, HandledOnceMore
    <2>3. ASSUME NEW c \in Coupons
          PROVE  Cardinality(Seen(c)') <= uses'[c]
      <3>1. CASE c = d
        <4>1. Seen(c)' \subseteq Seen(c) \cup {r}
          BY <2>2 DEF Seen, Of
        <4>2. /\ IsFiniteSet(Seen(c) \cup {r})
              /\ Cardinality(Seen(c) \cup {r}) <= Cardinality(Seen(c)) + 1
              /\ Cardinality(Seen(c) \cup {r}) \in Nat
          BY OneMore
        <4>3. /\ Cardinality(Seen(c)') <= Cardinality(Seen(c) \cup {r})
              /\ Cardinality(Seen(c)') \in Nat
          BY <4>1, <4>2, FS_Subset, FS_CardinalityType
        <4>4. uses'[c] = uses[c] + 1 /\ uses[c] \in Nat
          BY <2>1, <3>1, <1>t
        <4>5. Cardinality(Seen(c)) <= uses[c] /\ Cardinality(Seen(c)) \in Nat
          BY SeenFinite DEF CountInv
        <4> QED BY <4>2, <4>3, <4>4, <4>5
      <3>2. CASE c # d
        <4>1. Seen(c)' = Seen(c)
          BY <2>2, <3>2 DEF Seen, Of
        <4>2. uses'[c] = uses[c]
          BY <2>1, <3>2, <1>t
        <4> QED BY <4>1, <4>2 DEF CountInv
      <3> QED BY <3>1, <3>2
    <2> QED BY <2>1, <2>3 DEF CountInv
  <1> QED BY <1>1, <1>2, <1>3, <1>4, EffectsCases

LEMMA CountInitOK == EffectsInit => CountInv
  <1> SUFFICES ASSUME EffectsInit, NEW c \in Coupons
               PROVE  Cardinality(Seen(c)) <= uses[c]
    BY DEF EffectsInit, CountInv
  <1>1. \A e \in Rows : done[e][1] = 0
    BY OneHandlerEach DEF EffectsInit, OutboxInit
  <1>2. Seen(c) = {}
    BY <1>1 DEF Seen, Of
  <1>3. Cardinality(Seen(c)) = 0 /\ uses[c] = 0
    BY <1>2, FS_EmptySet DEF EffectsInit
  <1> QED BY <1>3

\* The orders that count against a coupon's limit when the limit is looked at
\* are at least those whose event was dispatched.
LEMMA LimitStep ==
    ASSUME EffectsTypeOK, CountInv, DecidedForAReason, [EffectsNext]_allVars,
           NEW e \in checked' \ checked
    PROVE  Cardinality({d \in checked : Coupon[d] = Coupon[e] /\ status[d] = "DISPATCHED"})
               < MaxUses[Coupon[e]]
  <1> DEFINE c == Coupon[e]
             used == {d \in checked : Coupon[d] = c /\ status[d] = "DISPATCHED"}
  <1>1. e \in Rows /\ uses[c] < MaxUses[c]
    BY EffectsCases DEF ApplyCoupon, ApplyReferral, ValidateCoupon
  <1>2. c \in Coupons /\ uses[c] \in Nat /\ MaxUses[c] \in Nat
    BY <1>1, EffectsAssumption DEF EffectsTypeOK
  <1>3. used \subseteq Seen(c)
    <2> SUFFICES ASSUME NEW d \in used
                 PROVE  d \in Seen(c)
      OBVIOUS
    <2>1. d \in Rows /\ Kind[d] = "coupon" /\ Coupon[d] = c /\ status[d] = "DISPATCHED"
      BY DEF CountInv, EffectsTypeOK
    <2>2. done[d][1] > 0
      BY <2>1, OneHandlerEach DEF DecidedForAReason
    <2> QED BY <2>1, <2>2 DEF Seen, Of
  <1>4. Cardinality(used) <= Cardinality(Seen(c)) /\ Cardinality(used) \in Nat
    BY <1>3, SeenFinite, FS_Subset, FS_CardinalityType
  <1>5. Cardinality(Seen(c)) <= uses[c] /\ Cardinality(Seen(c)) \in Nat
    BY <1>2, SeenFinite DEF CountInv
  <1> QED BY <1>1, <1>2, <1>4, <1>5

\* No order is given a coupon once as many as its limit were dispatched with
\* it, whether or not leases run out on working holders.
THEOREM LimitHoldsOnceCounted == EffectsSpec => LimitOnceCounted
  <1>1. EffectsTypeOK /\ CountInv /\ [EffectsNext]_allVars => CountInv'
    BY CountStep
  <1>2. OutboxTypeOK /\ WorkedInv /\ DecidedForAReason /\ [OutboxNext]_vars
        => WorkedInv' /\ DecidedForAReason'
    BY DecidedStep
  <1>3. EffectsTypeOK /\ CountInv /\ DecidedForAReason /\ [EffectsNext]_allVars
        => [\A e \in checked' \ checked :
              LET used == {d \in checked : Coupon[d] = Coupon[e] /\ status[d] = "DISPATCHED"}
              IN  Cardinality(used) < MaxUses[Coupon[e]]]_allVars
    BY LimitStep
  <1>4. EffectsTypeOK => OutboxTypeOK
    BY DEF EffectsTypeOK
  <1>5. EffectsInit => OutboxInit
    BY DEF EffectsInit
  <1> QED BY <1>1, <1>2, <1>3, <1>4, <1>5, EffectsTypeCorrect, EffectsAreOutbox, CountInitOK,
          WorkedInit, PTL DEF EffectsSpec, LimitOnceCounted

-----------------------------------------------------------------------------
(* The counter of a coupon is a sum over its events.                       *)

Runs(c) == [e \in Of(c) |-> done[e][1]]

SumInv == \A c \in Coupons : uses[c] = SumOf(Runs(c), Of(c))

LEMMA OfFinite ==
    ASSUME NEW c
    PROVE  Of(c) \subseteq Rows /\ IsFiniteSet(Of(c))
  <1>1. Of(c) \subseteq Rows
    BY DEF Of
  <1> QED BY <1>1, EffectsAssumption, FS_Subset

LEMMA RunsTyped ==
    ASSUME OutboxTypeOK, NEW c
    PROVE  Runs(c) \in [Of(c) -> Int] /\ \A e \in Of(c) : Runs(c)[e] = done[e][1]
  <1>1. \A e \in Of(c) : done[e][1] \in Nat
    BY OneHandlerEach, OfFinite DEF OutboxTypeOK
  <1> QED BY <1>1 DEF Runs

LEMMA SumInitOK == EffectsInit => SumInv
  <1> SUFFICES ASSUME EffectsInit, NEW c \in Coupons
               PROVE  uses[c] = SumOf(Runs(c), Of(c))
    BY DEF SumInv
  <1>1. \A e \in Rows : done[e][1] = 0
    BY OneHandlerEach DEF EffectsInit, OutboxInit
  <1>2. \A e \in Of(c) : Runs(c)[e] = 0
    BY <1>1 DEF Runs, Of
  <1>3. SumOf(Runs(c), Of(c)) = 0
    BY <1>2, OfFinite, SumZero
  <1> QED BY <1>3 DEF EffectsInit

LEMMA SumStep ==
    ASSUME EffectsTypeOK, SumInv, [EffectsNext]_allVars
    PROVE  SumInv'
  <1>t. OutboxTypeOK /\ uses \in [Coupons -> Nat]
    BY DEF EffectsTypeOK
  <1>u. OutboxTypeOK'
    BY EffectsTypeStep DEF EffectsTypeOK
  <1>1. CASE UNCHANGED <<done, checked, uses, bonuses>>
    BY <1>1 DEF SumInv, Runs, Of
  <1>2. ASSUME NEW e \in Rows, ValidateCoupon(e)
        PROVE  SumInv'
    BY <1>2 DEF ValidateCoupon, vars, SumInv, Runs, Of
  <1>3. ASSUME NEW w \in Workers, ApplyReferral(w)
        PROVE  SumInv'
    <2>1. HandlerDone(w) /\ Kind[job[w].row] = "referral" /\ uses' = uses
      BY <1>3 DEF ApplyReferral
    <2>2. \A e \in Rows : e # job[w].row => done'[e][1] = done[e][1]
      BY <2>1, <1>t, HandledOnceMore
    <2>3. ASSUME NEW c \in Coupons
          PROVE  Runs(c)' = Runs(c) /\ Of(c)' = Of(c)
      <3>1. \A e \in Of(c) : done'[e][1] = done[e][1]
        BY <2>1, <2>2 DEF Of
      <3>2. [e \in Of(c) |-> done'[e][1]] = [e \in Of(c) |-> done[e][1]]
        BY <3>1
      <3> QED BY <3>2 DEF Runs, Of
    <2> QED BY <2>1, <2>3 DEF SumInv
  <1>4. ASSUME NEW w \in Workers, ApplyCoupon(w)
        PROVE  SumInv'
    <2> DEFINE r == job[w].row
               d == Coupon[r]
    <2>1. /\ HandlerDone(w) /\ Kind[r] = "coupon"
          /\ uses' = [uses EXCEPT ![d] = uses[d] + 1]
      BY <1>4 DEF ApplyCoupon
    <2>2. /\ r \in Rows
          /\ done[r][1] \in Nat
          /\ done'[r][1] = done[r][1] + 1
          /\ \A e \in Rows : e # r => done'[e][1] = done[e][1]
      BY <2>1, <1>t, HandledOnceMore
    <2>3. ASSUME NEW c \in Coupons
          PROVE  uses'[c] = SumOf(Runs(c)', Of(c))
      <3>1. /\ Runs(c) \in [Of(c) -> Int] /\ \A e \in Of(c) : Runs(c)[e] = done[e][1]
            /\ Runs(c)' \in [Of(c) -> Int] /\ \A e \in Of(c) : Runs(c)'[e] = done'[e][1]
        <4>1. Runs(c)' = [e \in Of(c) |-> done'[e][1]]
          BY DEF Runs, Of
        <4>2. \A e \in Of(c) : done'[e][1] \in Nat
          BY <1>u, OneHandlerEach, OfFinite DEF OutboxTypeOK, HandlersOf
        <4> QED BY <4>1, <4>2, <1>t, RunsTyped
      <3>2. uses[c] = SumOf(Runs(c), Of(c))
        BY DEF SumInv
      <3>3. CASE c = d
        <4>1. r \in Of(c)
          BY <2>1, <2>2, <3>3 DEF Of
        <4>2. Runs(c)'[r] - Runs(c)[r] = 1
          BY <2>2, <3>1, <4>1
        <4>3. \A e \in Of(c) : e # r => Runs(c)'[e] = Runs(c)[e]
          BY <2>2, <3>1, OfFinite
        <4> HIDE DEF r
        <4>4. SumOf(Runs(c)', Of(c)) = SumOf(Runs(c), Of(c)) + (Runs(c)'[r] - Runs(c)[r])
          BY <3>1, <4>1, <4>3, OfFinite, SumChange
        <4>5. uses'[c] = uses[c] + 1
          BY <2>1, <3>3, <1>t
        <4> QED BY <3>2, <4>2, <4>4, <4>5
      <3>4. CASE c # d
        <4>1. \A e \in Of(c) : e # r
          BY <3>4 DEF Of
        <4>2. \A e \in Of(c) : done'[e][1] = done[e][1]
          BY <2>2, <4>1, OfFinite
        <4>3. [e \in Of(c) |-> done'[e][1]] = [e \in Of(c) |-> done[e][1]]
          BY <4>2
        <4>4. Runs(c)' = Runs(c)
          BY <4>3 DEF Runs, Of
        <4>5. uses'[c] = uses[c]
          BY <2>1, <3>4, <1>t
        <4> QED BY <3>2, <4>4, <4>5
      <3> QED BY <3>3, <3>4
    <2>4. \A c \in Coupons : Of(c)' = Of(c)
      BY DEF Of
    <2> QED BY <2>3, <2>4 DEF SumInv
  <1> QED BY <1>1, <1>2, <1>3, <1>4, EffectsCases

\* The counter is at least the events that were dispatched, each of which was
\* handled, and at most what attempts and faults excuse.
LEMMA SumMeansExplained ==
    ASSUME EffectsTypeOK, CountInv, SumInv, RepeatInv, DecidedForAReason
    PROVE  UsesExplained
  <1> SUFFICES ASSUME NEW c \in Coupons
               PROVE  /\ Cardinality({e \in Of(c) : status[e] = "DISPATCHED"}) <= uses[c]
                      /\ uses[c] <= FoldFunction(+, 0, [e \in Of(c) |-> Excused(e)])
    BY DEF UsesExplained
  <1> DEFINE sent == {e \in Of(c) : status[e] = "DISPATCHED"}
             most == [e \in Of(c) |-> Excused(e)]
  <1>t. OutboxTypeOK
    BY DEF EffectsTypeOK
  <1>1. \A e \in Of(c) : /\ e \in Rows /\ 1 \in HandlersOf(e)
                         /\ attempts[e] \in Nat /\ faults \in Nat
    BY <1>t, OneHandlerEach, OfFinite DEF OutboxTypeOK
  <1>2. Cardinality(sent) <= uses[c]
    <2>1. sent \subseteq Seen(c)
      BY <1>1 DEF DecidedForAReason, Seen
    <2>2. Cardinality(sent) <= Cardinality(Seen(c)) /\ Cardinality(sent) \in Nat
      BY <2>1, SeenFinite, FS_Subset, FS_CardinalityType
    <2>3. Cardinality(Seen(c)) <= uses[c] /\ Cardinality(Seen(c)) \in Nat /\ uses[c] \in Nat
      BY SeenFinite DEF CountInv, EffectsTypeOK
    <2> HIDE DEF sent
    <2> QED BY <2>2, <2>3
  <1>3. uses[c] <= FoldFunction(+, 0, most)
    <2>1. most \in [Of(c) -> Int]
      BY <1>1 DEF Excused
    <2>2. ASSUME NEW e \in Of(c)
          PROVE  Runs(c)[e] <= most[e]
      <3>1. /\ done[e][1] <= attempts[e] + faults + 1
            /\ status[e] = "NONE" => done[e][1] = 0
        BY <1>1 DEF RepeatInv
      <3>2. Runs(c)[e] = done[e][1] /\ done[e][1] \in Int
        BY <1>t, RunsTyped
      <3>3. done[e][1] <= Excused(e)
        BY <1>1, <3>1, <3>2 DEF Excused
      <3> QED BY <3>2, <3>3
    <2>3. FoldFunction(+, 0, most) = SumOf(most, Of(c))
      <3>1. FoldFunction(+, 0, most) = SumOf(most, DOMAIN most)
        BY FoldIsSum
      <3> QED BY <3>1
    <2> HIDE DEF most
    <2>4. SumOf(Runs(c), Of(c)) <= SumOf(most, Of(c))
      BY <2>1, <2>2, <1>t, RunsTyped, OfFinite, SumGrows
    <2> QED BY <2>3, <2>4 DEF SumInv
  <1> QED BY <1>2, <1>3

\* No use of a coupon is lost, and repeats that the outbox does not account
\* for are not counted: for any number of coupons, events and workers, while
\* leases outlast their holders.
THEOREM UsesStayExplained ==
    ASSUME ~SlowWorkers
    PROVE  EffectsSpec => []UsesExplained
  <1>1. EffectsTypeOK /\ SumInv /\ [EffectsNext]_allVars => SumInv'
    BY SumStep
  <1>2. EffectsTypeOK /\ CountInv /\ [EffectsNext]_allVars => CountInv'
    BY CountStep
  <1>3. OutboxTypeOK /\ PromptInv /\ [OutboxNext]_vars => PromptInv'
    BY PromptStep
  <1>4. OutboxTypeOK /\ PromptInv /\ RepeatInv /\ [OutboxNext]_vars => RepeatInv'
    BY RepeatStep
  <1>5. OutboxTypeOK /\ WorkedInv /\ DecidedForAReason /\ [OutboxNext]_vars
        => WorkedInv' /\ DecidedForAReason'
    BY DecidedStep
  <1>6. EffectsTypeOK /\ CountInv /\ SumInv /\ RepeatInv /\ DecidedForAReason => UsesExplained
    BY SumMeansExplained
  <1>7. EffectsTypeOK => OutboxTypeOK
    BY DEF EffectsTypeOK
  <1>8. EffectsInit => OutboxInit
    BY DEF EffectsInit
  <1> QED BY <1>1, <1>2, <1>3, <1>4, <1>5, <1>6, <1>7, <1>8, EffectsTypeCorrect,
          EffectsAreOutbox, SumInitOK, CountInitOK, PromptInitOK, RepeatInit, WorkedInit,
          PTL DEF EffectsSpec
=============================================================================
