----------------------------- MODULE DripProofs -----------------------------
(***************************************************************************)
(* The safety properties of DripFeed for any number of orders, runs, ticks *)
(* that overlap, and faults.                                               *)
(***************************************************************************)
EXTENDS DripProps, OrderProofs, FiniteSetTheorems

(* Types.                                                                  *)

RunRows == [order : Drips, at : {"count", "complete"}]

\* What a step of a tick does to the run that the tick is in.
LEMMA RunTyped ==
    ASSUME DripTypeOK, NEW k \in Ticks, NEW r \in {NoRun} \cup RunRows,
           run' = [run EXCEPT ![k] = r]
    PROVE  /\ run' \in [Ticks -> {NoRun} \cup RunRows]
           /\ run'[k] = r
           /\ \A j \in Ticks : j # k => run'[j] = run[j]
  BY DEF DripTypeOK, RunRows

LEMMA RunRow ==
    ASSUME NEW o \in Drips, NEW at \in {"count", "complete"}
    PROVE  /\ [order |-> o, at |-> at] \in RunRows
           /\ [order |-> o, at |-> at].order = o
           /\ [order |-> o, at |-> at].at = at
           /\ [order |-> o, at |-> at] # NoRun
  <1>1. [order |-> o, at |-> at].order = o /\ [order |-> o, at |-> at].at = at
    OBVIOUS
  <1>2. at # "none"
    OBVIOUS
  <1>3. NoRun.at = "none"
    BY DEF NoRun
  <1> QED BY <1>1, <1>2, <1>3 DEF RunRows

LEMMA RunningRun ==
    ASSUME DripTypeOK, NEW k \in Ticks, run[k] # NoRun
    PROVE  /\ run[k].order \in Drips
           /\ run[k].at \in {"count", "complete"}
           /\ run[k] = [order |-> run[k].order, at |-> run[k].at]
  BY DEF DripTypeOK

LEMMA BatchEndsTyped ==
    ASSUME DripTypeOK, NEW k \in Ticks, BatchEnds(k)
    PROVE  /\ todo' \in [Ticks -> SUBSET Drips]
           /\ run' \in [Ticks -> {NoRun} \cup RunRows]
           /\ run'[k] = NoRun
           /\ \A j \in Ticks : j # k => run'[j] = run[j]
           /\ \A j \in Ticks : todo'[j] \subseteq todo[j]
  BY RunTyped DEF BatchEnds, DripTypeOK

LEMMA TakenTyped ==
    ASSUME DripTypeOK, NEW k \in Ticks, NEW o \in Drips, Taken(k, o)
    PROVE  /\ todo' \in [Ticks -> SUBSET Drips]
           /\ todo'[k] = todo[k] \ {o}
           /\ \A j \in Ticks : j # k => todo'[j] = todo[j]
  BY DEF Taken, DripTypeOK

\* The run of a tick after it was counted.
LEMMA CountRunEffect ==
    ASSUME DripTypeOK, NEW k \in Ticks, CountRun(k)
    PROVE  LET o == run[k].order
           IN  /\ o \in Drips /\ run[k] # NoRun /\ run[k].at = "count"
               /\ counted' = [counted EXCEPT ![o] = counted[o] + 1]
               /\ counted' \in [Drips -> Nat]
               /\ counted'[o] = counted[o] + 1
               /\ run' \in [Ticks -> {NoRun} \cup RunRows]
               /\ \A j \in Ticks : j # k => run'[j] = run[j]
               /\ run'[k] = NoRun \/ (/\ run'[k] # NoRun
                                      /\ run'[k].order = o
                                      /\ run'[k].at = "complete"
                                      /\ counted'[o] >= Runs[o])
  <1> DEFINE o == run[k].order
             r == [order |-> o, at |-> "complete"]
  <1>1. o \in Drips /\ run[k] # NoRun /\ run[k].at = "count"
    BY RunningRun DEF CountRun
  <1>2. r \in RunRows /\ r # NoRun /\ r.order = o /\ r.at = "complete"
    BY <1>1, RunRow
  <1>3. /\ counted' = [counted EXCEPT ![o] = counted[o] + 1]
        /\ run' = [run EXCEPT ![k] = IF counted[o] + 1 >= Runs[o] THEN r ELSE NoRun]
    BY DEF CountRun
  <1> HIDE DEF o, r
  <1>4. counted' \in [Drips -> Nat] /\ counted'[o] = counted[o] + 1
    BY <1>1, <1>3 DEF DripTypeOK
  <1>5. CASE counted[o] + 1 >= Runs[o]
    <2>1. run' = [run EXCEPT ![k] = r]
      BY <1>3, <1>5
    <2> QED BY <1>1, <1>2, <1>3, <1>4, <1>5, <2>1, RunTyped DEF o
  <1>6. CASE ~(counted[o] + 1 >= Runs[o])
    <2>1. run' = [run EXCEPT ![k] = NoRun]
      BY <1>3, <1>6
    <2> QED BY <1>1, <1>3, <1>4, <2>1, RunTyped DEF o
  <1> QED BY <1>5, <1>6

LEMMA SubmitRunEffect ==
    ASSUME DripTypeOK, NEW k \in Ticks, NEW o \in Drips, SubmitRun(k, o)
    PROVE  /\ run[k] = NoRun /\ o \in todo[k]
           /\ run' \in [Ticks -> {NoRun} \cup RunRows]
           /\ run'[k] # NoRun /\ run'[k].order = o /\ run'[k].at = "count"
           /\ \A j \in Ticks : j # k => run'[j] = run[j]
           /\ sent' \in [Drips -> Nat]
           /\ sent'[o] = sent[o] + 1
           /\ \A p \in Drips : p # o => sent'[p] = sent[p]
  <1> DEFINE r == [order |-> o, at |-> "count"]
  <1>1. r \in RunRows /\ r # NoRun /\ r.order = o /\ r.at = "count"
    BY RunRow
  <1>2. run' = [run EXCEPT ![k] = r] /\ run[k] = NoRun /\ o \in todo[k]
    BY DEF SubmitRun, IsNext
  <1> HIDE DEF r
  <1>3. /\ sent' \in [Drips -> Nat]
        /\ sent'[o] = sent[o] + 1
        /\ \A p \in Drips : p # o => sent'[p] = sent[p]
    BY DEF SubmitRun, Accepted, DripTypeOK
  <1> QED BY <1>1, <1>2, <1>3, RunTyped

LEMMA CompleteOrderEffect ==
    ASSUME DripTypeOK, NEW k \in Ticks, CompleteOrder(k)
    PROVE  /\ run[k] # NoRun /\ run[k].order \in Drips /\ run[k].at = "complete"
           /\ order' \in [Orders -> [status : Statuses, placed : BOOLEAN]]
           /\ \A p \in Orders : p # run[k].order => order'[p] = order[p]
           /\ run' \in [Ticks -> {NoRun} \cup RunRows]
           /\ run'[k] = NoRun
           /\ \A j \in Ticks : j # k => run'[j] = run[j]
  <1> DEFINE o == run[k].order
             new == [status |-> "COMPLETED", placed |-> order[o].placed]
  <1>1. run[k] # NoRun /\ o \in Drips /\ run[k].at = "complete"
    BY RunningRun DEF CompleteOrder
  <1>2. o \in Orders
    BY <1>1, DripAssumption
  <1>3. order[o] \in [status : Statuses, placed : BOOLEAN]
    BY <1>2 DEF DripTypeOK, OrderTypeOK
  <1>4. new \in [status : Statuses, placed : BOOLEAN]
    BY <1>3 DEF Statuses, Ended
  <1>5. order' = [order EXCEPT ![o] = new] /\ run' = [run EXCEPT ![k] = NoRun]
    BY DEF CompleteOrder, SetStatus
  <1> HIDE DEF new
  <1>6. /\ order' \in [Orders -> [status : Statuses, placed : BOOLEAN]]
        /\ \A p \in Orders : p # o => order'[p] = order[p]
    BY <1>2, <1>4, <1>5 DEF DripTypeOK, OrderTypeOK
  <1> QED BY <1>1, <1>5, <1>6, RunTyped

LEMMA DripTypeStep ==
    ASSUME DripTypeOK, [DripNext]_allVars
    PROVE  DripTypeOK'
  <1>1. ASSUME [OrderNext]_vars, UNCHANGED dripVars
        PROVE  DripTypeOK'
    BY <1>1, OrderTypeStep DEF dripVars, DripTypeOK
  <1>2. ASSUME UNCHANGED vars
        PROVE  OrderTypeOK'
    BY <1>2, OrderTypeStep DEF DripTypeOK
  <1>3. ASSUME NEW k \in Ticks, Tick(k)
        PROVE  DripTypeOK'
    <2>1. CASE FindDue(k)
      <3>1. todo' \in [Ticks -> SUBSET Drips]
        BY <2>1 DEF FindDue, WithRunsLeft, DripTypeOK
      <3> QED BY <1>2, <2>1, <3>1 DEF FindDue, DripTypeOK
    <2>2. ASSUME NEW o \in Drips, SkipRun(k, o)
          PROVE  DripTypeOK'
      BY <1>2, <2>2, TakenTyped DEF SkipRun, DripTypeOK
    <2>3. ASSUME NEW o \in Drips, SubmitRun(k, o)
          PROVE  DripTypeOK'
      BY <1>2, <2>3, TakenTyped, SubmitRunEffect DEF SubmitRun, DripTypeOK, RunRows
    <2>4. ASSUME NEW o \in Drips, SubmitFails(k, o)
          PROVE  DripTypeOK'
      BY <1>2, <2>4, BatchEndsTyped DEF SubmitFails, DripTypeOK, RunRows
    <2>5. ASSUME NEW o \in Drips, AnswerLost(k, o)
          PROVE  DripTypeOK'
      <3>1. OrderTypeOK'
        BY <2>5 DEF AnswerLost, Fault, DripTypeOK, OrderTypeOK
      <3>2. sent' \in [Drips -> Nat]
        BY <2>5 DEF AnswerLost, Accepted, DripTypeOK
      <3> QED BY <2>5, <3>1, <3>2, BatchEndsTyped DEF AnswerLost, DripTypeOK, RunRows
    <2>6. CASE CountRun(k)
      BY <1>2, <2>6, CountRunEffect DEF CountRun, DripTypeOK, RunRows
    <2>7. CASE CompleteOrder(k)
      <3>1. OrderTypeOK'
        BY <2>7, CompleteOrderEffect DEF CompleteOrder, DripTypeOK, OrderTypeOK
      <3> QED BY <2>7, <3>1, CompleteOrderEffect DEF CompleteOrder, DripTypeOK, RunRows
    <2>8. CASE TickBreaks(k)
      <3>1. OrderTypeOK'
        BY <2>8 DEF TickBreaks, Fault, DripTypeOK, OrderTypeOK
      <3> QED BY <2>8, <3>1, BatchEndsTyped DEF TickBreaks, DripTypeOK, RunRows
    <2> QED BY <1>3, <2>1, <2>2, <2>3, <2>4, <2>5, <2>6, <2>7, <2>8 DEF Tick
  <1>4. ASSUME NEW o \in Drips, PauseDripFeed(o) \/ ResumeDripFeed(o)
        PROVE  DripTypeOK'
    BY <1>2, <1>4 DEF PauseDripFeed, ResumeDripFeed, DripTypeOK
  <1>5. CASE UNCHANGED allVars
    BY <1>1, <1>5 DEF allVars
  <1> QED BY <1>1, <1>3, <1>4, <1>5 DEF DripNext

-----------------------------------------------------------------------------
(* What a step does to the runs of one order.                              *)

\* The order of a run is not in the rest of its batch, and is complete if the
\* run goes on to complete it.
RunInv ==
    \A k \in Ticks :
        run[k] # NoRun =>
            /\ run[k].order \notin todo[k]
            /\ run[k].at = "complete" => counted[run[k].order] >= Runs[run[k].order]

\* Ticks that may still count a run of o.
Underway(o) == {k \in Ticks : o \in todo[k]} \cup Counting(o)

Same(o) == counted'[o] = counted[o] /\ sent'[o] = sent[o]

\* Nothing is sent or counted; batches may end.
Quiet(o) ==
    /\ Same(o)
    /\ Counting(o)' = Counting(o) /\ Underway(o)' \subseteq Underway(o)
    /\ faults' \in {faults, faults + 1}
\* The order is read into a batch.
Found(o) ==
    /\ Same(o)
    /\ Counting(o)' = Counting(o) /\ counted[o] < Runs[o]
    /\ faults' = faults
\* k sends a run, to count it ...
SentBy(k, o) ==
    /\ counted'[o] = counted[o] /\ sent'[o] = sent[o] + 1
    /\ k \notin Counting(o) /\ Counting(o)' = Counting(o) \cup {k}
    /\ Underway(o)' \subseteq Underway(o)
    /\ faults' = faults
\* ... or does not learn that it did.
SentUnheard(o) ==
    /\ counted'[o] = counted[o] /\ sent'[o] = sent[o] + 1
    /\ Counting(o)' = Counting(o) /\ Underway(o)' \subseteq Underway(o)
    /\ faults' = faults + 1
CountedBy(k, o) ==
    /\ counted'[o] = counted[o] + 1 /\ sent'[o] = sent[o]
    /\ k \in Counting(o) /\ Counting(o)' = Counting(o) \ {k}
    /\ Underway(o)' \subseteq Underway(o) \ {k}
    /\ faults' = faults
\* k breaks off and leaves a run uncounted.
GivenUpBy(k, o) ==
    /\ Same(o)
    /\ k \in Counting(o) /\ Counting(o)' = Counting(o) \ {k}
    /\ Underway(o)' \subseteq Underway(o)
    /\ faults' = faults + 1

LEMMA FaultsGrow == [OrderNext]_vars => faults' \in {faults, faults + 1}
  <1>1. ASSUME NEW t \in Tasks, NEW o \in Orders, Arrive(t, o)
        PROVE  faults' = faults
    BY <1>1 DEF Arrive, CreateOrder, RefillOrder, CancelOrder, PollOrder,
       CheckTimedOutOrder, ForceFailOrder, AdminForceStatus, AdminRefundOrder,
       AdminRead, Read
  <1>2. ASSUME NEW t \in Tasks, GoesOn(t)
        PROVE  faults' \in {faults, faults + 1}
    BY <1>2 DEF GoesOn, PayRefused, PayCommit, WalkSucceeds, WalkExhausted,
       RefillRefused, NotePlace, WriteStatus, TellEvent, StatementFails, Die, Fault
  <1> QED BY <1>1, <1>2, StepCases DEF vars, GuestOrderPlaced, PayRead

LEMMA EffectOnOrder ==
    ASSUME DripTypeOK, RunInv, [DripNext]_allVars, NEW o \in Drips
    PROVE  \/ Quiet(o) \/ Found(o) \/ SentUnheard(o)
           \/ \E k \in Ticks : SentBy(k, o) \/ CountedBy(k, o) \/ GivenUpBy(k, o)
  <1> USE DEF Same
  <1>1. ASSUME UNCHANGED dripVars, faults' \in {faults, faults + 1}
        PROVE  Quiet(o)
    BY <1>1 DEF dripVars, Quiet, Counting, Underway
  <1>2. CASE OrderNext /\ UNCHANGED dripVars
    <2>1. faults' \in {faults, faults + 1}
      BY <1>2, FaultsGrow
    <2> QED BY <1>1, <1>2, <2>1
  <1>3. ASSUME NEW k \in Ticks, Tick(k)
        PROVE  \/ Quiet(o) \/ Found(o) \/ SentUnheard(o)
               \/ SentBy(k, o) \/ CountedBy(k, o) \/ GivenUpBy(k, o)
    <2>1. CASE FindDue(k)
      <3>1. Same(o) /\ Counting(o)' = Counting(o) /\ faults' = faults
        BY <2>1 DEF FindDue, vars, Counting
      <3>2. CASE o \in todo'[k]
        <4>1. o \in WithRunsLeft
          BY <2>1, <3>2 DEF FindDue, DripTypeOK
        <4> QED BY <3>1, <4>1 DEF Found, WithRunsLeft
      <3>3. CASE o \notin todo'[k]
        <4>1. \A j \in Ticks : j # k => todo'[j] = todo[j]
          BY <2>1 DEF FindDue, DripTypeOK
        <4>2. Underway(o)' \subseteq Underway(o)
          BY <3>1, <3>3, <4>1 DEF Underway
        <4> QED BY <3>1, <4>2 DEF Quiet
      <3> QED BY <3>2, <3>3
    <2>2. ASSUME NEW p \in Drips, SkipRun(k, p)
          PROVE  Quiet(o)
      <3>1. \A j \in Ticks : todo'[j] \subseteq todo[j]
        BY <2>2, TakenTyped DEF SkipRun, DripTypeOK
      <3>2. Same(o) /\ Counting(o)' = Counting(o) /\ faults' = faults
        BY <2>2 DEF SkipRun, vars, Counting
      <3>3. Underway(o)' \subseteq Underway(o)
        BY <3>1, <3>2 DEF Underway
      <3> QED BY <3>2, <3>3 DEF Quiet
    <2>3. ASSUME NEW p \in Drips, SubmitRun(k, p)
          PROVE  Quiet(o) \/ SentBy(k, o)
      <3>1. \A j \in Ticks : todo'[j] \subseteq todo[j]
        BY <2>3, TakenTyped DEF SubmitRun, DripTypeOK
      <3>2. counted'[o] = counted[o] /\ faults' = faults
        BY <2>3 DEF SubmitRun, vars
      <3>3. CASE p = o
        <4>1. /\ k \notin Counting(o) /\ o \in todo[k] /\ sent'[o] = sent[o] + 1
              /\ Counting(o)' = Counting(o) \cup {k}
          BY <2>3, <3>3, SubmitRunEffect DEF Counting
        <4>2. Underway(o)' \subseteq Underway(o)
          BY <3>1, <4>1 DEF Underway
        <4> QED BY <3>2, <4>1, <4>2 DEF SentBy
      <3>4. CASE p # o
        <4>1. sent'[o] = sent[o] /\ Counting(o)' = Counting(o)
          BY <2>3, <3>4, SubmitRunEffect DEF Counting
        <4>2. Underway(o)' \subseteq Underway(o)
          BY <3>1, <4>1 DEF Underway
        <4> QED BY <3>2, <4>1, <4>2 DEF Quiet
      <3> QED BY <3>3, <3>4
    <2>4. ASSUME BatchEnds(k), run[k] = NoRun
          PROVE  Counting(o)' = Counting(o) /\ Underway(o)' \subseteq Underway(o)
      <3>1. Counting(o)' = Counting(o)
        BY <2>4, BatchEndsTyped DEF Counting
      <3> QED BY <2>4, <3>1, BatchEndsTyped DEF Underway
    <2>5. ASSUME NEW p \in Drips, SubmitFails(k, p)
          PROVE  Quiet(o)
      BY <2>4, <2>5 DEF SubmitFails, IsNext, vars, Quiet
    <2>6. ASSUME NEW p \in Drips, AnswerLost(k, p)
          PROVE  Quiet(o) \/ SentUnheard(o)
      <3>1. /\ Counting(o)' = Counting(o) /\ Underway(o)' \subseteq Underway(o)
            /\ counted'[o] = counted[o] /\ faults' = faults + 1
        BY <2>4, <2>6 DEF AnswerLost, IsNext, Fault
      <3>2. sent'[o] = IF p = o THEN sent[o] + 1 ELSE sent[o]
        BY <2>6 DEF AnswerLost, Accepted, DripTypeOK
      <3> QED BY <3>1, <3>2 DEF Quiet, SentUnheard
    <2>7. CASE CountRun(k)
      <3>1. todo' = todo /\ sent'[o] = sent[o] /\ faults' = faults
        BY <2>7 DEF CountRun, vars
      <3>2. CASE run[k].order = o
        <4>1. /\ k \in Counting(o) /\ counted'[o] = counted[o] + 1
              /\ Counting(o)' = Counting(o) \ {k}
          BY <2>7, <3>2, CountRunEffect DEF Counting
        <4>2. o \notin todo[k]
          BY <2>7, <3>2, CountRunEffect DEF RunInv
        <4>3. Underway(o)' \subseteq Underway(o) \ {k}
          BY <3>1, <4>1, <4>2 DEF Underway
        <4> QED BY <3>1, <4>1, <4>3 DEF CountedBy
      <3>3. CASE run[k].order # o
        <4>1. counted'[o] = counted[o]
          BY <2>7, <3>3, CountRunEffect DEF DripTypeOK
        <4>2. Counting(o)' = Counting(o)
          BY <2>7, <3>3, CountRunEffect DEF Counting
        <4> QED BY <3>1, <4>1, <4>2 DEF Quiet, Underway
      <3> QED BY <3>2, <3>3
    <2>8. CASE CompleteOrder(k)
      <3>1. Same(o) /\ todo' = todo /\ faults' = faults
        BY <2>8 DEF CompleteOrder
      <3>2. Counting(o)' = Counting(o)
        BY <2>8, CompleteOrderEffect DEF Counting
      <3> QED BY <3>1, <3>2 DEF Quiet, Underway
    <2>9. CASE TickBreaks(k)
      <3>1. Same(o) /\ faults' = faults + 1 /\ BatchEnds(k)
        BY <2>9 DEF TickBreaks, Fault
      <3>2. CASE k \in Counting(o)
        <4>1. Counting(o)' = Counting(o) \ {k}
          BY <3>1, <3>2, BatchEndsTyped DEF Counting
        <4>2. Underway(o)' \subseteq Underway(o)
          BY <3>1, <4>1, BatchEndsTyped DEF Underway
        <4> QED BY <3>1, <3>2, <4>1, <4>2 DEF GivenUpBy
      <3>3. CASE k \notin Counting(o)
        <4>1. Counting(o)' = Counting(o)
          BY <3>1, <3>3, BatchEndsTyped DEF Counting
        <4>2. Underway(o)' \subseteq Underway(o)
          BY <3>1, <4>1, BatchEndsTyped DEF Underway
        <4> QED BY <3>1, <4>1, <4>2 DEF Quiet
      <3> QED BY <3>2, <3>3
    <2> QED BY <1>3, <2>1, <2>2, <2>3, <2>5, <2>6, <2>7, <2>8, <2>9 DEF Tick
  <1>4. ASSUME NEW p \in Drips, PauseDripFeed(p) \/ ResumeDripFeed(p)
        PROVE  Quiet(o)
    BY <1>4 DEF PauseDripFeed, ResumeDripFeed, vars, Quiet, Counting, Underway
  <1>5. CASE UNCHANGED allVars
    BY <1>1, <1>5 DEF allVars, vars
  <1> QED BY <1>2, <1>3, <1>4, <1>5 DEF DripNext

-----------------------------------------------------------------------------
(* How many runs.                                                          *)

Balanced(o) ==
    /\ counted[o] + Cardinality(Counting(o)) <= sent[o] + 1
    /\ sent[o] + 1 <= counted[o] + Cardinality(Counting(o)) + faults
    /\ counted[o] + Cardinality(Underway(o)) <= Runs[o] + (Cardinality(Ticks) - 1)

LEMMA TicksFinite ==
    ASSUME NEW o
    PROVE  /\ IsFiniteSet(Counting(o)) /\ IsFiniteSet(Underway(o))
           /\ Cardinality(Counting(o)) \in Nat /\ Cardinality(Underway(o)) \in Nat
           /\ Cardinality(Ticks) \in Nat
           /\ Cardinality(Counting(o)) <= Cardinality(Underway(o))
           /\ Cardinality(Underway(o)) <= Cardinality(Ticks)
  <1>1. /\ Counting(o) \in SUBSET Underway(o) /\ Underway(o) \in SUBSET Ticks
        /\ IsFiniteSet(Ticks)
    BY DripAssumption DEF Counting, Underway
  <1> QED BY <1>1, FS_Subset, FS_CardinalityType

LEMMA BalancedStep ==
    ASSUME DripTypeOK, DripTypeOK', RunInv, [DripNext]_allVars,
           NEW o \in Drips, Balanced(o)
    PROVE  Balanced(o)'
  <1> DEFINE c == Cardinality(Counting(o))  d == Cardinality(Counting(o)')
             u == Cardinality(Underway(o))  v == Cardinality(Underway(o)')
             T == Cardinality(Ticks)
             Goal == /\ counted'[o] + d <= sent'[o] + 1
                     /\ sent'[o] + 1 <= counted'[o] + d + faults'
                     /\ counted'[o] + v <= Runs[o] + (T - 1)
  <1>1. /\ c \in Nat /\ u \in Nat /\ T \in Nat
        /\ IsFiniteSet(Counting(o)) /\ IsFiniteSet(Underway(o))
    BY TicksFinite
  <1>2. d \in Nat /\ v \in Nat /\ d <= v /\ v <= T
    <2>1. /\ Counting(o)' \in SUBSET Underway(o)' /\ Underway(o)' \in SUBSET Ticks
          /\ IsFiniteSet(Ticks)
      BY DripAssumption DEF Counting, Underway
    <2> QED BY <2>1, FS_Subset, FS_CardinalityType
  <1>3. /\ counted[o] \in Nat /\ sent[o] \in Nat /\ faults \in Nat /\ Runs[o] \in Nat
        /\ counted'[o] \in Nat /\ sent'[o] \in Nat
    BY DripAssumption DEF DripTypeOK, OrderTypeOK
  <1>4. /\ counted[o] + c <= sent[o] + 1
        /\ sent[o] + 1 <= counted[o] + c + faults
        /\ counted[o] + u <= Runs[o] + (T - 1)
    BY DEF Balanced
  <1>5. Underway(o)' \subseteq Underway(o) => v <= u
    BY <1>1, FS_Subset
  <1>6. SUFFICES Goal
    BY DEF Balanced
  <1>7. CASE Quiet(o)
    <2>1. d = c /\ v <= u
      BY <1>5, <1>7 DEF Quiet
    <2> QED BY <1>1, <1>2, <1>3, <1>4, <1>7, <2>1 DEF Quiet, Same
  <1>8. CASE Found(o)
    <2>1. d = c
      BY <1>8 DEF Found
    <2> HIDE DEF c, d, u, v, T
    <2> QED BY <1>1, <1>2, <1>3, <1>4, <1>8, <2>1 DEF Found, Same
  <1>9. CASE SentUnheard(o)
    <2>1. d = c /\ v <= u
      BY <1>5, <1>9 DEF SentUnheard
    <2> QED BY <1>1, <1>2, <1>3, <1>4, <1>9, <2>1 DEF SentUnheard
  <1>10. ASSUME NEW k \in Ticks, SentBy(k, o)
         PROVE  Goal
    <2>1. d = c + 1 /\ v <= u
      BY <1>1, <1>5, <1>10, FS_AddElement DEF SentBy
    <2> QED BY <1>1, <1>2, <1>3, <1>4, <1>10, <2>1 DEF SentBy
  <1>11. ASSUME NEW k \in Ticks, CountedBy(k, o)
         PROVE  Goal
    <2>1. d = c - 1
      BY <1>1, <1>11, FS_RemoveElement DEF CountedBy
    <2>2. v <= u - 1
      <3>1. k \in Underway(o)
        BY <1>11 DEF CountedBy, Underway
      <3>2. /\ IsFiniteSet(Underway(o) \ {k})
            /\ Cardinality(Underway(o) \ {k}) = u - 1
        BY <1>1, <3>1, FS_RemoveElement
      <3>3. Underway(o)' \in SUBSET (Underway(o) \ {k})
        BY <1>11 DEF CountedBy
      <3> QED BY <3>2, <3>3, FS_Subset
    <2> QED BY <1>1, <1>2, <1>3, <1>4, <1>11, <2>1, <2>2 DEF CountedBy
  <1>12. ASSUME NEW k \in Ticks, GivenUpBy(k, o)
         PROVE  Goal
    <2>1. d = c - 1 /\ v <= u
      BY <1>1, <1>5, <1>12, FS_RemoveElement DEF GivenUpBy
    <2> QED BY <1>1, <1>2, <1>3, <1>4, <1>12, <2>1 DEF GivenUpBy, Same
  <1> QED BY <1>7, <1>8, <1>9, <1>10, <1>11, <1>12, EffectOnOrder

-----------------------------------------------------------------------------
LEMMA RunInvStep ==
    ASSUME DripTypeOK, RunInv, [DripNext]_allVars
    PROVE  RunInv'
  <1>1. ASSUME UNCHANGED dripVars
        PROVE  RunInv'
    BY <1>1 DEF dripVars, RunInv
  <1>2. ASSUME NEW k \in Ticks, Tick(k)
        PROVE  RunInv'
    <2>1. CASE FindDue(k)
      <3>1. /\ run[k] = NoRun /\ run' = run /\ counted' = counted
            /\ \A j \in Ticks : j # k => todo'[j] = todo[j]
        BY <2>1 DEF FindDue, DripTypeOK
      <3> QED BY <3>1 DEF RunInv
    <2>2. ASSUME NEW o \in Drips, SkipRun(k, o)
          PROVE  RunInv'
      <3>1. \A j \in Ticks : todo'[j] \subseteq todo[j]
        BY <2>2, TakenTyped DEF SkipRun, DripTypeOK
      <3> QED BY <2>2, <3>1 DEF SkipRun, RunInv
    <2>3. ASSUME NEW o \in Drips, SubmitRun(k, o)
          PROVE  RunInv'
      <3>1. /\ o \notin todo'[k] /\ counted' = counted
            /\ \A j \in Ticks : j # k => todo'[j] = todo[j]
        BY <2>3, TakenTyped DEF SubmitRun, DripTypeOK
      <3> QED BY <2>3, <3>1, SubmitRunEffect DEF RunInv
    <2>4. ASSUME BatchEnds(k), counted' = counted
          PROVE  RunInv'
      BY <2>4, BatchEndsTyped DEF RunInv
    <2>5. ASSUME NEW o \in Drips, SubmitFails(k, o) \/ AnswerLost(k, o)
          PROVE  RunInv'
      BY <2>4, <2>5 DEF SubmitFails, AnswerLost
    <2>6. CASE CountRun(k)
      <3>1. /\ todo' = todo /\ run[k].order \notin todo[k]
            /\ \A o \in Drips : counted'[o] >= counted[o]
        BY <2>6, CountRunEffect DEF CountRun, RunInv, DripTypeOK
      <3>2. ASSUME NEW j \in Ticks, run'[j] # NoRun
            PROVE  /\ run'[j].order \notin todo'[j]
                   /\ run'[j].at = "complete" =>
                         counted'[run'[j].order] >= Runs[run'[j].order]
        <4>1. CASE j = k
          BY <2>6, <3>1, <3>2, <4>1, CountRunEffect
        <4>2. CASE j # k
          <5>1. run'[j] = run[j] /\ run[j].order \in Drips
            BY <2>6, <3>2, <4>2, CountRunEffect, RunningRun
          <5>2. /\ counted[run[j].order] \in Nat /\ counted'[run[j].order] \in Nat
                /\ Runs[run[j].order] \in Nat
            BY <2>6, <5>1, CountRunEffect, DripAssumption DEF DripTypeOK
          <5> QED BY <3>1, <3>2, <5>1, <5>2 DEF RunInv
        <4> QED BY <4>1, <4>2
      <3> QED BY <3>2 DEF RunInv
    <2>7. CASE CompleteOrder(k)
      BY <2>7, CompleteOrderEffect DEF CompleteOrder, RunInv
    <2>8. CASE TickBreaks(k)
      BY <2>4, <2>8 DEF TickBreaks
    <2> QED BY <1>2, <2>1, <2>2, <2>3, <2>5, <2>6, <2>7, <2>8 DEF Tick
  <1>3. ASSUME NEW o \in Drips, PauseDripFeed(o) \/ ResumeDripFeed(o)
        PROVE  RunInv'
    BY <1>3 DEF PauseDripFeed, ResumeDripFeed, RunInv
  <1> QED BY <1>1, <1>2, <1>3 DEF DripNext, allVars

-----------------------------------------------------------------------------
DripInv == DripTypeOK /\ RunInv /\ (\A o \in Drips : Balanced(o))

LEMMA DripInitOK == DripInit => DripInv
  <1> SUFFICES ASSUME DripInit PROVE DripInv
    OBVIOUS
  <1>1. DripTypeOK
    <2>1. OrderTypeOK
      BY OrderAssumption DEF DripInit, OrderInit, OrderTypeOK, Statuses
    <2> QED BY <2>1 DEF DripInit, DripTypeOK
  <1>2. RunInv
    BY DEF DripInit, RunInv
  <1>3. ASSUME NEW o \in Drips
        PROVE  Balanced(o)
    <2>1. Counting(o) = {} /\ Underway(o) = {}
      BY DEF DripInit, Counting, Underway
    <2>2. /\ Cardinality(Counting(o)) = 0 /\ Cardinality(Underway(o)) = 0
          /\ Cardinality(Ticks) \in Nat
      BY <2>1, FS_EmptySet, TicksFinite
    <2>3. counted[o] = 1 /\ sent[o] = 0 /\ faults = 0
      BY DEF DripInit, OrderInit
    <2>4. Runs[o] \in Nat /\ Runs[o] >= 2
      BY DripAssumption
    <2> QED BY <2>2, <2>3, <2>4 DEF Balanced
  <1> QED BY <1>1, <1>2, <1>3 DEF DripInv

LEMMA DripStep == DripInv /\ [DripNext]_allVars => DripInv'
  <1> SUFFICES ASSUME DripInv, [DripNext]_allVars
               PROVE  DripInv'
    OBVIOUS
  <1>1. DripTypeOK' /\ RunInv'
    BY DripTypeStep, RunInvStep DEF DripInv
  <1>2. ASSUME NEW o \in Drips
        PROVE  Balanced(o)'
    BY <1>1, BalancedStep DEF DripInv
  <1> QED BY <1>1, <1>2 DEF DripInv

LEMMA DripInvariant == DripSpec => []DripInv
  BY DripInitOK, DripStep, PTL DEF DripSpec

\* The orders, their runs and the batches hold what their rows and variables
\* can, whoever else writes the orders.
THEOREM DripTypeCorrect == DripSpec => []DripTypeOK
  <1>1. DripInv => DripTypeOK
    BY DEF DripInv
  <1> QED BY <1>1, DripInvariant, PTL

\* Every run that is counted was taken by a panel, and every run taken is
\* counted but for failures, for any number of ticks that overlap.
THEOREM RunsStayPaidFor == DripSpec => []RunsArePaidFor
  <1>1. DripInv => RunsArePaidFor
    <2> SUFFICES ASSUME DripInv, NEW o \in Drips
                 PROVE  /\ counted[o] <= sent[o] + 1
                        /\ sent[o] + 1 <= counted[o] + Cardinality(Counting(o)) + faults
      BY DEF RunsArePaidFor
    <2>1. counted[o] \in Nat /\ sent[o] \in Nat /\ Cardinality(Counting(o)) \in Nat
      BY TicksFinite DEF DripInv, DripTypeOK
    <2> QED BY <2>1 DEF DripInv, Balanced
  <1> QED BY <1>1, DripInvariant, PTL

\* An order gets at most one run too many for each further tick at the same
\* time, and one for each failure.
THEOREM OverrunsStayBounded == DripSpec => []OverrunsBounded
  <1>1. DripInv => OverrunsBounded
    <2> SUFFICES ASSUME DripInv, NEW o \in Drips
                 PROVE  sent[o] + 1 <= Runs[o] + (Cardinality(Ticks) - 1) + faults
      BY DEF OverrunsBounded
    <2>1. /\ counted[o] \in Nat /\ sent[o] \in Nat /\ faults \in Nat /\ Runs[o] \in Nat
          /\ Cardinality(Counting(o)) \in Nat /\ Cardinality(Underway(o)) \in Nat
          /\ Cardinality(Ticks) \in Nat
          /\ Cardinality(Counting(o)) <= Cardinality(Underway(o))
      BY TicksFinite, DripAssumption DEF DripInv, DripTypeOK, OrderTypeOK
    <2> QED BY <2>1 DEF DripInv, Balanced
  <1> QED BY <1>1, DripInvariant, PTL

-----------------------------------------------------------------------------
(* Who writes an order.                                                    *)

\* A handler that writes an order moves its task on, unless the order came
\* from a guest's cart.
LEMMA WritersMoveOn ==
    ASSUME OrderTypeOK, [OrderNext]_vars, NEW o \in Orders \ Prepaid, task' = task
    PROVE  order'[o] = order[o]
  <1>1. ASSUME NEW g \in Orders, GuestOrderPlaced(g)
        PROVE  order'[o] = order[o]
    BY <1>1 DEF GuestOrderPlaced, SetStatus, OrderTypeOK
  <1>2. ASSUME NEW t \in Tasks, NEW p \in Orders, Arrive(t, p)
        PROVE  order' = order
    <2>1. ASSUME NEW kind \in Kinds, NEW script, Begin(t, kind, p, script)
          PROVE  FALSE
      <3> DEFINE f == Fresh(kind, p, script)
      <3>1. f.kind # "none" /\ Resting.kind = "none"
        BY DEF Fresh, Resting, Kinds
      <3>2. task[t] = Resting /\ task' = [task EXCEPT ![t] = f]
        BY <2>1 DEF Begin
      <3> HIDE DEF f
      <3>3. task'[t] = f
        BY <3>2 DEF OrderTypeOK
      <3> QED BY <3>1, <3>2, <3>3
    <2>2. "create" \in Kinds /\ "plain" \in Kinds
      BY DEF Kinds
    <2>3. ~CreateOrder(t, p) /\ ~RefillOrder(t, p)
      BY <2>1, <2>2 DEF CreateOrder, RefillOrder
    <2> QED BY <1>2, <2>3 DEF Arrive, CancelOrder, PollOrder, CheckTimedOutOrder,
            ForceFailOrder, AdminForceStatus, AdminRefundOrder, AdminRead, Read
  <1>3. ASSUME NEW t \in Tasks, NotePlace(t) \/ WriteStatus(t)
        PROVE  FALSE
    <2> DEFINE rest == Tail(task[t].script)
               f == Fresh(task[t].kind, task[t].order, rest)
    <2>1. task[t] # Resting /\ task[t].script # <<>> /\ Done(t)
      BY <1>3 DEF NotePlace, WriteStatus, Facing
    <2>2. Len(rest) # Len(task[t].script)
      <3>1. task[t].script \in Seq(Statement)
        BY <2>1, RunningTask
      <3> HIDE DEF Statement
      <3> QED BY <2>1, <3>1
    <2>3. f.script = rest
      BY DEF Fresh
    <2>4. task' = [task EXCEPT ![t] = IF rest = <<>> THEN Resting ELSE f]
      BY <2>1 DEF Done, Go
    <2> HIDE DEF rest, f
    <2>5. task'[t] = Resting \/ task'[t] = f
      BY <2>4 DEF OrderTypeOK
    <2> QED BY <2>1, <2>2, <2>3, <2>5
  <1>4. ASSUME NEW t \in Tasks, GoesOn(t)
        PROVE  order' = order
    BY <1>3, <1>4 DEF GoesOn, PayRefused, PayCommit, WalkSucceeds, WalkExhausted,
       RefillRefused, TellEvent, StatementFails, Die
  <1> QED BY <1>1, <1>2, <1>4, StepCases DEF vars, PayRead

\* What a step of the drip feed does to the orders and the tasks.
LEMMA DripWrites ==
    ASSUME DripTypeOK, NEW k \in Ticks, Tick(k)
    PROVE  /\ task' = task
           /\ \/ order' = order
              \/ CompleteOrder(k)
  BY DEF Tick, FindDue, SkipRun, SubmitRun, SubmitFails, AnswerLost, CountRun,
     CompleteOrder, TickBreaks, vars

\* The worker completes no order before panels took as many runs as were
\* ordered, whatever was counted by whom.
THEOREM CompletesInFull == DripSpec => CompletedInFull
  <1> DEFINE Full == \A o \in Drips :
                        order'[o] # order[o] /\ task' = task => sent[o] + 1 >= Runs[o]
  <1>1. DripInv /\ [DripNext]_allVars => [Full]_allVars
    <2> SUFFICES ASSUME DripInv, [DripNext]_allVars, NEW o \in Drips,
                        order'[o] # order[o], task' = task
                 PROVE  sent[o] + 1 >= Runs[o]
      OBVIOUS
    <2>1. OrderTypeOK /\ DripTypeOK /\ RunInv /\ Balanced(o)
      BY DEF DripInv, DripTypeOK
    <2>2. o \in Orders \ Prepaid
      BY DripAssumption
    <2>3. ~[OrderNext]_vars
      BY <2>1, <2>2, WritersMoveOn
    <2>4. PICK k \in Ticks : Tick(k)
      BY <2>3 DEF DripNext, PauseDripFeed, ResumeDripFeed, allVars
    <2>5. CompleteOrder(k)
      BY <2>1, <2>4, DripWrites
    <2>6. run[k] # NoRun /\ run[k].at = "complete" /\ run[k].order = o
      BY <2>1, <2>2, <2>5, CompleteOrderEffect
    <2>7. counted[o] >= Runs[o]
      BY <2>1, <2>6 DEF RunInv
    <2>8. /\ counted[o] \in Nat /\ sent[o] \in Nat /\ Runs[o] \in Nat
          /\ Cardinality(Counting(o)) \in Nat
      BY <2>1, TicksFinite, DripAssumption DEF DripTypeOK
    <2> QED BY <2>1, <2>7, <2>8 DEF Balanced
  <1> QED BY <1>1, DripInvariant, PTL DEF DripSpec, CompletedInFull

-----------------------------------------------------------------------------
\* An order that is paused or has ended gets into no batch.
LEMMA StaysOut ==
    ASSUME DripTypeOK, [DripNext]_allVars, NEW o \in Drips,
           o \in paused \/ order[o].status \in Ended, ~InBatch(o)
    PROVE  sent'[o] = sent[o] /\ counted'[o] = counted[o] /\ ~InBatch(o)'
  <1>1. \A j \in Ticks : o \notin todo[j] /\ (run[j] = NoRun \/ run[j].order # o)
    BY DEF InBatch
  <1>2. ASSUME UNCHANGED <<counted, sent, todo, run>>
        PROVE  sent'[o] = sent[o] /\ counted'[o] = counted[o] /\ ~InBatch(o)'
    BY <1>2 DEF InBatch
  <1>3. ASSUME NEW k \in Ticks, Tick(k)
        PROVE  sent'[o] = sent[o] /\ counted'[o] = counted[o] /\ ~InBatch(o)'
    <2>1. CASE FindDue(k)
      <3>1. o \notin WithRunsLeft
        BY DEF WithRunsLeft, Ended
      <3>2. \A j \in Ticks : o \notin todo'[j]
        BY <1>1, <2>1, <3>1 DEF FindDue, DripTypeOK
      <3> QED BY <1>1, <2>1, <3>2 DEF FindDue, InBatch
    <2>2. ASSUME NEW p \in Drips, SkipRun(k, p)
          PROVE  sent'[o] = sent[o] /\ counted'[o] = counted[o] /\ ~InBatch(o)'
      <3>1. \A j \in Ticks : o \notin todo'[j]
        BY <1>1, <2>2, TakenTyped DEF SkipRun, DripTypeOK
      <3> QED BY <1>1, <2>2, <3>1 DEF SkipRun, InBatch
    <2>3. ASSUME NEW p \in Drips, SubmitRun(k, p)
          PROVE  sent'[o] = sent[o] /\ counted'[o] = counted[o] /\ ~InBatch(o)'
      <3>1. \A j \in Ticks : o \notin todo'[j]
        BY <1>1, <2>3, TakenTyped DEF SubmitRun, DripTypeOK
      <3>2. p # o
        BY <1>1, <2>3, SubmitRunEffect
      <3>3. /\ sent'[o] = sent[o]
            /\ run'[k].order = p
            /\ \A j \in Ticks : j # k => run'[j] = run[j]
        BY <2>3, <3>2, SubmitRunEffect
      <3>4. \A j \in Ticks : run'[j] = NoRun \/ run'[j].order # o
        BY <1>1, <3>2, <3>3
      <3>5. counted' = counted
        BY <2>3 DEF SubmitRun
      <3> QED BY <3>1, <3>3, <3>4, <3>5 DEF InBatch
    <2>4. ASSUME BatchEnds(k)
          PROVE  ~InBatch(o)'
      BY <1>1, <2>4, BatchEndsTyped DEF InBatch
    <2>5. ASSUME NEW p \in Drips, SubmitFails(k, p) \/ AnswerLost(k, p)
          PROVE  sent'[o] = sent[o] /\ counted'[o] = counted[o] /\ ~InBatch(o)'
      <3>1. p # o
        BY <1>1, <2>5 DEF SubmitFails, AnswerLost, IsNext
      <3> QED BY <2>4, <2>5, <3>1 DEF SubmitFails, AnswerLost, Accepted, DripTypeOK
    <2>6. CASE CountRun(k)
      <3>1. run[k].order # o /\ todo' = todo /\ sent' = sent
        BY <1>1, <2>6, CountRunEffect DEF CountRun
      <3>2. counted'[o] = counted[o]
        BY <2>6, <3>1, CountRunEffect DEF DripTypeOK
      <3> QED BY <1>1, <2>6, <3>1, <3>2, CountRunEffect DEF InBatch
    <2>7. CASE CompleteOrder(k)
      BY <1>1, <2>7, CompleteOrderEffect DEF CompleteOrder, InBatch
    <2>8. CASE TickBreaks(k)
      BY <2>4, <2>8 DEF TickBreaks
    <2> QED BY <1>3, <2>1, <2>2, <2>3, <2>5, <2>6, <2>7, <2>8 DEF Tick
  <1> QED BY <1>2, <1>3 DEF DripNext, dripVars, allVars, PauseDripFeed, ResumeDripFeed

\* Pausing or ending an order stops its runs, but for a batch that was read
\* before; and then nothing of the drip feed changes how it ended.
THEOREM StaysLeftAlone == DripSpec => LeftAlone
  <1> DEFINE Alone ==
        \A o \in Drips :
          /\ (o \in paused \/ order[o].status \in Ended) /\ ~InBatch(o) =>
                sent'[o] = sent[o] /\ counted'[o] = counted[o] /\ ~InBatch(o)'
          /\ order[o].status \in Ended /\ ~InBatch(o) /\ ~InHand(o) /\ o \notin AdminOrders =>
                order'[o] = order[o]
  <1>1. DripInv /\ [DripNext]_allVars => [Alone]_allVars
    <2> SUFFICES ASSUME DripInv, [DripNext]_allVars, NEW o \in Drips
                 PROVE  /\ (o \in paused \/ order[o].status \in Ended) /\ ~InBatch(o) =>
                              /\ sent'[o] = sent[o] /\ counted'[o] = counted[o]
                              /\ ~InBatch(o)'
                        /\ /\ order[o].status \in Ended /\ ~InBatch(o) /\ ~InHand(o)
                           /\ o \notin AdminOrders
                           => order'[o] = order[o]
      OBVIOUS
    <2>1. DripTypeOK /\ OrderTypeOK /\ o \in Orders
      BY DripAssumption DEF DripInv, DripTypeOK
    <2>2. ASSUME order[o].status \in Ended, ~InBatch(o), ~InHand(o), o \notin AdminOrders
          PROVE  order'[o] = order[o]
      <3>1. CASE [OrderNext]_vars
        BY <2>1, <2>2, <3>1, EndedStep
      <3>2. ASSUME NEW k \in Ticks, Tick(k)
            PROVE  order'[o] = order[o]
        <4>1. CASE CompleteOrder(k)
          BY <2>1, <2>2, <4>1, CompleteOrderEffect DEF InBatch
        <4> QED BY <2>1, <3>2, <4>1, DripWrites
      <3> QED BY <3>1, <3>2 DEF DripNext, PauseDripFeed, ResumeDripFeed, allVars
    <2> QED BY <2>1, <2>2, StaysOut
  <1> QED BY <1>1, DripInvariant, PTL DEF DripSpec, LeftAlone

-----------------------------------------------------------------------------
(* What is proved of the wallet, its ledger and the events beside every    *)
(* other handler holds beside the drip feed: its ticks touch none of them. *)

LEMMA DripStepIsOrders ==
    ASSUME DripTypeOK, [DripNext]_allVars
    PROVE  \/ [OrderNext]_vars
           \/ UNCHANGED <<wallet, moved, told, task>>
  <1>1. ASSUME NEW k \in Ticks, Tick(k)
        PROVE  UNCHANGED <<wallet, moved, told, task>>
    BY <1>1 DEF Tick, FindDue, SkipRun, SubmitRun, SubmitFails, AnswerLost, CountRun,
       CompleteOrder, TickBreaks, vars
  <1> QED BY <1>1 DEF DripNext, PauseDripFeed, ResumeDripFeed, allVars, vars

\* With drip feeds, too, no more is held than is there.
THEOREM HeldStaysThereInRuns == DripSpec => []HeldIsThere
  <1>1. DripInit => PayingInv /\ HeldIsThere
    BY OrderAssumption DEF DripInit, OrderInit, PayingInv, HeldIsThere
  <1>2. /\ DripTypeOK /\ DripTypeOK' /\ PayingInv /\ HeldIsThere /\ [DripNext]_allVars
        => PayingInv' /\ HeldIsThere'
    <2> SUFFICES ASSUME DripTypeOK, DripTypeOK', PayingInv, HeldIsThere,
                        [DripNext]_allVars
                 PROVE  PayingInv' /\ HeldIsThere'
      OBVIOUS
    <2>1. CASE [OrderNext]_vars
      BY <2>1, HeldStep DEF DripTypeOK
    <2>2. CASE UNCHANGED <<wallet, moved, told, task>>
      BY <2>2 DEF PayingInv, HeldIsThere
    <2> QED BY <2>1, <2>2, DripStepIsOrders
  <1> QED BY <1>1, <1>2, DripTypeCorrect, PTL DEF DripSpec

\* An order that ticks complete, on top of whoever else ends it, is charged no
\* more than its price for each announcement of completion, and its worth for
\* each of a part: a tick completes it untold, and charges nothing.
THEOREM ChargesWereToldInRuns == DripSpec => []ChargedWasTold
  <1>1. DripInit => ScriptsInv /\ ChargedInv
    BY ChargedInit DEF DripInit
  <1>2. /\ DripTypeOK /\ DripTypeOK' /\ ScriptsInv /\ ChargedInv /\ [DripNext]_allVars
        => ScriptsInv' /\ ChargedInv'
    <2> SUFFICES ASSUME DripTypeOK, DripTypeOK', ScriptsInv, ChargedInv,
                        [DripNext]_allVars
                 PROVE  ScriptsInv' /\ ChargedInv'
      OBVIOUS
    <2>1. CASE [OrderNext]_vars
      <3>1. OrderTypeOK /\ OrderTypeOK'
        BY DEF DripTypeOK
      <3>2. ScriptsInv'
        BY <2>1, <3>1, ScriptsStep
      <3> QED BY <2>1, <3>1, <3>2, ChargedStep
    <2>2. CASE UNCHANGED <<wallet, moved, told, task>>
      <3>1. ScriptsInv'
        BY <2>2 DEF ScriptsInv
      <3>2. ASSUME NEW o
            PROVE  Due(o)' = Due(o) /\ More(o)' = More(o)
        BY <2>2 DEF Due, More
      <3>3. ASSUME NEW o \in Orders \ AdminOrders
            PROVE  /\ Covers(o)' = Covers(o)
                   /\ Worth(o)' = Worth(o)
                   /\ moved'[o]["charge"] = moved[o]["charge"]
        BY <2>2 DEF Covers, Worth, DonePrice
      <3> QED BY <3>1, <3>2, <3>3 DEF ChargedInv
    <2> QED BY <2>1, <2>2, DripStepIsOrders
  <1>3. DripTypeOK /\ ChargedInv => ChargedWasTold
    BY ChargedMeans DEF DripTypeOK
  <1> QED BY <1>1, <1>2, <1>3, DripTypeCorrect, PTL DEF DripSpec

\* While handlers come one at a time, the wallet is what the ledger makes it,
\* although any number of ticks run beside them: they never pay.
THEOREM PoolStaysExplainedInRuns ==
    ASSUME IsFiniteSet(Orders), \A t, u \in Tasks : t = u
    PROVE  DripSpec => []PoolIsExplained
  <1>1. DripInit => PoolInv /\ ReadInv
    BY PoolInitOK DEF DripInit
  <1>2. /\ DripTypeOK /\ DripTypeOK' /\ PoolInv /\ ReadInv /\ [DripNext]_allVars
        => PoolInv' /\ ReadInv'
    <2> SUFFICES ASSUME DripTypeOK, DripTypeOK', PoolInv, ReadInv, [DripNext]_allVars
                 PROVE  PoolInv' /\ ReadInv'
      OBVIOUS
    <2>1. CASE [OrderNext]_vars
      BY <2>1, PoolStep, ReadStep DEF DripTypeOK
    <2>2. CASE UNCHANGED <<wallet, moved, told, task>>
      <3>1. HoldsOf' = HoldsOf /\ GainsOf' = GainsOf
        BY <2>2 DEF HoldsOf, GainsOf, Outstanding
      <3> QED BY <2>2, <3>1 DEF PoolInv, ReadInv
    <2> QED BY <2>1, <2>2, DripStepIsOrders
  <1>3. PoolInv => PoolIsExplained
    BY PoolMeansExplained
  <1> QED BY <1>1, <1>2, <1>3, DripTypeCorrect, PTL DEF DripSpec
=============================================================================
