---------------------------- MODULE OutboxProofs ----------------------------
(***************************************************************************)
(* The properties of Outbox for any number of rows, handlers and workers.  *)
(***************************************************************************)
EXTENDS OutboxProps, TLAPS

\* What HandlerDone adds to the tally of one row.
LEMMA TallyTyped ==
    ASSUME OutboxTypeOK, NEW w \in Workers, HandlerDone(w)
    PROVE  /\ job[w] \in Jobs
           /\ job[w].next \in HandlersOf(job[w].row)
           /\ DOMAIN done' = Rows
           /\ \A e \in Rows : e # job[w].row => done'[e] = done[e]
           /\ done'[job[w].row] \in [HandlersOf(job[w].row) -> Nat]
           /\ \A h \in HandlersOf(job[w].row) :
                 done'[job[w].row][h] =
                     IF h = job[w].next THEN done[job[w].row][h] + 1
                                        ELSE done[job[w].row][h]
  <1> DEFINE e == job[w].row
             n == job[w].next
             more == [h \in HandlersOf(e) |-> IF h = n THEN done[e][h] + 1
                                                       ELSE done[e][h]]
  <1>1. job[w] \in Jobs /\ n \in HandlersOf(e)
    BY DEF HandlerDone, Handling, OutboxTypeOK
  <1>2. e \in Rows
    BY <1>1 DEF Jobs
  <1>3. more \in [HandlersOf(e) -> Nat]
    BY <1>2 DEF OutboxTypeOK
  <1>4. done' = [done EXCEPT ![e] = more]
    BY DEF HandlerDone
  <1>5. /\ DOMAIN done' = Rows
        /\ \A x \in Rows : x # e => done'[x] = done[x]
        /\ done'[e] = more
    <2> HIDE DEF more
    <2> QED BY <1>2, <1>4 DEF OutboxTypeOK
  <1> QED BY <1>1, <1>3, <1>5

LEMMA OutboxTypeStep == OutboxTypeOK /\ [OutboxNext]_vars => OutboxTypeOK'
  <1> SUFFICES ASSUME OutboxTypeOK, [OutboxNext]_vars
               PROVE  OutboxTypeOK'
    OBVIOUS
  <1>j. \A w \in Workers : job[w] # NoJob =>
           /\ job[w] \in Jobs /\ job[w].row \in Rows /\ job[w].attempts \in Nat
           /\ job[w].next \in Nat \ {0}
    BY DEF OutboxTypeOK, Jobs
  <1>1. CASE UNCHANGED vars
    BY <1>1 DEF vars, OutboxTypeOK, HandlersOf
  <1>2. ASSUME NEW e \in Rows, EmitEvent(e) \/ BecomesDue(e) \/ LockExpires(e)
        PROVE  OutboxTypeOK'
    BY <1>2 DEF EmitEvent, BecomesDue, LockExpires, OutboxTypeOK, Statuses, HandlersOf
  <1>3. ASSUME NEW w \in Workers, ClaimPendingBatch(w)
        PROVE  OutboxTypeOK'
    <2>1. PICK b \in Batches :
             /\ locked' = locked \cup b
             /\ todo' = [todo EXCEPT ![w] =
                            {[row |-> e, attempts |-> attempts[e]] : e \in b}]
      BY <1>3 DEF ClaimPendingBatch
    <2>2. b \subseteq Rows
      BY DEF Batches, Claimable
    <2>3. {[row |-> e, attempts |-> attempts[e]] : e \in b} \in SUBSET Claims
      BY <2>2 DEF Claims, OutboxTypeOK
    <2>4. todo' \in [Workers -> SUBSET Claims]
      BY <2>1, <2>3 DEF OutboxTypeOK
    <2> QED BY <1>3, <2>1, <2>2, <2>4 DEF ClaimPendingBatch, OutboxTypeOK, HandlersOf
  <1>4. ASSUME NEW w \in Workers, Take(w)
        PROVE  OutboxTypeOK'
    <2>1. PICK c \in todo[w] :
             /\ todo' = [todo EXCEPT ![w] = @ \ {c}]
             /\ job' = [job EXCEPT ![w] =
                           [row |-> c.row, attempts |-> c.attempts,
                            next |-> 1, at |-> "handle"]]
      BY <1>4 DEF Take
    <2>2. c \in Claims
      BY DEF OutboxTypeOK
    <2>3. [row |-> c.row, attempts |-> c.attempts, next |-> 1, at |-> "handle"] \in Jobs
      BY <2>2 DEF Claims, Jobs
    <2>4. todo' \in [Workers -> SUBSET Claims] /\ job' \in [Workers -> {NoJob} \cup Jobs]
      BY <2>1, <2>3 DEF OutboxTypeOK
    <2> QED BY <1>4, <2>4 DEF Take, OutboxTypeOK, HandlersOf
  <1>5. ASSUME NEW w \in Workers, HandlerDone(w)
        PROVE  OutboxTypeOK'
    <2>1. DOMAIN done' = Rows /\ \A e \in Rows : done'[e] \in [HandlersOf(e) -> Nat]
      BY <1>5, TallyTyped DEF OutboxTypeOK
    <2>2. job[w] \in Jobs /\ job[w].next + 1 \in Nat \ {0}
      BY <1>5, <1>j DEF HandlerDone, Handling
    <2>3. [row |-> job[w].row, attempts |-> job[w].attempts,
           next |-> job[w].next + 1, at |-> "handle"] \in Jobs
      BY <2>2 DEF Jobs
    <2>4. job' \in [Workers -> {NoJob} \cup Jobs]
      BY <1>5, <2>3 DEF HandlerDone, OutboxTypeOK
    <2> QED BY <1>5, <2>1, <2>4 DEF HandlerDone, OutboxTypeOK, HandlersOf
  <1>6. ASSUME NEW w \in Workers, HandlerThrows(w) \/ MarkDispatchedThrows(w)
        PROVE  OutboxTypeOK'
    <2>1. job[w] # NoJob
      BY <1>6 DEF HandlerThrows, MarkDispatchedThrows, AllHandled, Handling
    <2>2. [row |-> job[w].row, attempts |-> job[w].attempts,
           next |-> job[w].next, at |-> "failed"] \in Jobs
      BY <2>1, <1>j DEF Jobs
    <2>3. job' \in [Workers -> {NoJob} \cup Jobs]
      BY <1>6, <2>2 DEF HandlerThrows, MarkDispatchedThrows, Throw, OutboxTypeOK
    <2>4. faults' \in Nat
      BY <1>6 DEF HandlerThrows, MarkDispatchedThrows, Fault, OutboxTypeOK
    <2> QED BY <1>6, <2>3, <2>4 DEF HandlerThrows, MarkDispatchedThrows,
            OutboxTypeOK, HandlersOf
  <1>7. ASSUME NEW w \in Workers, MarkDispatched(w) \/ MarkRetryable(w) \/ MarkFailed(w)
        PROVE  OutboxTypeOK'
    <2>1. job[w] # NoJob
      BY <1>7 DEF MarkDispatched, MarkRetryable, MarkFailed, AllHandled, Handling, Failed
    <2>2. job' \in [Workers -> {NoJob} \cup Jobs]
      BY <1>7 DEF MarkDispatched, MarkRetryable, MarkFailed, CountAttempt, Drop, OutboxTypeOK
    <2>3. attempts' \in [Rows -> Nat]
      BY <1>7, <2>1, <1>j DEF MarkDispatched, MarkRetryable, MarkFailed,
         CountAttempt, OutboxTypeOK
    <2>4. status' \in [Rows -> Statuses]
      BY <1>7 DEF MarkDispatched, MarkRetryable, MarkFailed, OutboxTypeOK, Statuses
    <2>5. due' \subseteq Rows /\ locked' \subseteq Rows
      BY <1>7 DEF MarkDispatched, MarkRetryable, MarkFailed, CountAttempt, OutboxTypeOK
    <2> QED BY <1>7, <2>2, <2>3, <2>4, <2>5 DEF MarkDispatched, MarkRetryable,
            MarkFailed, OutboxTypeOK, HandlersOf
  <1>8. ASSUME NEW w \in Workers, Crash(w)
        PROVE  OutboxTypeOK'
    BY <1>8 DEF Crash, Drop, Fault, OutboxTypeOK, HandlersOf
  <1> QED
    BY <1>1, <1>2, <1>3, <1>4, <1>5, <1>6, <1>7, <1>8 DEF OutboxNext, Work

\* Every state of every run has the types of OutboxTypeOK.
THEOREM OutboxTypeCorrect == OutboxSpec => []OutboxTypeOK
  <1>1. OutboxInit => OutboxTypeOK
    BY DEF OutboxInit, OutboxTypeOK, Statuses, HandlersOf
  <1> QED BY <1>1, OutboxTypeStep, PTL DEF OutboxSpec

-----------------------------------------------------------------------------
(* What holds even if leases run out on working holders.                   *)

\* A worker has been through the handlers in front of its next one, and the
\* attempts it compares are at most those in the row.
WorkedInv ==
    /\ \A w \in Workers : job[w] # NoJob =>
          /\ \A h \in HandlersOf(job[w].row) :
                h < job[w].next => done[job[w].row][h] > 0
          /\ job[w].attempts <= attempts[job[w].row]
    /\ \A w \in Workers : \A c \in todo[w] : c.attempts <= attempts[c.row]

LEMMA DecidedStep ==
    OutboxTypeOK /\ WorkedInv /\ DecidedForAReason /\ [OutboxNext]_vars
    => WorkedInv' /\ DecidedForAReason'
  <1> SUFFICES ASSUME OutboxTypeOK, WorkedInv, DecidedForAReason, [OutboxNext]_vars
               PROVE  WorkedInv' /\ DecidedForAReason'
    OBVIOUS
  <1>j. \A w \in Workers : job[w] # NoJob =>
           /\ job[w] \in Jobs /\ job[w].row \in Rows /\ job[w].attempts \in Nat
           /\ job[w].next \in Nat \ {0}
    BY DEF OutboxTypeOK, Jobs
  <1>c. \A w \in Workers : \A c \in todo[w] : c.row \in Rows /\ c.attempts \in Nat
    BY DEF OutboxTypeOK, Claims
  <1>1. CASE UNCHANGED vars
    BY <1>1 DEF vars, WorkedInv, DecidedForAReason, HandlersOf
  <1>2. ASSUME NEW e \in Rows, EmitEvent(e) \/ BecomesDue(e) \/ LockExpires(e)
        PROVE  WorkedInv' /\ DecidedForAReason'
    <2>1. /\ UNCHANGED <<attempts, todo, job, done>>
          /\ \A x \in Rows : status'[x] = status[x] \/ status'[x] = "PENDING"
      BY <1>2 DEF EmitEvent, BecomesDue, LockExpires, OutboxTypeOK
    <2> QED BY <2>1 DEF WorkedInv, DecidedForAReason, HandlersOf
  <1>3. ASSUME NEW w \in Workers, ClaimPendingBatch(w)
        PROVE  WorkedInv' /\ DecidedForAReason'
    <2>1. PICK b \in Batches :
             todo' = [todo EXCEPT ![w] =
                         {[row |-> e, attempts |-> attempts[e]] : e \in b}]
      BY <1>3 DEF ClaimPendingBatch
    <2>2. b \subseteq Rows
      BY DEF Batches, Claimable
    <2>3. ASSUME NEW v \in Workers, NEW c \in todo'[v]
          PROVE  c.attempts <= attempts[c.row]
      <3>1. CASE v = w
        <4>1. PICK e \in b : c = [row |-> e, attempts |-> attempts[e]]
          BY <2>1, <2>3, <3>1 DEF OutboxTypeOK
        <4> QED BY <4>1, <2>2 DEF OutboxTypeOK
      <3>2. CASE v # w
        BY <3>2, <2>1, <2>3 DEF OutboxTypeOK, WorkedInv
      <3> QED BY <3>1, <3>2
    <2> QED BY <1>3, <2>3 DEF ClaimPendingBatch, WorkedInv, DecidedForAReason, HandlersOf
  <1>4. ASSUME NEW w \in Workers, Take(w)
        PROVE  WorkedInv' /\ DecidedForAReason'
    <2>1. PICK c \in todo[w] :
             /\ todo' = [todo EXCEPT ![w] = @ \ {c}]
             /\ job' = [job EXCEPT ![w] =
                           [row |-> c.row, attempts |-> c.attempts,
                            next |-> 1, at |-> "handle"]]
      BY <1>4 DEF Take
    <2>2. UNCHANGED <<status, attempts, done>>
      BY <1>4 DEF Take
    <2>3. \A v \in Workers : todo'[v] \subseteq todo[v]
      BY <2>1 DEF OutboxTypeOK
    <2>4. /\ job'[w].row = c.row /\ job'[w].attempts = c.attempts /\ job'[w].next = 1
          /\ \A v \in Workers : v # w => job'[v] = job[v]
      BY <2>1 DEF OutboxTypeOK
    <2>5. \A v \in Workers : job'[v] # NoJob =>
             /\ \A h \in HandlersOf(job'[v].row) :
                   h < job'[v].next => done[job'[v].row][h] > 0
             /\ job'[v].attempts <= attempts[job'[v].row]
      <3>1. \A h \in HandlersOf(c.row) : ~(h < 1)
        BY <1>c, OutboxAssumption DEF HandlersOf
      <3> QED BY <2>4, <3>1 DEF WorkedInv
    <2> QED BY <2>2, <2>3, <2>5 DEF WorkedInv, DecidedForAReason, HandlersOf
  <1>5. ASSUME NEW w \in Workers, HandlerDone(w)
        PROVE  WorkedInv' /\ DecidedForAReason'
    <2> DEFINE e == job[w].row
               n == job[w].next
    <2>1. /\ n \in HandlersOf(e) /\ e \in Rows /\ n \in Nat
          /\ \A x \in Rows : x # e => done'[x] = done[x]
          /\ \A h \in HandlersOf(e) :
                done'[e][h] = IF h = n THEN done[e][h] + 1 ELSE done[e][h]
      BY <1>5, TallyTyped DEF Jobs
    <2>2. /\ job'[w].row = e /\ job'[w].attempts = job[w].attempts
          /\ job'[w].next = n + 1
          /\ \A v \in Workers : v # w => job'[v] = job[v]
          /\ job[w] # NoJob
          /\ UNCHANGED <<status, attempts, todo>>
      BY <1>5 DEF HandlerDone, Handling, OutboxTypeOK
    <2>3. \A x \in Rows : \A h \in HandlersOf(x) :
             done[x][h] \in Nat /\ h \in Nat
      <3> SUFFICES ASSUME NEW x \in Rows, NEW h \in HandlersOf(x)
                   PROVE  done[x][h] \in Nat /\ h \in Nat
        OBVIOUS
      <3>1. done[x] \in [HandlersOf(x) -> Nat]
        BY DEF OutboxTypeOK
      <3>2. HandlerCount[x] \in Nat
        BY OutboxAssumption
      <3>3. h \in Nat
        BY <3>2 DEF HandlersOf
      <3> QED BY <3>1, <3>3
    <2>4. \A x \in Rows : \A h \in HandlersOf(x) : done[x][h] > 0 => done'[x][h] > 0
      BY <2>1, <2>3
    <2>5. \A h \in HandlersOf(e) : h < n => done[e][h] > 0
      BY <2>2 DEF WorkedInv
    <2>6. \A h \in HandlersOf(e) : h < n + 1 => done'[e][h] > 0
      BY <2>1, <2>3, <2>4, <2>5
    <2>7. \A x \in Rows : \A h, i \in HandlersOf(x) :
             h < i /\ done'[x][i] > 0 => done'[x][h] > 0
      <3> SUFFICES ASSUME NEW x \in Rows, NEW h \in HandlersOf(x),
                          NEW i \in HandlersOf(x), h < i, done'[x][i] > 0
                   PROVE  done'[x][h] > 0
        OBVIOUS
      <3>1. CASE x = e /\ i = n
        BY <3>1, <2>4, <2>5
      <3>2. CASE ~(x = e /\ i = n)
        <4>1. done[x][i] > 0
          BY <3>2, <2>1
        <4> QED BY <4>1, <2>4 DEF DecidedForAReason
      <3> QED BY <3>1, <3>2
    <2>8. WorkedInv'
      <3>1. ASSUME NEW v \in Workers, job'[v] # NoJob
            PROVE  /\ \A h \in HandlersOf(job'[v].row) :
                         h < job'[v].next => done'[job'[v].row][h] > 0
                   /\ job'[v].attempts <= attempts[job'[v].row]
        <4>1. CASE v = w
          <5>1. job[w].attempts <= attempts[e]
            BY <2>2 DEF WorkedInv
          <5> QED BY <4>1, <5>1, <2>2, <2>6
        <4>2. CASE v # w
          <5>1. job'[v] = job[v] /\ job[v].row \in Rows
            BY <4>2, <3>1, <2>2, <1>j
          <5> QED BY <5>1, <3>1, <2>4 DEF WorkedInv
        <4> QED BY <4>1, <4>2
      <3> QED BY <3>1, <2>2 DEF WorkedInv, HandlersOf
    <2>9. DecidedForAReason'
      BY <2>2, <2>4, <2>7 DEF DecidedForAReason, HandlersOf
    <2> QED BY <2>8, <2>9
  <1>6. ASSUME NEW w \in Workers, HandlerThrows(w) \/ MarkDispatchedThrows(w)
        PROVE  WorkedInv' /\ DecidedForAReason'
    <2>1. /\ UNCHANGED <<status, attempts, todo, done>>
          /\ job[w] # NoJob
          /\ Throw(w)
      BY <1>6 DEF HandlerThrows, MarkDispatchedThrows, AllHandled, Handling
    <2>2. /\ job'[w].row = job[w].row /\ job'[w].attempts = job[w].attempts
          /\ job'[w].next = job[w].next
          /\ \A v \in Workers : v # w => job'[v] = job[v]
      BY <2>1 DEF Throw, OutboxTypeOK
    <2> QED BY <2>1, <2>2 DEF WorkedInv, DecidedForAReason, HandlersOf
  <1>7. ASSUME NEW w \in Workers, MarkDispatched(w)
        PROVE  WorkedInv' /\ DecidedForAReason'
    <2>1. /\ UNCHANGED <<attempts, todo, done>>
          /\ \A v \in Workers : job'[v] = job[v] \/ job'[v] = NoJob
          /\ job[w] # NoJob /\ job[w].next > HandlerCount[job[w].row]
      BY <1>7 DEF MarkDispatched, AllHandled, Handling, Drop, OutboxTypeOK
    <2>2. \A h \in HandlersOf(job[w].row) : done[job[w].row][h] > 0
      BY <2>1, <1>j, OutboxAssumption DEF WorkedInv, HandlersOf
    <2>3. \A x \in Rows : status'[x] = status[x]
             \/ (x = job[w].row /\ status'[x] = "DISPATCHED")
      BY <1>7 DEF MarkDispatched, OutboxTypeOK
    <2> QED BY <2>1, <2>2, <2>3 DEF WorkedInv, DecidedForAReason, HandlersOf
  <1>8. ASSUME NEW w \in Workers, MarkRetryable(w) \/ MarkFailed(w)
        PROVE  WorkedInv' /\ DecidedForAReason'
    <2> DEFINE e == job[w].row
    <2>1. /\ job[w] # NoJob /\ e \in Rows /\ job[w].attempts \in Nat
          /\ UNCHANGED <<todo, done>>
          /\ \A v \in Workers : job'[v] = job[v] \/ job'[v] = NoJob
      BY <1>8, <1>j DEF MarkRetryable, MarkFailed, Failed, CountAttempt, Drop, OutboxTypeOK
    <2>2. /\ attempts'[e] = attempts[e] + 1
          /\ \A x \in Rows : x # e => attempts'[x] = attempts[x]
      BY <1>8, <2>1 DEF MarkRetryable, MarkFailed, CountAttempt, OutboxTypeOK
    <2>3. \A x \in Rows : attempts[x] \in Nat /\ attempts'[x] \in Nat
                          /\ attempts[x] <= attempts'[x]
      <3>1. \A x \in Rows : attempts[x] \in Nat
        BY DEF OutboxTypeOK
      <3> QED BY <2>1, <2>2, <3>1
    <2>4. job[w].attempts <= attempts[e]
      BY <2>1 DEF WorkedInv
    <2>5. \A x \in Rows : status'[x] = "FAILED" => attempts'[x] >= MaxAttempts
      <3>1. CASE MarkRetryable(w)
        BY <3>1, <2>3, OutboxAssumption DEF MarkRetryable, DecidedForAReason
      <3>2. CASE MarkFailed(w)
        <4>1. job[w].attempts + 1 >= MaxAttempts
          BY <3>2 DEF MarkFailed, LastAttempt
        <4>2. attempts'[e] >= MaxAttempts
          BY <4>1, <2>1, <2>2, <2>3, <2>4, OutboxAssumption
        <4>3. \A x \in Rows : x # e => status'[x] = status[x]
          BY <3>2 DEF MarkFailed, OutboxTypeOK
        <4> QED BY <4>2, <4>3, <2>2 DEF DecidedForAReason
      <3> QED BY <1>8, <3>1, <3>2
    <2>6. \A x \in Rows : status'[x] = "DISPATCHED" => status[x] = "DISPATCHED"
      BY <1>8 DEF MarkRetryable, MarkFailed, OutboxTypeOK
    <2>7. WorkedInv'
      <3>1. \A v \in Workers : job'[v] # NoJob =>
               job'[v] = job[v] /\ job[v].attempts <= attempts'[job[v].row]
        BY <2>1, <2>3, <1>j DEF WorkedInv
      <3>2. \A v \in Workers : \A c \in todo[v] : c.attempts <= attempts'[c.row]
        BY <2>3, <1>c DEF WorkedInv
      <3> QED BY <2>1, <3>1, <3>2 DEF WorkedInv, HandlersOf
    <2>8. DecidedForAReason'
      BY <2>1, <2>5, <2>6 DEF DecidedForAReason, HandlersOf
    <2> QED BY <2>7, <2>8
  <1>9. ASSUME NEW w \in Workers, Crash(w)
        PROVE  WorkedInv' /\ DecidedForAReason'
    <2>1. /\ UNCHANGED <<status, attempts, done>>
          /\ \A v \in Workers : job'[v] = job[v] \/ job'[v] = NoJob
          /\ \A v \in Workers : todo'[v] \subseteq todo[v]
      BY <1>9 DEF Crash, Drop, OutboxTypeOK
    <2> QED BY <2>1 DEF WorkedInv, DecidedForAReason, HandlersOf
  <1> QED
    BY <1>1, <1>2, <1>3, <1>4, <1>5, <1>6, <1>7, <1>8, <1>9 DEF OutboxNext, Work

LEMMA WorkedInit == OutboxInit => WorkedInv /\ DecidedForAReason
  BY DEF OutboxInit, WorkedInv, DecidedForAReason, HandlersOf

\* Whatever runs out, crashes or throws: DISPATCHED means that all handlers
\* have finished, in order, and FAILED that MaxAttempts failures were counted.
THEOREM OutcomesHaveReasons == OutboxSpec => []DecidedForAReason
  <1>1. OutboxTypeOK /\ WorkedInv /\ DecidedForAReason /\ [OutboxNext]_vars
        => WorkedInv' /\ DecidedForAReason'
    BY DecidedStep
  <1> QED BY <1>1, WorkedInit, OutboxTypeCorrect, PTL DEF OutboxSpec

-----------------------------------------------------------------------------
(* What holds while no lease runs out on a working holder.                 *)

HeldBy(w) == {e \in Rows : Holds(w, e)}

\* Who holds a row has it alone, leased and undecided; and no row is twice in
\* a batch.
PromptInv ==
    /\ \A v, w \in Workers : v # w => HeldBy(v) \cap HeldBy(w) = {}
    /\ \A w \in Workers : HeldBy(w) \subseteq locked
    /\ \A w \in Workers : \A e \in HeldBy(w) : status[e] = "PENDING"
    /\ \A w \in Workers : job[w] # NoJob => \A c \in todo[w] : c.row # job[w].row
    /\ \A w \in Workers : \A c, d \in todo[w] : c.row = d.row => c = d

LEMMA JobHeld ==
    ASSUME OutboxTypeOK, NEW w \in Workers, job[w] # NoJob
    PROVE  job[w].row \in HeldBy(w)
  BY DEF OutboxTypeOK, Jobs, HeldBy, Holds

\* A worker that holds no more than before, of rows still leased and undecided.
LEMMA HoldsNoMore ==
    ASSUME PromptInv,
           \A w \in Workers : HeldBy(w)' \subseteq HeldBy(w),
           \A w \in Workers : \A e \in HeldBy(w)' :
               (e \in locked => e \in locked') /\ (status[e] = "PENDING" => status'[e] = "PENDING"),
           \A w \in Workers : job'[w] # NoJob => \A c \in todo'[w] : c.row # job'[w].row,
           \A w \in Workers : todo'[w] \subseteq todo[w]
    PROVE  PromptInv'
  BY DEF PromptInv

LEMMA PromptStep ==
    ASSUME ~SlowWorkers, OutboxTypeOK, PromptInv, [OutboxNext]_vars
    PROVE  PromptInv'
  <1>1. ASSUME UNCHANGED <<todo, job>>
        PROVE  /\ \A w \in Workers : HeldBy(w)' = HeldBy(w)
               /\ \A w \in Workers : job'[w] # NoJob => \A c \in todo'[w] : c.row # job'[w].row
               /\ \A w \in Workers : todo'[w] \subseteq todo[w]
    BY <1>1 DEF HeldBy, Holds, PromptInv
  <1>2. CASE UNCHANGED vars
    <2>1. UNCHANGED <<status, locked, todo, job>>
      BY <1>2 DEF vars
    <2> QED BY <1>1, <2>1, HoldsNoMore
  <1>3. ASSUME NEW e \in Rows, EmitEvent(e) \/ BecomesDue(e)
        PROVE  PromptInv'
    <2>1. /\ UNCHANGED <<locked, todo, job>>
          /\ \A x \in Rows : status[x] = "PENDING" => status'[x] = "PENDING"
      BY <1>3 DEF EmitEvent, BecomesDue, OutboxTypeOK
    <2>2. \A w \in Workers : HeldBy(w)' \subseteq Rows
      BY DEF HeldBy
    <2> QED BY <1>1, <2>1, <2>2, HoldsNoMore
  <1>4. ASSUME NEW e \in Rows, LockExpires(e)
        PROVE  PromptInv'
    <2>1. \A w \in Workers : e \notin HeldBy(w)
      BY <1>4 DEF LockExpires, HeldBy
    <2> QED BY <1>1, <1>4, <2>1, HoldsNoMore DEF LockExpires
  <1>5. ASSUME NEW w \in Workers, ClaimPendingBatch(w)
        PROVE  PromptInv'
    <2>1. PICK b \in Batches :
             /\ locked' = locked \cup b
             /\ todo' = [todo EXCEPT ![w] =
                            {[row |-> e, attempts |-> attempts[e]] : e \in b}]
      BY <1>5 DEF ClaimPendingBatch
    <2>2. b \subseteq Rows /\ \A e \in b : e \notin locked /\ status[e] = "PENDING"
      BY DEF Batches, Claimable
    <2>3. job' = job /\ status' = status /\ job[w] = NoJob
      BY <1>5 DEF ClaimPendingBatch
    <2>4. \A v \in Workers : v # w => todo'[v] = todo[v] /\ HeldBy(v)' = HeldBy(v)
      BY <2>1, <2>3 DEF OutboxTypeOK, HeldBy, Holds
    <2>5. HeldBy(w)' = b
      <3>1. todo'[w] = {[row |-> e, attempts |-> attempts[e]] : e \in b}
        BY <2>1 DEF OutboxTypeOK
      <3>2. ASSUME NEW e \in b
            PROVE  \E c \in todo'[w] : c.row = e
        <4>1. [row |-> e, attempts |-> attempts[e]] \in todo'[w]
          BY <3>1
        <4> QED BY <4>1
      <3>3. ASSUME NEW c \in todo'[w]
            PROVE  c.row \in b
        BY <3>1
      <3> QED BY <2>2, <2>3, <3>2, <3>3 DEF HeldBy, Holds
    <2>6. \A v \in Workers : HeldBy(v) \cap b = {}
      BY <2>2 DEF PromptInv
    <2>7. \A c, d \in todo'[w] : c.row = d.row => c = d
      BY <2>1 DEF OutboxTypeOK
    <2>8. \A v \in Workers : HeldBy(v)' \subseteq locked'
      BY <2>1, <2>4, <2>5 DEF PromptInv
    <2>9. \A v \in Workers : \A e \in HeldBy(v)' : status'[e] = "PENDING"
      BY <2>2, <2>3, <2>4, <2>5 DEF PromptInv
    <2>10. \A u, v \in Workers : u # v => HeldBy(u)' \cap HeldBy(v)' = {}
      BY <2>4, <2>5, <2>6 DEF PromptInv
    <2>11. \A v \in Workers : job'[v] # NoJob => \A c \in todo'[v] : c.row # job'[v].row
      BY <2>3, <2>4 DEF PromptInv
    <2>12. \A v \in Workers : \A c, d \in todo'[v] : c.row = d.row => c = d
      BY <2>4, <2>7 DEF PromptInv
    <2> QED BY <2>8, <2>9, <2>10, <2>11, <2>12 DEF PromptInv
  <1>6. ASSUME NEW w \in Workers, Take(w)
        PROVE  PromptInv'
    <2>1. PICK c \in todo[w] :
             /\ todo' = [todo EXCEPT ![w] = @ \ {c}]
             /\ job' = [job EXCEPT ![w] =
                           [row |-> c.row, attempts |-> c.attempts,
                            next |-> 1, at |-> "handle"]]
      BY <1>6 DEF Take
    <2>2. UNCHANGED <<status, locked>>
      BY <1>6 DEF Take
    <2>3. /\ todo'[w] = todo[w] \ {c} /\ job'[w].row = c.row
          /\ \A v \in Workers : v # w => todo'[v] = todo[v] /\ job'[v] = job[v]
      BY <2>1 DEF OutboxTypeOK
    <2>4. \A v \in Workers : HeldBy(v)' \subseteq HeldBy(v)
      BY <2>3 DEF HeldBy, Holds
    <2>5. \A d \in todo[w] \ {c} : d.row # c.row
      BY DEF PromptInv
    <2> QED BY <2>2, <2>3, <2>4, <2>5, HoldsNoMore DEF PromptInv
  <1>7. ASSUME NEW w \in Workers, HandlerDone(w) \/ HandlerThrows(w) \/ MarkDispatchedThrows(w)
        PROVE  PromptInv'
    <2>1. /\ UNCHANGED <<status, locked, todo>> /\ job[w] # NoJob
          /\ job'[w].row = job[w].row
          /\ \A v \in Workers : v # w => job'[v] = job[v]
      BY <1>7 DEF HandlerDone, HandlerThrows, MarkDispatchedThrows, AllHandled,
         Handling, Throw, OutboxTypeOK
    <2>2. \A v \in Workers : HeldBy(v)' \subseteq HeldBy(v)
      BY <2>1 DEF HeldBy, Holds
    <2> QED BY <2>1, <2>2, HoldsNoMore DEF PromptInv
  <1>8. ASSUME NEW w \in Workers, MarkDispatched(w) \/ MarkRetryable(w) \/ MarkFailed(w)
        PROVE  PromptInv'
    <2> DEFINE e == job[w].row
    <2>1. /\ job[w] # NoJob /\ job'[w] = NoJob /\ todo' = todo
          /\ locked' = locked \ {e}
          /\ \A v \in Workers : v # w => job'[v] = job[v]
          /\ \A x \in Rows : x # e => status'[x] = status[x]
      BY <1>8 DEF MarkDispatched, MarkRetryable, MarkFailed, AllHandled, Handling,
         Failed, CountAttempt, Drop, OutboxTypeOK
    <2>2. \A v \in Workers : HeldBy(v)' \subseteq HeldBy(v)
      BY <2>1 DEF HeldBy, Holds
    <2>3. e \notin HeldBy(w)'
      BY <2>1 DEF HeldBy, Holds, PromptInv
    <2>4. \A v \in Workers : v # w => e \notin HeldBy(v)
      BY <2>1, JobHeld DEF PromptInv
    <2>5. \A v \in Workers : \A x \in HeldBy(v)' : x # e /\ x \in Rows
      BY <2>2, <2>3, <2>4 DEF HeldBy
    <2> QED BY <2>1, <2>2, <2>5, HoldsNoMore DEF PromptInv
  <1>9. ASSUME NEW w \in Workers, Crash(w)
        PROVE  PromptInv'
    <2>1. /\ UNCHANGED <<status, locked>>
          /\ \A v \in Workers : v # w => todo'[v] = todo[v] /\ job'[v] = job[v]
          /\ todo'[w] = {} /\ job'[w] = NoJob
      BY <1>9 DEF Crash, Drop, OutboxTypeOK
    <2>2. \A v \in Workers : HeldBy(v)' \subseteq HeldBy(v)
      BY <2>1 DEF HeldBy, Holds
    <2> QED BY <2>1, <2>2, HoldsNoMore DEF PromptInv
  <1> QED
    BY <1>2, <1>3, <1>4, <1>5, <1>6, <1>7, <1>8, <1>9 DEF OutboxNext, Work

LEMMA PromptInitOK == OutboxInit => PromptInv
  BY DEF OutboxInit, PromptInv, HeldBy, Holds

LEMMA PromptMeansOneHolder == PromptInv => OneHolder
  BY DEF PromptInv, OneHolder, HeldBy

\* While leases outlast their holders no row is in two batches, for any number
\* of processes, rows and batch sizes.
THEOREM RowsHaveOneHolder ==
    ASSUME ~SlowWorkers
    PROVE  OutboxSpec => []OneHolder
  <1>1. OutboxTypeOK /\ PromptInv /\ [OutboxNext]_vars => PromptInv'
    BY PromptStep
  <1> QED BY <1>1, PromptInitOK, PromptMeansOneHolder, OutboxTypeCorrect, PTL DEF OutboxSpec

-----------------------------------------------------------------------------
(* The outbox implements Delivery.                                         *)

LEMMA DeliveryStep ==
    ASSUME OutboxTypeOK, WorkedInv, PromptInv, [OutboxNext]_vars
    PROVE  [Promise!Next]_<<status, done>>
  <1>1. ASSUME NEW e \in Rows, EmitEvent(e)
        PROVE  Promise!Next
    BY <1>1 DEF EmitEvent, Promise!Next, Promise!Emit
  <1>2. ASSUME NEW w \in Workers, HandlerDone(w)
        PROVE  Promise!Next
    <2> DEFINE e == job[w].row  n == job[w].next
    <2>1. /\ job[w] # NoJob /\ n \in HandlersOf(e) /\ status' = status
          /\ done' = [done EXCEPT ![e] =
                         [h \in HandlersOf(e) |-> IF h = n THEN done[e][h] + 1
                                                           ELSE done[e][h]]]
      BY <1>2 DEF HandlerDone, Handling
    <2>2. e \in Rows /\ status[e] = "PENDING"
      BY <2>1, JobHeld DEF PromptInv, HeldBy
    <2>3. \A h \in HandlersOf(e) : h < n => done[e][h] > 0
      BY <2>1 DEF WorkedInv
    <2>4. Promise!Handle(e, n)
      BY <2>1, <2>2, <2>3 DEF Promise!Handle, HandlersOf
    <2> QED BY <2>1, <2>2, <2>4 DEF Promise!Next, HandlersOf
  <1>3. ASSUME NEW w \in Workers, MarkDispatched(w)
        PROVE  Promise!Next
    <2> DEFINE e == job[w].row
    <2>1. /\ job[w] # NoJob /\ job[w].next > HandlerCount[e] /\ done' = done
          /\ status' = [status EXCEPT ![e] = "DISPATCHED"]
      BY <1>3 DEF MarkDispatched, AllHandled, Handling
    <2>2. e \in Rows /\ status[e] = "PENDING" /\ job[w].next \in Nat
      BY <2>1, JobHeld DEF PromptInv, HeldBy, OutboxTypeOK, Jobs
    <2>3. \A h \in HandlersOf(e) : done[e][h] > 0
      BY <2>1, <2>2, OutboxAssumption DEF WorkedInv, HandlersOf
    <2>4. Promise!Dispatch(e)
      BY <2>1, <2>2, <2>3 DEF Promise!Dispatch, HandlersOf
    <2> QED BY <2>2, <2>4 DEF Promise!Next
  <1>4. ASSUME NEW w \in Workers, MarkFailed(w)
        PROVE  Promise!Next
    <2> DEFINE e == job[w].row
    <2>1. job[w] # NoJob /\ done' = done /\ status' = [status EXCEPT ![e] = "FAILED"]
      BY <1>4 DEF MarkFailed, Failed
    <2>2. e \in Rows /\ status[e] = "PENDING"
      BY <2>1, JobHeld DEF PromptInv, HeldBy
    <2> QED BY <2>1, <2>2 DEF Promise!Next, Promise!GiveUp
  <1>5. ASSUME NEW w \in Workers,
               \/ ClaimPendingBatch(w) \/ Take(w) \/ HandlerThrows(w)
               \/ MarkDispatchedThrows(w) \/ MarkRetryable(w) \/ Crash(w)
        PROVE  UNCHANGED <<status, done>>
    BY <1>5 DEF ClaimPendingBatch, Take, HandlerThrows, MarkDispatchedThrows,
       MarkRetryable, Crash
  <1>6. ASSUME NEW e \in Rows, BecomesDue(e) \/ LockExpires(e)
        PROVE  UNCHANGED <<status, done>>
    BY <1>6 DEF BecomesDue, LockExpires
  <1> QED BY <1>1, <1>2, <1>3, <1>4, <1>5, <1>6 DEF OutboxNext, Work, vars

LEMMA DeliveryInit == OutboxInit => Promise!Init
  BY DEF OutboxInit, Promise!Init, HandlersOf

\* The outbox, with its leases, batches and retries, is at-least-once delivery
\* in handler order whose outcomes are final.
THEOREM OutboxDelivers ==
    ASSUME ~SlowWorkers
    PROVE  OutboxSpec => ImplementsDelivery
  <1>1. OutboxTypeOK /\ PromptInv /\ [OutboxNext]_vars => PromptInv'
    BY PromptStep
  <1>2. OutboxTypeOK /\ WorkedInv /\ DecidedForAReason /\ [OutboxNext]_vars
        => WorkedInv' /\ DecidedForAReason'
    BY DecidedStep
  <1>3. OutboxTypeOK /\ WorkedInv /\ PromptInv /\ [OutboxNext]_vars
        => [Promise!Next]_<<status, done>>
    BY DeliveryStep
  <1> QED BY <1>1, <1>2, <1>3, PromptInitOK, WorkedInit, DeliveryInit,
          OutboxTypeCorrect, PTL DEF OutboxSpec, ImplementsDelivery, Promise!Spec

-----------------------------------------------------------------------------
(* How often a handler sees an event.                                      *)

\* w is past handler h of e in its present attempt.
Past(w, e, h) ==
    /\ job[w] # NoJob /\ job[w].row = e
    /\ job[w].at = "failed" \/ h < job[w].next

Undecided(e) == status[e] \in {"NONE", "PENDING"}

\* Before the attempt that is to succeed, every time h has finished is paid for
\* by an attempt that failed or a worker that died.
RepeatInv ==
    \A e \in Rows : \A h \in HandlersOf(e) :
        /\ done[e][h] <= attempts[e] + faults + 1
        /\ Undecided(e) /\ (\A w \in Workers : ~Past(w, e, h)) =>
              done[e][h] <= attempts[e] + faults
        /\ status[e] = "NONE" => done[e][h] = 0

\* A step that calls no handler and lets nobody who is past one go without
\* counting it.
LEMMA RepeatKept ==
    ASSUME OutboxTypeOK, OutboxTypeOK', RepeatInv, done' = done,
           NEW e \in Rows, NEW h \in HandlersOf(e),
           attempts'[e] + faults' >= attempts[e] + faults,
           Undecided(e)' => Undecided(e),
           Undecided(e)' /\ (\A w \in Workers : ~Past(w, e, h)') =>
               \/ \A w \in Workers : ~Past(w, e, h)
               \/ attempts'[e] + faults' >= attempts[e] + faults + 1,
           status'[e] = "NONE" => status[e] = "NONE"
    PROVE  /\ done'[e][h] <= attempts'[e] + faults' + 1
           /\ Undecided(e)' /\ (\A w \in Workers : ~Past(w, e, h)') =>
                 done'[e][h] <= attempts'[e] + faults'
           /\ status'[e] = "NONE" => done'[e][h] = 0
  <1>1. /\ done[e][h] \in Nat /\ attempts[e] \in Nat /\ attempts'[e] \in Nat
        /\ faults \in Nat /\ faults' \in Nat
    BY DEF OutboxTypeOK
  <1> QED BY <1>1 DEF RepeatInv

LEMMA RepeatStep ==
    ASSUME OutboxTypeOK, PromptInv, RepeatInv, [OutboxNext]_vars
    PROVE  RepeatInv'
  <1> DEFINE Goal(e, h) ==
        /\ done'[e][h] <= attempts'[e] + faults' + 1
        /\ Undecided(e)' /\ (\A w \in Workers : ~Past(w, e, h)') =>
              done'[e][h] <= attempts'[e] + faults'
        /\ status'[e] = "NONE" => done'[e][h] = 0
  <1> SUFFICES ASSUME NEW e \in Rows, NEW h \in HandlersOf(e)
               PROVE  Goal(e, h)
    BY DEF RepeatInv, HandlersOf
  <1>t. OutboxTypeOK'
    BY OutboxTypeStep
  <1>n. attempts[e] \in Nat /\ attempts'[e] \in Nat /\ faults \in Nat /\ h \in Nat
    BY <1>t, OutboxAssumption DEF OutboxTypeOK, HandlersOf
  <1>1. CASE UNCHANGED vars
    BY <1>1, <1>t, <1>n, RepeatKept DEF vars, Undecided, Past
  <1>2. ASSUME NEW x \in Rows, EmitEvent(x) \/ BecomesDue(x) \/ LockExpires(x)
        PROVE  Goal(e, h)
    <2>1. /\ UNCHANGED <<attempts, job, done, faults>>
          /\ Undecided(e)' => Undecided(e)
          /\ status'[e] = "NONE" => status[e] = "NONE"
      BY <1>2 DEF EmitEvent, BecomesDue, LockExpires, Undecided, OutboxTypeOK
    <2> QED BY <1>t, <1>n, <2>1, RepeatKept DEF Past
  <1>3. ASSUME NEW w \in Workers, ClaimPendingBatch(w)
        PROVE  Goal(e, h)
    <2>1. UNCHANGED <<status, attempts, job, done, faults>>
      BY <1>3 DEF ClaimPendingBatch
    <2> QED BY <1>t, <1>n, <2>1, RepeatKept DEF Past, Undecided
  <1>4. ASSUME NEW w \in Workers, Take(w)
        PROVE  Goal(e, h)
    <2>1. /\ UNCHANGED <<status, attempts, done, faults>> /\ job[w] = NoJob
          /\ \A v \in Workers : v # w => job'[v] = job[v]
      BY <1>4 DEF Take, OutboxTypeOK
    <2>2. \A v \in Workers : Past(v, e, h) => Past(v, e, h)'
      BY <2>1 DEF Past
    <2> QED BY <1>t, <1>n, <2>1, <2>2, RepeatKept DEF Undecided
  <1>5. ASSUME NEW w \in Workers, HandlerDone(w)
        PROVE  Goal(e, h)
    <2> DEFINE x == job[w].row
               n == job[w].next
    <2>1. /\ n \in HandlersOf(x) /\ x \in Rows /\ n \in Nat
          /\ \A y \in Rows : y # x => done'[y] = done[y]
          /\ \A i \in HandlersOf(x) :
                done'[x][i] = IF i = n THEN done[x][i] + 1 ELSE done[x][i]
      BY <1>5, TallyTyped DEF Jobs
    <2>2. /\ job'[w].row = x /\ job'[w].next = n + 1 /\ job[w] # NoJob
          /\ job[w].at = "handle" /\ job'[w].at = "handle" /\ job'[w] # NoJob
          /\ \A v \in Workers : v # w => job'[v] = job[v]
          /\ UNCHANGED <<status, attempts, faults>>
      <3>1. job' = [job EXCEPT ![w] = [row |-> x, attempts |-> job[w].attempts,
                                       next |-> n + 1, at |-> "handle"]]
        BY <1>5 DEF HandlerDone
      <3>2. NoJob.at = "none"
        BY DEF NoJob
      <3> QED BY <1>5, <3>1, <3>2 DEF HandlerDone, Handling, OutboxTypeOK
    <2>3. status[x] = "PENDING"
      BY <2>1, <2>2, JobHeld DEF PromptInv
    <2>4. CASE e = x /\ h = n
      <3>1. \A v \in Workers : ~Past(v, e, h)
        <4>1. ~Past(w, e, h)
          BY <2>1, <2>2, <2>4 DEF Past
        <4>2. \A v \in Workers : v # w => ~Past(v, e, h)
          BY <2>1, <2>2, <2>4, JobHeld DEF Past, PromptInv
        <4> QED BY <4>1, <4>2
      <3>2. done[e][h] <= attempts[e] + faults
        BY <2>3, <2>4, <3>1 DEF RepeatInv, Undecided
      <3>3. Past(w, e, h)'
        BY <2>1, <2>2, <2>4 DEF Past
      <3>4. done[e][h] \in Nat /\ done'[e][h] = done[e][h] + 1
        BY <2>1, <2>4 DEF OutboxTypeOK
      <3>5. status'[e] = "PENDING"
        BY <2>2, <2>3, <2>4
      <3> QED BY <1>n, <2>2, <3>2, <3>3, <3>4, <3>5
    <2>5. CASE ~(e = x /\ h = n)
      <3>1. done'[e][h] = done[e][h]
        BY <2>1, <2>5
      <3>2. \A v \in Workers : Past(v, e, h) => Past(v, e, h)'
        BY <1>n, <2>1, <2>2 DEF Past
      <3> QED BY <1>n, <2>2, <3>1, <3>2 DEF RepeatInv, Undecided
    <2> QED BY <2>4, <2>5
  <1>6. ASSUME NEW w \in Workers, HandlerThrows(w) \/ MarkDispatchedThrows(w)
        PROVE  Goal(e, h)
    <2>1. /\ UNCHANGED <<status, attempts, done>> /\ job[w] # NoJob
          /\ faults' = faults \/ faults' = faults + 1
          /\ Throw(w)
      BY <1>6 DEF HandlerThrows, MarkDispatchedThrows, AllHandled, Handling, Fault
    <2>2. /\ job'[w].row = job[w].row /\ job'[w].at = "failed" /\ job'[w] # NoJob
          /\ \A v \in Workers : v # w => job'[v] = job[v]
      <3>1. NoJob.at = "none"
        BY DEF NoJob
      <3> QED BY <2>1, <3>1 DEF Throw, OutboxTypeOK
    <2>3. \A v \in Workers : Past(v, e, h) => Past(v, e, h)'
      BY <2>2 DEF Past
    <2> QED BY <1>t, <1>n, <2>1, <2>3, RepeatKept DEF Undecided
  <1>7. ASSUME NEW w \in Workers, MarkDispatched(w)
        PROVE  Goal(e, h)
    <2> DEFINE x == job[w].row
    <2>1. /\ UNCHANGED <<attempts, done, faults>> /\ job[w] # NoJob /\ x \in Rows
          /\ status' = [status EXCEPT ![x] = "DISPATCHED"]
          /\ \A v \in Workers : v # w => job'[v] = job[v]
      BY <1>7 DEF MarkDispatched, AllHandled, Handling, Drop, OutboxTypeOK, Jobs
    <2>2. CASE e = x
      <3>1. status'[e] = "DISPATCHED"
        BY <2>1, <2>2 DEF OutboxTypeOK
      <3> QED BY <2>1, <3>1 DEF RepeatInv, Undecided
    <2>3. CASE e # x
      <3>1. \A v \in Workers : Past(v, e, h) => Past(v, e, h)'
        BY <2>1, <2>3 DEF Past
      <3>2. status'[e] = status[e]
        BY <2>1, <2>3 DEF OutboxTypeOK
      <3> QED BY <1>t, <1>n, <2>1, <3>1, <3>2, RepeatKept DEF Undecided
    <2> QED BY <2>2, <2>3
  <1>8. ASSUME NEW w \in Workers, MarkRetryable(w) \/ MarkFailed(w)
        PROVE  Goal(e, h)
    <2> DEFINE x == job[w].row
    <2>1. /\ UNCHANGED <<done, faults>> /\ job[w] # NoJob /\ x \in Rows
          /\ attempts' = [attempts EXCEPT ![x] = attempts[x] + 1]
          /\ \A v \in Workers : v # w => job'[v] = job[v]
          /\ status' = status \/ status' = [status EXCEPT ![x] = "FAILED"]
      BY <1>8 DEF MarkRetryable, MarkFailed, Failed, CountAttempt, Drop, OutboxTypeOK, Jobs
    <2>2. status'[e] = status[e] \/ status'[e] = "FAILED"
      BY <2>1 DEF OutboxTypeOK
    <2>3. CASE e = x
      <3>1. attempts'[e] = attempts[e] + 1
        BY <2>1, <2>3 DEF OutboxTypeOK
      <3> QED BY <1>t, <1>n, <2>1, <2>2, <3>1, RepeatKept DEF Undecided
    <2>4. CASE e # x
      <3>1. \A v \in Workers : Past(v, e, h) => Past(v, e, h)'
        BY <2>1, <2>4 DEF Past
      <3>2. attempts'[e] = attempts[e]
        BY <2>1, <2>4 DEF OutboxTypeOK
      <3> QED BY <1>t, <1>n, <2>1, <2>2, <3>1, <3>2, RepeatKept DEF Undecided
    <2> QED BY <2>3, <2>4
  <1>9. ASSUME NEW w \in Workers, Crash(w)
        PROVE  Goal(e, h)
    <2>1. UNCHANGED <<status, attempts, done>> /\ faults' = faults + 1
      BY <1>9 DEF Crash, Fault
    <2> QED BY <1>t, <1>n, <2>1, RepeatKept DEF Undecided
  <1> QED
    BY <1>1, <1>2, <1>3, <1>4, <1>5, <1>6, <1>7, <1>8, <1>9 DEF OutboxNext, Work

LEMMA RepeatInit == OutboxInit => RepeatInv
  <1> SUFFICES ASSUME OutboxInit, NEW e \in Rows, NEW h \in HandlersOf(e)
               PROVE  done[e][h] = 0 /\ attempts[e] = 0 /\ faults = 0
    BY DEF RepeatInv
  <1> QED BY DEF OutboxInit

LEMMA RepeatMeansPaidFor == RepeatInv => RepeatsArePaidFor
  BY DEF RepeatInv, RepeatsArePaidFor

\* No handler sees an event more often than once for each attempt that failed,
\* once for each fault, and once.
THEOREM RepeatsStayPaidFor ==
    ASSUME ~SlowWorkers
    PROVE  OutboxSpec => []RepeatsArePaidFor
  <1>1. OutboxTypeOK /\ PromptInv /\ [OutboxNext]_vars => PromptInv'
    BY PromptStep
  <1>2. OutboxTypeOK /\ PromptInv /\ RepeatInv /\ [OutboxNext]_vars => RepeatInv'
    BY RepeatStep
  <1> QED BY <1>1, <1>2, PromptInitOK, RepeatInit, RepeatMeansPaidFor,
          OutboxTypeCorrect, PTL DEF OutboxSpec
=============================================================================
