------------------------------- MODULE Outbox -------------------------------
(***************************************************************************)
(* The transactional outbox (shared/outbox): rows that business            *)
(* transactions leave in outbox_events, and the workers, one in each       *)
(* process, that hand each row to the handlers of its type.                *)
(*                                                                         *)
(* A worker leases a batch of due rows in one statement and then processes *)
(* them one after the other.  The lease of all of them ends at one time,   *)
(* fixed when they were claimed; nothing renews it, and the updates that   *)
(* end an attempt are by id and ask for neither the lease nor the status.  *)
(* Whether a lease can run out while its holder is still at work is the    *)
(* constant SlowWorkers: 60 seconds for a batch of up to 50 rows whose     *)
(* handlers send mail and call other services do not exclude it.           *)
(***************************************************************************)
EXTENDS Integers, FiniteSets

CONSTANTS
    Rows,
    Workers,
    HandlerCount,   \* how many handlers subscribe to a row's type
    MaxAttempts,
    BatchSize,
    SlowWorkers,
    MaxFaults       \* bound: workers that die, updates that fail

ASSUME OutboxAssumption ==
    /\ HandlerCount \in [Rows -> Nat]
    /\ MaxAttempts \in Nat \ {0}
    /\ BatchSize \in Nat \ {0}
    /\ SlowWorkers \in BOOLEAN
    /\ MaxFaults \in Nat

VARIABLES
    status,     \* status[e]; "NONE" before the row is there
    attempts,   \* attempts[e]: failed attempts counted in the row
    due,        \* rows whose available_at has come
    locked,     \* rows whose locked_until has not
    todo,       \* todo[w]: rows of w's batch still to process, as claimed
    job,        \* job[w]: the row w is processing
    done,       \* done[e][h]: how often handler h has finished for e
    faults

vars == <<status, attempts, due, locked, todo, job, done, faults>>

Statuses == {"NONE", "PENDING", "DISPATCHED", "FAILED"}

HandlersOf(e) == 1..HandlerCount[e]

\* A claimed row, with the attempts it had.
Claims == [row : Rows, attempts : Nat]

NoJob == [at |-> "none"]

\* next: the handler to call; failed: something threw.
Jobs == [row : Rows, attempts : Nat, next : Nat \ {0}, at : {"handle", "failed"}]

OutboxTypeOK ==
    /\ status \in [Rows -> Statuses]
    /\ attempts \in [Rows -> Nat]
    /\ due \subseteq Rows
    /\ locked \subseteq Rows
    /\ todo \in [Workers -> SUBSET Claims]
    /\ job \in [Workers -> {NoJob} \cup Jobs]
    /\ DOMAIN done = Rows
    /\ \A e \in Rows : done[e] \in [HandlersOf(e) -> Nat]
    /\ faults \in Nat

OutboxInit ==
    /\ status = [e \in Rows |-> "NONE"]
    /\ attempts = [e \in Rows |-> 0]
    /\ due = {}
    /\ locked = {}
    /\ todo = [w \in Workers |-> {}]
    /\ job = [w \in Workers |-> NoJob]
    /\ done = [e \in Rows |-> [h \in HandlersOf(e) |-> 0]]
    /\ faults = 0

-----------------------------------------------------------------------------
Fault ==
    /\ faults < MaxFaults
    /\ faults' = faults + 1

\* Worker w has e in its batch, done or not begun.
Holds(w, e) ==
    \/ \E c \in todo[w] : c.row = e
    \/ job[w] # NoJob /\ job[w].row = e

\* A transaction commits with the event in it.
EmitEvent(e) ==
    /\ status[e] = "NONE"
    /\ status' = [status EXCEPT ![e] = "PENDING"]
    /\ due' = due \cup {e}
    /\ UNCHANGED <<attempts, locked, todo, job, done, faults>>

\* The clock: the backoff of a row is over, a lease ends.
BecomesDue(e) ==
    /\ status[e] = "PENDING"
    /\ e \notin due
    /\ due' = due \cup {e}
    /\ UNCHANGED <<status, attempts, locked, todo, job, done, faults>>

LockExpires(e) ==
    /\ e \in locked
    /\ SlowWorkers \/ \A w \in Workers : ~Holds(w, e)
    /\ locked' = locked \ {e}
    /\ UNCHANGED <<status, attempts, due, todo, job, done, faults>>

-----------------------------------------------------------------------------
(* A worker *)

ClaimableLeasedOrNot ==   \* seeded fault
    {e \in Rows : status[e] = "PENDING" /\ e \in due}

Claimable == {e \in Rows : status[e] = "PENDING" /\ e \in due /\ e \notin locked}

\* The batch: all claimable rows, or as many as the limit allows.
Batches ==
    {b \in SUBSET Claimable :
        /\ b # {}
        /\ Cardinality(b) <= BatchSize
        /\ b = Claimable \/ Cardinality(b) = BatchSize}

\* claimPendingBatch, by a worker that has nothing left of the last one.
ClaimPendingBatch(w) ==
    /\ todo[w] = {}
    /\ job[w] = NoJob
    /\ \E b \in Batches :
          /\ locked' = locked \cup b
          /\ todo' = [todo EXCEPT ![w] =
                         {[row |-> e, attempts |-> attempts[e]] : e \in b}]
    /\ UNCHANGED <<status, attempts, due, job, done, faults>>

Take(w) ==
    /\ job[w] = NoJob
    /\ \E c \in todo[w] :
          /\ todo' = [todo EXCEPT ![w] = @ \ {c}]
          /\ job' = [job EXCEPT ![w] = [row |-> c.row, attempts |-> c.attempts,
                                        next |-> 1, at |-> "handle"]]
    /\ UNCHANGED <<status, attempts, due, locked, done, faults>>

Handling(w) == job[w] # NoJob /\ job[w].at = "handle"

Throw(w) ==
    job' = [job EXCEPT ![w] = [row |-> job[w].row, attempts |-> job[w].attempts,
                               next |-> job[w].next, at |-> "failed"]]

HandlerDone(w) ==
    LET e == job[w].row
        n == job[w].next
    IN  /\ Handling(w)
        /\ n \in HandlersOf(e)
        /\ done' = [done EXCEPT ![e] =
                       [h \in HandlersOf(e) |-> IF h = n THEN done[e][h] + 1
                                                         ELSE done[e][h]]]
        /\ job' = [job EXCEPT ![w] = [row |-> e, attempts |-> job[w].attempts,
                                      next |-> n + 1, at |-> "handle"]]
        /\ UNCHANGED <<status, attempts, due, locked, todo, faults>>

HandlerThrowsSwallowed(w) ==   \* seeded fault
    /\ Handling(w)
    /\ job[w].next \in HandlersOf(job[w].row)
    /\ job' = [job EXCEPT ![w].next = @ + 1]
    /\ UNCHANGED <<status, attempts, due, locked, todo, done, faults>>

\* The first handler that throws ends the dispatch.
HandlerThrows(w) ==
    /\ Handling(w)
    /\ job[w].next \in HandlersOf(job[w].row)
    /\ Throw(w)
    /\ UNCHANGED <<status, attempts, due, locked, todo, done, faults>>

AllHandled(w) == Handling(w) /\ job[w].next > HandlerCount[job[w].row]

Drop(w) == job' = [job EXCEPT ![w] = NoJob]

MarkDispatchedNot(w) ==   \* seeded fault
    /\ AllHandled(w)
    /\ locked' = locked \ {job[w].row}
    /\ Drop(w)
    /\ UNCHANGED <<status, attempts, due, todo, done, faults>>

MarkDispatched(w) ==
    /\ AllHandled(w)
    /\ status' = [status EXCEPT ![job[w].row] = "DISPATCHED"]
    /\ locked' = locked \ {job[w].row}
    /\ Drop(w)
    /\ UNCHANGED <<attempts, due, todo, done, faults>>

\* markDispatched is in the same try block: if it throws, the dispatch failed.
MarkDispatchedThrows(w) ==
    /\ AllHandled(w)
    /\ Fault
    /\ Throw(w)
    /\ UNCHANGED <<status, attempts, due, locked, todo, done>>

Failed(w) == job[w] # NoJob /\ job[w].at = "failed"

LastAttemptEarly(w) ==   \* seeded fault
    job[w].attempts + 2 >= MaxAttempts

LastAttempt(w) == job[w].attempts + 1 >= MaxAttempts

CountAttemptNot(w) ==   \* seeded fault
    /\ locked' = locked \ {job[w].row}
    /\ Drop(w)
    /\ UNCHANGED attempts

CountAttempt(w) ==
    /\ attempts' = [attempts EXCEPT ![job[w].row] = attempts[job[w].row] + 1]
    /\ locked' = locked \ {job[w].row}
    /\ Drop(w)

MarkRetryable(w) ==
    /\ Failed(w)
    /\ ~LastAttempt(w)
    /\ CountAttempt(w)
    /\ due' = due \ {job[w].row}
    /\ UNCHANGED <<status, todo, done, faults>>

MarkFailed(w) ==
    /\ Failed(w)
    /\ LastAttempt(w)
    /\ CountAttempt(w)
    /\ status' = [status EXCEPT ![job[w].row] = "FAILED"]
    /\ UNCHANGED <<due, todo, done, faults>>

\* The process dies, or an update that ends an attempt throws and with it the
\* tick.  The batch is forgotten, its leases stay until they run out.
Crash(w) ==
    /\ todo[w] # {} \/ job[w] # NoJob
    /\ Fault
    /\ todo' = [todo EXCEPT ![w] = {}]
    /\ Drop(w)
    /\ UNCHANGED <<status, attempts, due, locked, done>>

Work(w) ==
    \/ ClaimPendingBatch(w)
    \/ Take(w)
    \/ HandlerDone(w)
    \/ HandlerThrows(w)
    \/ MarkDispatched(w)
    \/ MarkDispatchedThrows(w)
    \/ MarkRetryable(w)
    \/ MarkFailed(w)

OutboxNext ==
    \/ \E e \in Rows : EmitEvent(e) \/ BecomesDue(e) \/ LockExpires(e)
    \/ \E w \in Workers : Work(w) \/ Crash(w)

OutboxSpec == OutboxInit /\ [][OutboxNext]_vars

(* Fairness: each process ticks every two seconds and runs a started batch *)
(* on; time passes.                                                        *)
FairOutboxSpec ==
    /\ OutboxSpec
    /\ \A w \in Workers : WF_vars(Work(w))
    /\ \A e \in Rows : WF_vars(BecomesDue(e)) /\ WF_vars(LockExpires(e))
=============================================================================
