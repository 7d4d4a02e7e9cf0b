---------------------------- MODULE OutboxProps ----------------------------
(***************************************************************************)
(* What is checked and proved of Outbox.                                   *)
(***************************************************************************)
EXTENDS Outbox

\* Delivery sees of the outbox what becomes of a row and which handlers have
\* finished; leases, batches and counted attempts it does not.
Promise ==
    INSTANCE Delivery WITH
        Rows <- Rows, HandlerCount <- HandlerCount, status <- status, done <- done

\* While no lease runs out on a working holder, a row is in one batch at a
\* time (FOR UPDATE SKIP LOCKED with locked_until in claimPendingBatch).
OneHolder ==
    \A e \in Rows, v, w \in Workers : Holds(v, e) /\ Holds(w, e) => v = w

\* ... and the outbox is at-least-once delivery in handler order, whose
\* outcomes are final, although every update that ends an attempt is
\* unconditional.
ImplementsDelivery == Promise!Spec

\* ... and a handler sees an event once, and once more only for an attempt
\* that failed or a worker that died.
RepeatsArePaidFor ==
    \A e \in Rows : \A h \in HandlersOf(e) :
        done[e][h] <= attempts[e] + faults + 1

\* Even if leases run out on working holders: a row is DISPATCHED only after
\* all its handlers have finished, in their order, and FAILED only after
\* MaxAttempts counted failures, though a worker compares the attempts the
\* row had when it was claimed.
DecidedForAReason ==
    \A e \in Rows :
        /\ status[e] = "DISPATCHED" => \A h \in HandlersOf(e) : done[e][h] > 0
        /\ status[e] = "FAILED" => attempts[e] >= MaxAttempts
        /\ \A h, i \in HandlersOf(e) : h < i /\ done[e][i] > 0 => done[e][h] > 0

\* Every row is dispatched or given up in the end, through crashes, failing
\* handlers and leases that run out.
EmittedIsDecided ==
    \A e \in Rows :
        status[e] = "PENDING" ~> status[e] \in {"DISPATCHED", "FAILED"}
=============================================================================
