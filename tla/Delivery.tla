------------------------------ MODULE Delivery ------------------------------
(***************************************************************************)
(* What the outbox promises those who emit events and those who handle     *)
(* them, without workers, batches, leases and retries: an event that is    *)
(* there is handed to its handlers in their order, each of them at least   *)
(* once before it counts as dispatched, and nothing happens to it once it  *)
(* is dispatched or given up.                                              *)
(***************************************************************************)
EXTENDS Integers

CONSTANTS Rows, HandlerCount

VARIABLES status, done

Init ==
    /\ status = [e \in Rows |-> "NONE"]
    /\ done = [e \in Rows |-> [h \in 1..HandlerCount[e] |-> 0]]

Emit(e) ==
    /\ status[e] = "NONE"
    /\ status' = [status EXCEPT ![e] = "PENDING"]
    /\ UNCHANGED done

\* Handlers may see an event again, never before those in front of them.
Handle(e, n) ==
    /\ status[e] = "PENDING"
    /\ \A h \in 1..HandlerCount[e] : h < n => done[e][h] > 0
    /\ done' = [done EXCEPT ![e] =
                   [h \in 1..HandlerCount[e] |-> IF h = n THEN done[e][h] + 1
                                                          ELSE done[e][h]]]
    /\ UNCHANGED status

Dispatch(e) ==
    /\ status[e] = "PENDING"
    /\ \A h \in 1..HandlerCount[e] : done[e][h] > 0
    /\ status' = [status EXCEPT ![e] = "DISPATCHED"]
    /\ UNCHANGED done

GiveUp(e) ==
    /\ status[e] = "PENDING"
    /\ status' = [status EXCEPT ![e] = "FAILED"]
    /\ UNCHANGED done

Next ==
    \E e \in Rows :
        \/ Emit(e)
        \/ \E n \in 1..HandlerCount[e] : Handle(e, n)
        \/ Dispatch(e)
        \/ GiveUp(e)

Spec == Init /\ [][Next]_<<status, done>>
=============================================================================
