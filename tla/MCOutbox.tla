------------------------------ MODULE MCOutbox ------------------------------
(* Small outboxes for TLC: every row has two handlers.                     *)
EXTENDS OutboxProps

TwoHandlers == [e \in Rows |-> 2]
=============================================================================
