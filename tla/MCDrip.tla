------------------------------- MODULE MCDrip -------------------------------
(* Small drip feeds for TLC.                                               *)
EXTENDS DripProps

CONSTANTS o1, o2   \* model values

MCPrice == [o \in Orders |-> 1]
MCQuantity == [o \in Orders |-> 1]
MCRuns == [o \in Drips |-> IF o = o1 THEN 3 ELSE 2]
MCAge == [o \in Drips |-> IF o = o1 THEN 1 ELSE 2]

Enough == [balance |-> 2, hold |-> 0]
=============================================================================
