------------------------------ MODULE DripProps ------------------------------
(***************************************************************************)
(* What is checked and proved of DripFeed.                                 *)
(***************************************************************************)
EXTENDS DripFeed, OrderProps

Counting(o) == {k \in Ticks : run[k] # NoRun /\ run[k].order = o /\ run[k].at = "count"}
InBatch(o) == \E k \in Ticks : o \in todo[k] \/ (run[k] # NoRun /\ run[k].order = o)

\* No run is counted that no panel took, and one that a panel took is counted
\* unless something failed: although a run is submitted and counted in two
\* statements, and ticks overlap.
RunsArePaidFor ==
    \A o \in Drips :
        /\ counted[o] <= sent[o] + 1
        /\ sent[o] + 1 <= counted[o] + Cardinality(Counting(o)) + faults

\* However ticks overlap, each of them adds at most one run to those that were
\* ordered, and a failure one more.
OverrunsBounded ==
    \A o \in Drips :
        sent[o] + 1 <= Runs[o] + (Cardinality(Ticks) - 1) + faults

\* The worker completes an order only when panels took all of its runs.
CompletedInFull ==
    [][\A o \in Drips :
          order'[o] # order[o] /\ task' = task => sent[o] + 1 >= Runs[o]]_allVars

\* Once an order is paused or has ended, and no batch read before is left, no
\* run of it goes out and none is counted; and if no other task has it either,
\* an order that has ended stays as it ended.
LeftAlone ==
    [][\A o \in Drips :
          /\ (o \in paused \/ order[o].status \in Ended) /\ ~InBatch(o) =>
                sent'[o] = sent[o] /\ counted'[o] = counted[o] /\ ~InBatch(o)'
          /\ order[o].status \in Ended /\ ~InBatch(o) /\ ~InHand(o) /\ o \notin AdminOrders =>
                order'[o] = order[o]]_allVars

\* All runs of an order go out, whatever fails in between, while it is with a
\* panel and not paused; provided no drip feed is older, since one that keeps
\* throwing ends every batch before the orders behind it.
RunsGoOut ==
    \A o \in Drips :
        order[o].status = "PROCESSING" /\ (\A p \in Drips \ {o} : Age[o] < Age[p])
            ~> order[o].status # "PROCESSING" \/ o \in paused \/ counted[o] >= Runs[o]

=============================================================================
