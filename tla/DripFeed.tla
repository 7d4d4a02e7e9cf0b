------------------------------ MODULE DripFeed ------------------------------
(***************************************************************************)
(* Orders that are delivered in runs (modules/orders/workers/drip-feed,    *)
(* pauseDripFeed and resumeDripFeed of modules/admin/admin-orders), beside *)
(* everything else that happens to an order.                               *)
(*                                                                         *)
(* The first run goes out when the order is created, the others by the     *)
(* ticks of a worker, a minute apart.  A tick reads the orders that are    *)
(* due, oldest first, and gives each a run: the panel takes a chunk, the   *)
(* run is counted, the last one completes the order.  No two of these are  *)
(* one transaction and none looks at the order again.  An error in one     *)
(* ends the batch.  Every process has a worker, and a job that lost its    *)
(* lock is run again: ticks overlap.                                       *)
(***************************************************************************)
EXTENDS OrderLifecycle, FiniteSets

CONSTANTS
    Drips,   \* orders in runs
    Runs,    \* dripFeedRuns: how many
    Age,     \* which of two is older: the one with the smaller number
    Ticks    \* ticks that may run at the same time

ASSUME DripAssumption ==
    /\ Drips \subseteq Orders \ (Prepaid \cup Refills)   \* made by CreateOrder
    /\ Runs \in [Drips -> Nat] /\ \A o \in Drips : Runs[o] >= 2
    /\ Age \in [Drips -> Nat]
    /\ IsFiniteSet(Ticks)

VARIABLES
    counted,   \* dripFeedRunsCompleted; the row is created with 1
    sent,      \* sent[o]: runs that a panel took from ticks
    paused,    \* orders with a dripFeedPausedAt
    todo,      \* todo[k]: orders of k's batch still to come
    run        \* run[k]: the run that k is in the middle of

dripVars == <<counted, sent, paused, todo, run>>
allVars == <<vars, dripVars>>

NoRun == [at |-> "none"]

DripTypeOK ==
    /\ OrderTypeOK
    /\ counted \in [Drips -> Nat]
    /\ sent \in [Drips -> Nat]
    /\ paused \subseteq Drips
    /\ todo \in [Ticks -> SUBSET Drips]
    /\ run \in [Ticks -> {NoRun} \cup [order : Drips, at : {"count", "complete"}]]

DripInitUncounted ==   \* seeded fault
    /\ OrderInit
    /\ counted = [o \in Drips |-> 0]
    /\ sent = [o \in Drips |-> 0]
    /\ paused = {}
    /\ todo = [k \in Ticks |-> {}]
    /\ run = [k \in Ticks |-> NoRun]

DripInit ==
    /\ OrderInit
    /\ counted = [o \in Drips |-> 1]
    /\ sent = [o \in Drips |-> 0]
    /\ paused = {}
    /\ todo = [k \in Ticks |-> {}]
    /\ run = [k \in Ticks |-> NoRun]

-----------------------------------------------------------------------------
\* findDripFeedOrdersDue.  Whether the interval since the last change of the
\* row is over is left open: each of these orders may be due or not.
WithRunsLeftIfPaused ==   \* seeded fault
    {o \in Drips : order[o].status = "PROCESSING" /\ counted[o] \in 1..(Runs[o] - 1)}

WithRunsLeft ==
    {o \in Drips : /\ order[o].status = "PROCESSING"
                   /\ o \notin paused
                   /\ 0 < counted[o] /\ counted[o] < Runs[o]}

FindDue(k) ==
    /\ todo[k] = {} /\ run[k] = NoRun
    /\ \E due \in (SUBSET WithRunsLeft) \ {{}} : todo' = [todo EXCEPT ![k] = due]
    /\ UNCHANGED <<vars, counted, sent, paused, run>>

\* The oldest order of the batch is next.
IsNext(k, o) ==
    /\ run[k] = NoRun
    /\ o \in todo[k]
    /\ \A p \in todo[k] : Age[o] <= Age[p]

Taken(k, o) == todo' = [todo EXCEPT ![k] = todo[k] \ {o}]

BatchEnds(k) ==
    /\ todo' = [todo EXCEPT ![k] = {}]
    /\ run' = [run EXCEPT ![k] = NoRun]

Accepted(o) == sent' = [sent EXCEPT ![o] = sent[o] + 1]

\* The service is gone or has no panel any more.
SkipRun(k, o) ==
    /\ IsNext(k, o)
    /\ Taken(k, o)
    /\ UNCHANGED <<vars, counted, sent, paused, run>>

SubmitRun(k, o) ==
    /\ IsNext(k, o)
    /\ Taken(k, o)
    /\ Accepted(o)
    /\ run' = [run EXCEPT ![k] = [order |-> o, at |-> "count"]]
    /\ UNCHANGED <<vars, counted, paused>>

SubmitFailsCounted(k, o) ==   \* seeded fault
    /\ IsNext(k, o)
    /\ BatchEnds(k)
    /\ counted' = [counted EXCEPT ![o] = counted[o] + 1]
    /\ UNCHANGED <<vars, sent, paused>>

\* The panel refuses: the orders behind o are left for another tick.
SubmitFails(k, o) ==
    /\ IsNext(k, o)
    /\ BatchEnds(k)
    /\ UNCHANGED <<vars, counted, sent, paused>>

\* The panel takes it and its answer is lost.
AnswerLost(k, o) ==
    /\ IsNext(k, o)
    /\ Fault
    /\ Accepted(o)
    /\ BatchEnds(k)
    /\ UNCHANGED <<wallet, order, moved, told, task, acts, counted, paused>>

CountRunLost(k) ==   \* seeded fault
    LET o == run[k].order
        now == IF \E j \in Ticks \ {k} : run[j] = run[k] THEN counted[o]
                                                        ELSE counted[o] + 1
    IN  /\ run[k] # NoRun /\ run[k].at = "count"
        /\ counted' = [counted EXCEPT ![o] = now]
        /\ run' = [run EXCEPT ![k] =
                      IF now >= Runs[o] THEN [order |-> o, at |-> "complete"] ELSE NoRun]
        /\ UNCHANGED <<vars, sent, paused, todo>>

CountRunEarly(k) ==   \* seeded fault
    LET o == run[k].order
        now == counted[o] + 1
    IN  /\ run[k] # NoRun /\ run[k].at = "count"
        /\ counted' = [counted EXCEPT ![o] = now]
        /\ run' = [run EXCEPT ![k] =
                      IF now + 1 >= Runs[o] THEN [order |-> o, at |-> "complete"] ELSE NoRun]
        /\ UNCHANGED <<vars, sent, paused, todo>>

\* incrementDripFeedRun returns the row as it is now.
CountRun(k) ==
    LET o == run[k].order
        now == counted[o] + 1
    IN  /\ run[k] # NoRun /\ run[k].at = "count"
        /\ counted' = [counted EXCEPT ![o] = now]
        /\ run' = [run EXCEPT ![k] =
                      IF now >= Runs[o] THEN [order |-> o, at |-> "complete"] ELSE NoRun]
        /\ UNCHANGED <<vars, sent, paused, todo>>

CompleteOrderElsewhere(k) ==   \* seeded fault
    LET o == run[k].order
    IN  /\ run[k] # NoRun /\ run[k].at = "complete"
        /\ SetStatus(o, "DONE", order[o].placed)
        /\ run' = [run EXCEPT ![k] = NoRun]
        /\ UNCHANGED <<wallet, moved, told, task, faults, acts, counted, sent, paused, todo>>

\* By id, whatever has become of the order; no event, no settlement.
CompleteOrder(k) ==
    LET o == run[k].order
    IN  /\ run[k] # NoRun /\ run[k].at = "complete"
        /\ SetStatus(o, "COMPLETED", order[o].placed)
        /\ run' = [run EXCEPT ![k] = NoRun]
        /\ UNCHANGED <<wallet, moved, told, task, faults, acts, counted, sent, paused, todo>>

\* A statement throws, which ends the batch, or the process dies.
TickBreaks(k) ==
    /\ todo[k] # {} \/ run[k] # NoRun
    /\ Fault
    /\ BatchEnds(k)
    /\ UNCHANGED <<wallet, order, moved, told, task, acts, counted, sent, paused>>

\* An administrator.  The order is read and then marked by id; what happens
\* in between can at most leave a mark on an order that has ended.
PauseDripFeed(o) ==
    /\ order[o].status = "PROCESSING"
    /\ o \notin paused
    /\ paused' = paused \cup {o}
    /\ UNCHANGED <<vars, counted, sent, todo, run>>

ResumeDripFeed(o) ==
    /\ order[o].status = "PROCESSING"
    /\ o \in paused
    /\ paused' = paused \ {o}
    /\ UNCHANGED <<vars, counted, sent, todo, run>>

-----------------------------------------------------------------------------
Tick(k) ==
    \/ FindDue(k)
    \/ \E o \in Drips :
          SkipRun(k, o) \/ SubmitRun(k, o) \/ SubmitFails(k, o) \/ AnswerLost(k, o)
    \/ CountRun(k)
    \/ CompleteOrder(k)
    \/ TickBreaks(k)

DripNext ==
    \/ OrderNext /\ UNCHANGED dripVars
    \/ \E k \in Ticks : Tick(k)
    \/ \E o \in Drips : PauseDripFeed(o) \/ ResumeDripFeed(o)

DripSpec == DripInit /\ [][DripNext]_allVars

(* Fairness: a tick comes every minute and goes on once it has begun, every *)
(* interval passes, and the panel takes a run now and then.  Nothing is     *)
(* assumed of the poller, the timeout worker and the customer.              *)
FairDripSpec ==
    /\ DripSpec
    /\ \A k \in Ticks :
          /\ WF_allVars(CountRun(k))
          /\ WF_allVars(CompleteOrder(k))
          /\ \A o \in Drips :
                /\ SF_allVars(FindDue(k) /\ o \in todo'[k])
                /\ SF_allVars(SubmitRun(k, o))
=============================================================================
