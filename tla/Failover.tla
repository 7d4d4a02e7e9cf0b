------------------------------ MODULE Failover ------------------------------
(***************************************************************************)
(* The failover walk (modules/orders/submit-with-failover.ts): an order is *)
(* offered to the panels mapped to its service, best first, until one      *)
(* accepts it; each attempt is recorded.  A walk is run by a task (here a  *)
(* webhook delivery), one await at a time, and walks of several tasks      *)
(* interleave.                                                             *)
(*                                                                         *)
(* The panels are outside the program: a panel may accept and its answer   *)
(* never arrive.  Recording the success of an attempt sits in the same try *)
(* block as the call, so if that insert fails the accepted attempt is      *)
(* treated as refused and the walk goes on to the next panel.              *)
(***************************************************************************)
EXTENDS Integers, Sequences

CONSTANTS
    Orders,
    Panels,
    Route,       \* Route[o]: the panels of o's service, best first
    Tasks,       \* tasks that may run at the same time
    MaxFaults    \* bound: how often each kind of fault may happen

FaultKinds ==
    {"answer",    \* a panel accepts and the call fails all the same
     "record",    \* the insert that records a success fails
     "crash"}     \* the process dies, or any other statement throws

ASSUME FailoverAssumption ==
    /\ Route \in [Orders -> Seq(Panels)]
       \* service_provider_mappings: one row per service and provider
    /\ \A o \in Orders : \A i, j \in DOMAIN Route[o] :
           Route[o][i] = Route[o][j] => i = j
    /\ MaxFaults \in [FaultKinds -> Nat]

VARIABLES
    placed,    \* placed[o][p]: how often panel p has accepted o
    attempt,   \* attempt[o]: the rows recorded for o
    walk,      \* walk[t]: how far t is with the order it submits
    faults     \* faults[k]: how often a fault of kind k has happened

failoverVars == <<placed, attempt, walk, faults>>

NoWalk == [at |-> "none"]

\* panel: the next call; accepted, refused: the last call's row is to be
\* written; won: the order is at panel Route[order][next].
Walks == [order : Orders, next : Nat \ {0},
          at : {"panel", "accepted", "refused", "won"}]

FailoverTypeOK ==
    /\ placed \in [Orders -> [Panels -> Nat]]
    /\ attempt \in [Orders -> SUBSET [panel : Panels, ok : BOOLEAN]]
    /\ walk \in [Tasks -> {NoWalk} \cup Walks]
    /\ faults \in [FaultKinds -> Nat]

FailoverInit ==
    /\ placed = [o \in Orders |-> [p \in Panels |-> 0]]
    /\ attempt = [o \in Orders |-> {}]
    /\ walk = [t \in Tasks |-> NoWalk]
    /\ faults = [k \in FaultKinds |-> 0]

-----------------------------------------------------------------------------
Fault(kind) ==
    /\ faults[kind] < MaxFaults[kind]
    /\ faults' = [faults EXCEPT ![kind] = faults[kind] + 1]

\* The panel that t is at.
Panel(t) == Route[walk[t].order][walk[t].next]

Walking(t, at) ==
    /\ walk[t] # NoWalk
    /\ walk[t].at = at
    /\ walk[t].next <= Len(Route[walk[t].order])

ExhaustedEarly(t) ==   \* seeded fault
    /\ walk[t] # NoWalk
    /\ walk[t].at = "panel"
    /\ walk[t].next >= Len(Route[walk[t].order])

Exhausted(t) ==
    /\ walk[t] # NoWalk
    /\ walk[t].at = "panel"
    /\ walk[t].next > Len(Route[walk[t].order])

StartWalk(t, o) ==
    walk' = [walk EXCEPT ![t] = [order |-> o, next |-> 1, at |-> "panel"]]

StopWalk(t) == walk' = [walk EXCEPT ![t] = NoWalk]

MoveTo(t, next, at) ==
    walk' = [walk EXCEPT ![t] =
                [order |-> walk[t].order, next |-> next, at |-> at]]

Place(t) ==
    LET o == walk[t].order
    IN  placed' = [placed EXCEPT ![o] =
                      [p \in Panels |-> IF p = Panel(t) THEN placed[o][p] + 1
                                                        ELSE placed[o][p]]]

Record(t, ok) ==
    attempt' = [attempt EXCEPT ![walk[t].order] =
                   @ \cup {[panel |-> Panel(t), ok |-> ok]}]

-----------------------------------------------------------------------------
PanelAccepts(t) ==
    /\ Walking(t, "panel")
    /\ Place(t)
    /\ MoveTo(t, walk[t].next, "accepted")
    /\ UNCHANGED <<attempt, faults>>

\* No such provider, a refusal, or no connection.
PanelRefuses(t) ==
    /\ Walking(t, "panel")
    /\ MoveTo(t, walk[t].next, "refused")
    /\ UNCHANGED <<placed, attempt, faults>>

\* The panel accepts and the call fails all the same.
AnswerLost(t) ==
    /\ Walking(t, "panel")
    /\ Fault("answer")
    /\ Place(t)
    /\ MoveTo(t, walk[t].next, "refused")
    /\ UNCHANGED attempt

RecordSuccessGoesOn(t) ==   \* seeded fault
    /\ Walking(t, "accepted")
    /\ Record(t, TRUE)
    /\ MoveTo(t, walk[t].next + 1, "panel")
    /\ UNCHANGED <<placed, faults>>

RecordSuccess(t) ==
    /\ Walking(t, "accepted")
    /\ Record(t, TRUE)
    /\ MoveTo(t, walk[t].next, "won")
    /\ UNCHANGED <<placed, faults>>

RecordSuccessFails(t) ==
    /\ Walking(t, "accepted")
    /\ Fault("record")
    /\ MoveTo(t, walk[t].next, "refused")
    /\ UNCHANGED <<placed, attempt>>

\* When this insert fails the exception leaves the walk: see the caller.
RecordFailure(t) ==
    /\ Walking(t, "refused")
    /\ Record(t, FALSE)
    /\ MoveTo(t, walk[t].next + 1, "panel")
    /\ UNCHANGED <<placed, faults>>

Walk(t) ==
    \/ PanelAccepts(t)
    \/ PanelRefuses(t)
    \/ AnswerLost(t)
    \/ RecordSuccess(t)
    \/ RecordSuccessFails(t)
    \/ RecordFailure(t)
=============================================================================
