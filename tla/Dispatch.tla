------------------------------ MODULE Dispatch ------------------------------
(***************************************************************************)
(* What the handlers of an event send (modules/notifications and           *)
(* modules/webhooks) by way of the job queue (shared/queue).               *)
(*                                                                         *)
(* A mail is a row and a job with the row's id; a webhook is a job with    *)
(* all it needs.  Adding a job may fail, and nobody is told: the handler   *)
(* returns, and the outbox takes the event for handled.  The queue tries a *)
(* job again while its processor throws and attempts are left.  A job      *)
(* whose process died is given back once without counting an attempt, and  *)
(* dropped when that happens again.                                        *)
(*                                                                         *)
(* This is one event.  When the outbox repeats it, it is another mail and  *)
(* other jobs.                                                             *)
(***************************************************************************)
EXTENDS Integers, FiniteSets

CONSTANTS
    Mails,
    Hooks,         \* the customer's webhooks for the event
    JobAttempts,
    MaxFaults      \* bound: processes that die, statements that fail

Deliveries == Mails \cup Hooks

ASSUME DispatchAssumption ==
    /\ Mails \cap Hooks = {}
    /\ JobAttempts \in Nat \ {0}
    /\ MaxFaults \in Nat

VARIABLES
    note,     \* note[m]: status of the mail's row; "NONE" before it is there
    active,   \* webhooks that are
    found,    \* the webhooks to tell have been looked up
    toAdd,    \* ... and these still have no job
    job,      \* job[d]: the job, if there is one, and how far it is
    tried,    \* tried[d]: how often d was offered to its receiver
    took,     \* took[d]: how often the receiver took it
    faults

vars == <<note, active, found, toAdd, job, tried, took, faults>>

\* begun: offered; taken: a mail server has it; caught: the catch block.
Places == {"none", "adding", "lost", "waiting", "begun", "taken", "caught", "over"}
Running == {"begun", "taken", "caught"}

Jobs == [at : Places, left : 0..JobAttempts, stalled : BOOLEAN]

DispatchTypeOK ==
    /\ note \in [Mails -> {"NONE", "PENDING", "SENT", "FAILED"}]
    /\ active \subseteq Hooks
    /\ found \in BOOLEAN
    /\ toAdd \subseteq Hooks
    /\ job \in [Deliveries -> Jobs]
    /\ tried \in [Deliveries -> Nat]
    /\ took \in [Deliveries -> Nat]
    /\ faults \in Nat

DispatchInit ==
    /\ note = [m \in Mails |-> "NONE"]
    /\ active = Hooks
    /\ found = FALSE
    /\ toAdd = {}
    /\ job = [d \in Deliveries |-> [at |-> "none", left |-> JobAttempts, stalled |-> FALSE]]
    /\ tried = [d \in Deliveries |-> 0]
    /\ took = [d \in Deliveries |-> 0]
    /\ faults = 0

-----------------------------------------------------------------------------
Fault ==
    /\ faults < MaxFaults
    /\ faults' = faults + 1

PutJob(d, at, left, stalled) ==
    job' = [job EXCEPT ![d] = [at |-> at, left |-> left, stalled |-> stalled]]

Move(d, at) == PutJob(d, at, job[d].left, job[d].stalled)

SetNote(m, status) == note' = [note EXCEPT ![m] = status]

AgainUncounted(d) ==   \* seeded fault
    Move(d, "waiting")

\* The processor has thrown.
Again(d) ==
    PutJob(d, IF job[d].left > 1 THEN "waiting" ELSE "over", job[d].left - 1,
           job[d].stalled)

-----------------------------------------------------------------------------
(* Handlers of the event *)

SendNotification(m) ==
    /\ note[m] = "NONE"
    /\ SetNote(m, "PENDING")
    /\ Move(m, "adding")
    /\ UNCHANGED <<active, found, toAdd, tried, took, faults>>

EnqueueNotification(m) ==
    /\ job[m].at = "adding"
    /\ Move(m, "waiting")
    /\ UNCHANGED <<note, active, found, toAdd, tried, took, faults>>

\* The error is swallowed, or the process dies; the row stays PENDING.
EnqueueNotificationFails(m) ==
    /\ job[m].at = "adding"
    /\ Fault
    /\ Move(m, "lost")
    /\ UNCHANGED <<note, active, found, toAdd, tried, took>>

\* enqueueWebhookDelivery: who is to be told, ...
FindActiveWebhooks ==
    /\ ~found
    /\ found' = TRUE
    /\ toAdd' = active
    /\ UNCHANGED <<note, active, job, tried, took, faults>>

\* ... and a job for each; the first that cannot be added ends it.
EnqueueWebhookDelivery(h) ==
    /\ h \in toAdd
    /\ toAdd' = toAdd \ {h}
    /\ Move(h, "waiting")
    /\ UNCHANGED <<note, active, found, tried, took, faults>>

EnqueueWebhookDeliveryFails ==
    /\ toAdd # {}
    /\ Fault
    /\ toAdd' = {}
    /\ job' = [d \in Deliveries |->
                  IF d \in toAdd
                  THEN [at |-> "lost", left |-> job[d].left, stalled |-> job[d].stalled]
                  ELSE job[d]]
    /\ UNCHANGED <<note, active, found, tried, took>>

\* The customer turns a webhook on or off, or deletes it.  A job does not look.
UpdateWebhook(h) ==
    /\ active' = IF h \in active THEN active \ {h} ELSE active \cup {h}
    /\ UNCHANGED <<note, found, toAdd, job, tried, took, faults>>

-----------------------------------------------------------------------------
(* processWebhookDelivery *)

Offer(d) ==
    /\ Move(d, "begun")
    /\ tried' = [tried EXCEPT ![d] = tried[d] + 1]

Accept(d) == took' = [took EXCEPT ![d] = took[d] + 1]

PostWebhook(h) ==
    /\ job[h].at = "waiting"
    /\ Offer(h)
    /\ UNCHANGED <<note, active, found, toAdd, took, faults>>

PostAnswered(h) ==
    /\ job[h].at = "begun"
    /\ Accept(h)
    /\ Move(h, "over")
    /\ UNCHANGED <<note, active, found, toAdd, tried, faults>>

\* An error, or no answer within ten seconds from a receiver that may have
\* taken it.
PostThrows(h) ==
    /\ job[h].at = "begun"
    /\ Accept(h) \/ UNCHANGED took
    /\ Again(h)
    /\ UNCHANGED <<note, active, found, toAdd, tried, faults>>

-----------------------------------------------------------------------------
(* processNotificationDelivery *)

SkipNotification(m) ==
    /\ job[m].at = "waiting"
    /\ note[m] # "PENDING"
    /\ Move(m, "over")
    /\ UNCHANGED <<note, active, found, toAdd, tried, took, faults>>

NoRecipient(m) ==
    /\ job[m].at = "waiting"
    /\ note[m] = "PENDING"
    /\ SetNote(m, "FAILED")
    /\ Move(m, "over")
    /\ UNCHANGED <<active, found, toAdd, tried, took, faults>>

\* The row, the address of its user or the update of NoRecipient fails.
LookupFails(m) ==
    /\ job[m].at = "waiting"
    /\ Fault
    /\ Again(m)
    /\ UNCHANGED <<note, active, found, toAdd, tried, took>>

SendMailAnyway(m) ==   \* seeded fault
    /\ job[m].at = "waiting"
    /\ Offer(m)
    /\ UNCHANGED <<note, active, found, toAdd, took, faults>>

SendMail(m) ==
    /\ job[m].at = "waiting"
    /\ note[m] = "PENDING"
    /\ Offer(m)
    /\ UNCHANGED <<note, active, found, toAdd, took, faults>>

MailTaken(m) ==
    /\ job[m].at = "begun"
    /\ Accept(m)
    /\ Move(m, "taken")
    /\ UNCHANGED <<note, active, found, toAdd, tried, faults>>

MailRefused(m) ==
    /\ job[m].at = "begun"
    /\ Move(m, "caught")
    /\ UNCHANGED <<note, active, found, toAdd, tried, took, faults>>

\* The server takes the mail and its answer is lost.
MailAnswerLost(m) ==
    /\ job[m].at = "begun"
    /\ Fault
    /\ Accept(m)
    /\ Move(m, "caught")
    /\ UNCHANGED <<note, active, found, toAdd, tried>>

NoteSent(m) ==
    /\ job[m].at = "taken"
    /\ SetNote(m, "SENT")
    /\ Move(m, "over")
    /\ UNCHANGED <<active, found, toAdd, tried, took, faults>>

\* The update is in the same try block as the sending.
NoteSentFails(m) ==
    /\ job[m].at = "taken"
    /\ Fault
    /\ Move(m, "caught")
    /\ UNCHANGED <<note, active, found, toAdd, tried, took>>

\* The catch block throws again: the queue is to try what is now FAILED.
NoteFailed(m) ==
    /\ job[m].at = "caught"
    /\ SetNote(m, "FAILED")
    /\ Again(m)
    /\ UNCHANGED <<active, found, toAdd, tried, took, faults>>

\* Only if the catch block fails is there something to try.
NoteFailedFails(m) ==
    /\ job[m].at = "caught"
    /\ Fault
    /\ Again(m)
    /\ UNCHANGED <<note, active, found, toAdd, tried, took>>

-----------------------------------------------------------------------------
StallForgotten(d) ==   \* seeded fault
    /\ job[d].at \in Running
    /\ Fault
    /\ Move(d, "lost")
    /\ UNCHANGED <<note, active, found, toAdd, tried, took>>

\* The process dies with the job.
Stall(d) ==
    /\ job[d].at \in Running
    /\ Fault
    /\ PutJob(d, IF job[d].stalled THEN "over" ELSE "waiting", job[d].left, TRUE)
    /\ UNCHANGED <<note, active, found, toAdd, tried, took>>

RunMail(m) ==
    \/ SkipNotification(m)
    \/ NoRecipient(m)
    \/ SendMail(m)
    \/ MailTaken(m)
    \/ MailRefused(m)
    \/ NoteSent(m)
    \/ NoteFailed(m)

RunHook(h) ==
    \/ PostWebhook(h)
    \/ PostAnswered(h)
    \/ PostThrows(h)

DispatchNext ==
    \/ \E m \in Mails :
          \/ SendNotification(m)
          \/ EnqueueNotification(m)
          \/ EnqueueNotificationFails(m)
          \/ RunMail(m)
          \/ MailAnswerLost(m)
          \/ NoteSentFails(m)
          \/ NoteFailedFails(m)
          \/ LookupFails(m)
    \/ FindActiveWebhooks
    \/ EnqueueWebhookDeliveryFails
    \/ \E h \in Hooks :
          EnqueueWebhookDelivery(h) \/ UpdateWebhook(h) \/ RunHook(h)
    \/ \E d \in Deliveries : Stall(d)

DispatchSpec == DispatchInit /\ [][DispatchNext]_vars

(* Fairness: the queue's workers take up what waits, and every call they   *)
(* make returns or runs into its timeout.                                  *)
FairDispatchSpec ==
    /\ DispatchSpec
    /\ \A m \in Mails : WF_vars(RunMail(m))
    /\ \A h \in Hooks : WF_vars(RunHook(h))
=============================================================================
