--------------------------- MODULE DispatchProps ---------------------------
(***************************************************************************)
(* What is checked and proved of Dispatch.                                 *)
(***************************************************************************)
EXTENDS Dispatch

\* The row of a mail says what became of it, but for faults: SENT was taken
\* by the mail server, FAILED was not, and no mail is offered twice unless
\* something failed in between: the queue's attempts are not attempts to send.
MailIsTrue ==
    \A m \in Mails :
        /\ note[m] = "SENT" => took[m] >= 1
        /\ note[m] = "FAILED" => took[m] <= faults
        /\ took[m] <= tried[m]
        /\ tried[m] <= 1 + faults

\* What ends without having reached anyone has used up its attempts or its
\* process died twice; what has no job was lost to a fault; and a mail that
\* has ended is still PENDING only if as much as that failed.
DroppedForAReason ==
    /\ \A d \in Deliveries : job[d].at = "lost" => faults > 0
    /\ \A h \in Hooks :
          /\ job[h].at = "over" =>
                took[h] > 0 \/ tried[h] >= JobAttempts \/ faults >= 2
          /\ tried[h] <= JobAttempts + faults
    /\ \A m \in Mails :
          job[m].at = "over" /\ note[m] = "PENDING" =>
              faults >= 2 \/ faults >= JobAttempts

\* What has a job comes to an end, whoever refuses it and whatever dies.
QueuedIsOver ==
    \A d \in Deliveries : job[d].at = "waiting" ~> job[d].at = "over"
=============================================================================
