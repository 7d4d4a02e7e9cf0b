--------------------------- MODULE DispatchProofs ---------------------------
(***************************************************************************)
(* The safety properties of Dispatch for any number of mails, webhooks,    *)
(* attempts and faults.                                                    *)
(***************************************************************************)
EXTENDS DispatchProps, TLAPS

(* Types.                                                                  *)

LEMMA PutJobTyped ==
    ASSUME DispatchTypeOK, NEW d \in Deliveries, NEW at \in Places,
           NEW left \in 0..JobAttempts, NEW stalled \in BOOLEAN,
           PutJob(d, at, left, stalled)
    PROVE  job' \in [Deliveries -> Jobs]
  <1> DEFINE j == [at |-> at, left |-> left, stalled |-> stalled]
  <1>1. j \in Jobs /\ job' = [job EXCEPT ![d] = j]
    BY DEF Jobs, PutJob
  <1> HIDE DEF j
  <1> QED BY <1>1 DEF DispatchTypeOK

LEMMA MoveTyped ==
    ASSUME DispatchTypeOK, NEW d \in Deliveries, NEW at \in Places, Move(d, at)
    PROVE  job' \in [Deliveries -> Jobs]
  BY PutJobTyped DEF Move, DispatchTypeOK, Jobs

LEMMA AgainTyped ==
    ASSUME DispatchTypeOK, NEW d \in Deliveries, job[d].left > 0, Again(d)
    PROVE  job' \in [Deliveries -> Jobs]
  <1>1. job[d].left - 1 \in 0..JobAttempts /\ job[d].stalled \in BOOLEAN
    BY DispatchAssumption DEF DispatchTypeOK, Jobs
  <1> QED BY <1>1, PutJobTyped DEF Again, Places

\* A job that is queued or running has attempts left.
HasAttempts ==
    \A d \in Deliveries :
        job[d].at \notin {"lost", "over"} => job[d].left > 0

LEMMA DispatchTypeStep ==
    DispatchTypeOK /\ HasAttempts /\ [DispatchNext]_vars => DispatchTypeOK'
  <1> SUFFICES ASSUME DispatchTypeOK, HasAttempts, [DispatchNext]_vars
               PROVE  DispatchTypeOK'
    OBVIOUS
  <1> USE DEF Places
  <1>1. CASE UNCHANGED vars
    BY <1>1 DEF vars, DispatchTypeOK
  <1>2. ASSUME NEW m \in Mails,
               \/ SendNotification(m) \/ EnqueueNotification(m)
               \/ EnqueueNotificationFails(m)
        PROVE  DispatchTypeOK'
    <2>1. m \in Deliveries
      BY DEF Deliveries
    <2>2. job' \in [Deliveries -> Jobs]
      BY <1>2, <2>1, MoveTyped DEF SendNotification, EnqueueNotification,
         EnqueueNotificationFails
    <2> QED BY <1>2, <2>2 DEF SendNotification, EnqueueNotification,
            EnqueueNotificationFails, SetNote, Fault, DispatchTypeOK
  <1>3. ASSUME NEW m \in Mails, \/ RunMail(m) \/ MailAnswerLost(m)
                                \/ NoteSentFails(m) \/ NoteFailedFails(m) \/ LookupFails(m)
        PROVE  DispatchTypeOK'
    <2>1. m \in Deliveries
      BY DEF Deliveries
    <2>2. CASE NoteFailed(m) \/ NoteFailedFails(m) \/ LookupFails(m)
      <3>1. job' \in [Deliveries -> Jobs]
        BY <2>1, <2>2, AgainTyped DEF NoteFailed, NoteFailedFails, LookupFails, HasAttempts
      <3> QED BY <2>2, <3>1 DEF NoteFailed, NoteFailedFails, LookupFails, SetNote, Fault,
              DispatchTypeOK
    <2>3. CASE SkipNotification(m) \/ NoRecipient(m) \/ NoteSent(m) \/ NoteSentFails(m)
      <3>1. job' \in [Deliveries -> Jobs]
        BY <2>1, <2>3, MoveTyped DEF SkipNotification, NoRecipient, NoteSent,
           NoteSentFails
      <3> QED BY <2>3, <3>1 DEF SkipNotification, NoRecipient, NoteSent,
              NoteSentFails, SetNote, Fault, DispatchTypeOK
    <2>4. CASE SendMail(m) \/ MailTaken(m) \/ MailRefused(m) \/ MailAnswerLost(m)
      <3>1. job' \in [Deliveries -> Jobs]
        BY <2>1, <2>4, MoveTyped DEF SendMail, MailTaken, MailRefused,
           MailAnswerLost, Offer
      <3> QED BY <2>4, <3>1 DEF SendMail, MailTaken, MailRefused, MailAnswerLost,
              Offer, Accept, Fault, DispatchTypeOK
    <2> QED BY <1>3, <2>2, <2>3, <2>4 DEF RunMail
  <1>4. CASE FindActiveWebhooks
    BY <1>4 DEF FindActiveWebhooks, DispatchTypeOK
  <1>5. CASE EnqueueWebhookDeliveryFails
    <2>1. job' \in [Deliveries -> Jobs]
      BY <1>5 DEF EnqueueWebhookDeliveryFails, DispatchTypeOK, Jobs
    <2> QED BY <1>5, <2>1 DEF EnqueueWebhookDeliveryFails, Fault, DispatchTypeOK
  <1>6. ASSUME NEW h \in Hooks,
               EnqueueWebhookDelivery(h) \/ UpdateWebhook(h) \/ RunHook(h)
        PROVE  DispatchTypeOK'
    <2>1. h \in Deliveries
      BY DEF Deliveries
    <2>2. CASE PostThrows(h)
      <3>1. job' \in [Deliveries -> Jobs]
        BY <2>1, <2>2, AgainTyped DEF PostThrows, HasAttempts
      <3> QED BY <2>2, <3>1 DEF PostThrows, Accept, DispatchTypeOK
    <2>3. CASE EnqueueWebhookDelivery(h) \/ PostWebhook(h) \/ PostAnswered(h)
      <3>1. job' \in [Deliveries -> Jobs]
        BY <2>1, <2>3, MoveTyped DEF EnqueueWebhookDelivery, PostWebhook,
           PostAnswered, Offer
      <3> QED BY <2>3, <3>1 DEF EnqueueWebhookDelivery, PostWebhook,
              PostAnswered, Offer, Accept, DispatchTypeOK
    <2>4. CASE UpdateWebhook(h)
      BY <2>4 DEF UpdateWebhook, DispatchTypeOK
    <2> QED BY <1>6, <2>2, <2>3, <2>4 DEF RunHook
  <1>7. ASSUME NEW d \in Deliveries, Stall(d)
        PROVE  DispatchTypeOK'
    <2>1. job[d].left \in 0..JobAttempts
      BY DEF DispatchTypeOK, Jobs
    <2>2. job' \in [Deliveries -> Jobs]
      BY <1>7, <2>1, PutJobTyped DEF Stall
    <2> QED BY <1>7, <2>2 DEF Stall, Fault, DispatchTypeOK
  <1> QED BY <1>1, <1>2, <1>3, <1>4, <1>5, <1>6, <1>7 DEF DispatchNext

-----------------------------------------------------------------------------
(* What a mail and a webhook have spent, and what for.                     *)

Used(d) == JobAttempts - job[d].left
Stalls(d) == IF job[d].stalled THEN 1 ELSE 0

\* As long as a mail is PENDING every attempt that is gone was a fault's.
MailInv(m) ==
    /\ job[m].at \notin {"lost", "over"} => job[m].left > 0
    /\ note[m] = "NONE" <=> job[m].at = "none"
    /\ job[m].at \in {"none", "adding"} =>
          tried[m] = 0 /\ took[m] = 0 /\ Used(m) = 0 /\ Stalls(m) = 0
    /\ job[m].at \in Running \cup {"adding"} => note[m] = "PENDING"
    /\ job[m].at = "lost" => faults > 0
    /\ took[m] <= tried[m] /\ tried[m] <= 1 + faults
    /\ job[m].at = "waiting" /\ note[m] = "PENDING" => tried[m] <= faults
    /\ job[m].at = "begun" => took[m] < tried[m]
    /\ job[m].at = "taken" => took[m] >= 1
    /\ job[m].at = "caught" => took[m] <= faults
    /\ note[m] = "SENT" => took[m] >= 1
    /\ note[m] = "FAILED" => took[m] <= faults
    /\ job[m].at \in Running \cup {"waiting"} /\ note[m] = "PENDING" =>
          Used(m) <= faults /\ Stalls(m) <= faults
    /\ job[m].at = "over" /\ note[m] = "PENDING" => faults >= 2 \/ faults >= JobAttempts

\* A webhook was offered once for every attempt and every death.
HookInv(h) ==
    /\ job[h].at \notin {"lost", "over"} => job[h].left > 0
    /\ job[h].at \in {"none", "waiting", "begun", "over", "lost"}
    /\ h \in toAdd => found
    /\ ~found \/ h \in toAdd => job[h].at = "none"
    /\ job[h].at \in {"none", "waiting"} => tried[h] = Used(h) + Stalls(h)
    /\ job[h].at = "begun" => tried[h] = Used(h) + Stalls(h) + 1
    /\ Stalls(h) <= faults
    /\ tried[h] <= JobAttempts + faults
    /\ job[h].at = "lost" => faults > 0
    /\ job[h].at = "over" => took[h] > 0 \/ tried[h] >= JobAttempts \/ faults >= 2

Spent == (\A m \in Mails : MailInv(m)) /\ (\A h \in Hooks : HookInv(h))

LEMMA SpentHasAttempts == Spent => HasAttempts
  BY DEF Spent, MailInv, HookInv, HasAttempts, Deliveries

LEMMA FaultCounts ==
    ASSUME DispatchTypeOK, [DispatchNext]_vars
    PROVE  faults' = faults \/ faults' = faults + 1
  BY DEF DispatchNext, vars, SendNotification, EnqueueNotification,
     EnqueueNotificationFails, RunMail, SkipNotification, NoRecipient, SendMail,
     MailTaken, MailRefused, MailAnswerLost, NoteSent, NoteSentFails, NoteFailed,
     NoteFailedFails, LookupFails, FindActiveWebhooks, EnqueueWebhookDelivery,
     EnqueueWebhookDeliveryFails, UpdateWebhook, RunHook, PostWebhook, PostAnswered,
     PostThrows, Stall, Fault

\* What a step did not touch is as it was, with as many faults or more.
LEMMA MailKept ==
    ASSUME DispatchTypeOK, NEW m \in Mails, MailInv(m),
           faults' = faults \/ faults' = faults + 1,
           job'[m] = job[m], note'[m] = note[m], tried'[m] = tried[m], took'[m] = took[m]
    PROVE  MailInv(m)'
  <1>1. faults \in Nat /\ tried[m] \in Nat /\ took[m] \in Nat /\ JobAttempts \in Nat
    BY DispatchAssumption DEF DispatchTypeOK, Deliveries
  <1>2. job[m].left \in Int
    BY DispatchAssumption DEF DispatchTypeOK, Deliveries, Jobs
  <1> QED BY <1>1, <1>2 DEF MailInv, Used, Stalls

\* The steps that touch a mail.
LEMMA MailTouched ==
    ASSUME DispatchTypeOK, NEW m \in Mails, MailInv(m),
           \/ SendNotification(m) \/ EnqueueNotification(m)
           \/ EnqueueNotificationFails(m)
           \/ RunMail(m) \/ MailAnswerLost(m) \/ NoteSentFails(m)
           \/ NoteFailedFails(m) \/ LookupFails(m) \/ Stall(m)
    PROVE  MailInv(m)'
  <1>1. /\ faults \in Nat /\ tried[m] \in Nat /\ took[m] \in Nat
        /\ JobAttempts \in Nat \ {0} /\ m \in Deliveries
        /\ m \in DOMAIN job /\ m \in DOMAIN note /\ m \in DOMAIN tried
        /\ m \in DOMAIN took
    BY DispatchAssumption DEF DispatchTypeOK, Deliveries
  <1>2. job[m].left \in Int /\ job[m].stalled \in BOOLEAN
    BY <1>1, DispatchAssumption DEF DispatchTypeOK, Jobs
  <1> USE <1>1, <1>2 DEF MailInv, Used, Stalls, Running, Move, PutJob, SetNote
  <1>3. CASE SendNotification(m)
    BY <1>3 DEF SendNotification
  <1>4. CASE EnqueueNotification(m)
    BY <1>4 DEF EnqueueNotification
  <1>5. CASE EnqueueNotificationFails(m)
    BY <1>5 DEF EnqueueNotificationFails, Fault
  <1>6. CASE SkipNotification(m)
    BY <1>6 DEF SkipNotification
  <1>7. CASE NoRecipient(m)
    BY <1>7 DEF NoRecipient
  <1>8. CASE SendMail(m)
    BY <1>8 DEF SendMail, Offer
  <1>9. CASE MailTaken(m)
    BY <1>9 DEF MailTaken, Accept
  <1>10. CASE MailRefused(m)
    BY <1>10 DEF MailRefused
  <1>11. CASE MailAnswerLost(m)
    BY <1>11 DEF MailAnswerLost, Accept, Fault
  <1>12. CASE NoteSent(m)
    BY <1>12 DEF NoteSent
  <1>13. CASE NoteSentFails(m)
    BY <1>13 DEF NoteSentFails, Fault
  <1>14. CASE NoteFailed(m)
    BY <1>14 DEF NoteFailed, Again
  <1>15. CASE NoteFailedFails(m) \/ LookupFails(m)
    BY <1>15 DEF NoteFailedFails, LookupFails, Again, Fault
  <1>16. CASE Stall(m)
    BY <1>16 DEF Stall, Fault
  <1> QED BY <1>3, <1>4, <1>5, <1>6, <1>7, <1>8, <1>9, <1>10, <1>11, <1>12, <1>13,
          <1>14, <1>15, <1>16 DEF RunMail

LEMMA HookKept ==
    ASSUME DispatchTypeOK, NEW h \in Hooks, HookInv(h),
           faults' = faults \/ faults' = faults + 1,
           found' /\ h \in toAdd' => ~found \/ h \in toAdd,
           ~found' => ~found /\ h \notin toAdd',
           job'[h] = job[h], tried'[h] = tried[h], took'[h] = took[h]
    PROVE  HookInv(h)'
  <1>1. faults \in Nat /\ tried[h] \in Nat /\ took[h] \in Nat /\ JobAttempts \in Nat
    BY DispatchAssumption DEF DispatchTypeOK, Deliveries
  <1>2. job[h].left \in Int
    BY DispatchAssumption DEF DispatchTypeOK, Deliveries, Jobs
  <1> QED BY <1>1, <1>2 DEF HookInv, Used, Stalls

\* The steps that touch a webhook.
LEMMA HookTouched ==
    ASSUME DispatchTypeOK, NEW h \in Hooks, HookInv(h),
           \/ EnqueueWebhookDelivery(h) \/ RunHook(h) \/ Stall(h)
           \/ EnqueueWebhookDeliveryFails /\ h \in toAdd
    PROVE  HookInv(h)'
  <1>1. /\ faults \in Nat /\ tried[h] \in Nat /\ took[h] \in Nat
        /\ JobAttempts \in Nat \ {0} /\ h \in Deliveries
        /\ h \in DOMAIN job /\ h \in DOMAIN tried /\ h \in DOMAIN took
    BY DispatchAssumption DEF DispatchTypeOK, Deliveries
  <1>2. job[h].left \in Int /\ job[h].stalled \in BOOLEAN /\ found \in BOOLEAN
    BY <1>1, DispatchAssumption DEF DispatchTypeOK, Jobs
  <1> USE <1>1, <1>2 DEF HookInv, Used, Stalls, Running, Move, PutJob
  <1>3. CASE EnqueueWebhookDelivery(h)
    BY <1>3 DEF EnqueueWebhookDelivery
  <1>4. CASE EnqueueWebhookDeliveryFails /\ h \in toAdd
    <2>1. job'[h] = [at |-> "lost", left |-> job[h].left, stalled |-> job[h].stalled]
      BY <1>4 DEF EnqueueWebhookDeliveryFails
    <2>2. job[h].at = "none" /\ found' /\ toAdd' = {} /\ faults' = faults + 1
      BY <1>4 DEF EnqueueWebhookDeliveryFails, Fault
    <2> QED BY <1>4, <2>1, <2>2 DEF EnqueueWebhookDeliveryFails
  <1>5. CASE PostWebhook(h)
    BY <1>5 DEF PostWebhook, Offer
  <1>6. CASE PostAnswered(h)
    BY <1>6 DEF PostAnswered, Accept
  <1>7. CASE PostThrows(h)
    BY <1>7 DEF PostThrows, Again, Accept
  <1>8. CASE Stall(h)
    BY <1>8 DEF Stall, Fault
  <1> QED BY <1>3, <1>4, <1>5, <1>6, <1>7, <1>8 DEF RunHook

LEMMA SpentStep ==
    ASSUME DispatchTypeOK, Spent, [DispatchNext]_vars
    PROVE  Spent'
  <1>1. faults' = faults \/ faults' = faults + 1
    BY FaultCounts
  <1>2. \A d \in Hooks : d \notin Mails
    BY DispatchAssumption
  <1>3. \A d \in Deliveries : d \in Mails \/ d \in Hooks
    BY DEF Deliveries
  <1>4. ASSUME UNCHANGED vars
        PROVE  Spent'
    <2>1. ASSUME NEW m \in Mails PROVE MailInv(m)'
      BY <1>1, <1>4, MailKept DEF vars, Spent
    <2>2. ASSUME NEW h \in Hooks PROVE HookInv(h)'
      <3>1. HookInv(h) /\ job'[h] = job[h] /\ tried'[h] = tried[h] /\ took'[h] = took[h]
            /\ found' = found /\ toAdd' = toAdd
        BY <1>4 DEF vars, Spent
      <3>2. ~found => h \notin toAdd
        BY <3>1 DEF HookInv
      <3> QED BY <1>1, <3>1, <3>2, HookKept
    <2> QED BY <2>1, <2>2 DEF Spent
  <1>5. ASSUME NEW d \in Mails,
               \/ SendNotification(d) \/ EnqueueNotification(d)
               \/ EnqueueNotificationFails(d)
               \/ RunMail(d) \/ MailAnswerLost(d) \/ NoteSentFails(d)
               \/ NoteFailedFails(d) \/ LookupFails(d) \/ Stall(d)
        PROVE  Spent'
    <2>1. found' = found /\ toAdd' = toAdd
      BY <1>5 DEF SendNotification, EnqueueNotification, EnqueueNotificationFails,
         RunMail, SkipNotification, NoRecipient, SendMail, MailTaken, MailRefused,
         MailAnswerLost, NoteSent, NoteSentFails, NoteFailed, NoteFailedFails, LookupFails, Stall
    <2>2. \A e \in Deliveries : e # d =>
              job'[e] = job[e] /\ tried'[e] = tried[e] /\ took'[e] = took[e]
      BY <1>5 DEF SendNotification, EnqueueNotification, EnqueueNotificationFails,
         RunMail, SkipNotification, NoRecipient, SendMail, MailTaken, MailRefused,
         MailAnswerLost, NoteSent, NoteSentFails, NoteFailed, NoteFailedFails, LookupFails, Stall,
         Again, Offer, Accept, Move, PutJob, DispatchTypeOK
    <2>3. \A m \in Mails : m # d => note'[m] = note[m]
      BY <1>5 DEF SendNotification, EnqueueNotification, EnqueueNotificationFails,
         RunMail, SkipNotification, NoRecipient, SendMail, MailTaken, MailRefused,
         MailAnswerLost, NoteSent, NoteSentFails, NoteFailed, NoteFailedFails, LookupFails, Stall,
         SetNote, DispatchTypeOK
    <2>4. ASSUME NEW m \in Mails PROVE MailInv(m)'
      <3>1. m \in Deliveries /\ MailInv(m)
        BY DEF Deliveries, Spent
      <3>2. CASE m = d
        BY <1>5, <3>1, <3>2, MailTouched
      <3>3. CASE m # d
        BY <1>1, <2>2, <2>3, <3>1, <3>3, MailKept
      <3> QED BY <3>2, <3>3
    <2>5. ASSUME NEW h \in Hooks PROVE HookInv(h)'
      <3>1. h \in Deliveries /\ h # d /\ HookInv(h)
        BY <1>2 DEF Deliveries, Spent
      <3>2. ~found => h \notin toAdd
        BY <3>1 DEF HookInv
      <3> QED BY <1>1, <2>1, <2>2, <3>1, <3>2, HookKept
    <2> QED BY <2>4, <2>5 DEF Spent
  <1>6. ASSUME NEW d \in Hooks,
               EnqueueWebhookDelivery(d) \/ RunHook(d) \/ Stall(d)
        PROVE  Spent'
    <2>1. note' = note /\ found' = found /\ toAdd' \subseteq toAdd
      BY <1>6 DEF EnqueueWebhookDelivery, RunHook, PostWebhook, PostAnswered,
         PostThrows, Stall
    <2>2. \A e \in Deliveries : e # d =>
              job'[e] = job[e] /\ tried'[e] = tried[e] /\ took'[e] = took[e]
      BY <1>6 DEF EnqueueWebhookDelivery, RunHook, PostWebhook, PostAnswered,
         PostThrows, Stall, Again, Offer, Accept, Move, PutJob, DispatchTypeOK
    <2>3. ASSUME NEW m \in Mails PROVE MailInv(m)'
      <3>1. m \in Deliveries /\ m # d /\ MailInv(m)
        BY <1>2 DEF Deliveries, Spent
      <3> QED BY <1>1, <2>1, <2>2, <3>1, MailKept
    <2>4. ASSUME NEW h \in Hooks PROVE HookInv(h)'
      <3>1. h \in Deliveries /\ HookInv(h)
        BY DEF Deliveries, Spent
      <3>2. ~found => h \notin toAdd
        BY <3>1 DEF HookInv
      <3>3. CASE h = d
        BY <1>6, <3>1, <3>3, HookTouched
      <3>4. CASE h # d
        BY <1>1, <2>1, <2>2, <3>1, <3>2, <3>4, HookKept
      <3> QED BY <3>3, <3>4
    <2> QED BY <2>3, <2>4 DEF Spent
  <1>7. ASSUME EnqueueWebhookDeliveryFails
        PROVE  Spent'
    <2>1. /\ note' = note /\ found' = found /\ toAdd' = {}
          /\ tried' = tried /\ took' = took
      BY <1>7 DEF EnqueueWebhookDeliveryFails
    <2>2. \A e \in Deliveries : e \notin toAdd => job'[e] = job[e]
      BY <1>7 DEF EnqueueWebhookDeliveryFails
    <2>3. ASSUME NEW m \in Mails PROVE MailInv(m)'
      <3>1. m \in Deliveries /\ m \notin toAdd /\ MailInv(m)
        BY <1>2 DEF Deliveries, Spent, DispatchTypeOK
      <3> QED BY <1>1, <2>1, <2>2, <3>1, MailKept
    <2>4. ASSUME NEW h \in Hooks PROVE HookInv(h)'
      <3>1. h \in Deliveries /\ HookInv(h)
        BY DEF Deliveries, Spent
      <3>2. CASE h \in toAdd
        BY <1>7, <3>1, <3>2, HookTouched
      <3>3. CASE h \notin toAdd
        BY <1>1, <2>1, <2>2, <3>1, <3>3, HookKept
      <3> QED BY <3>2, <3>3
    <2> QED BY <2>3, <2>4 DEF Spent
  <1>8. ASSUME FindActiveWebhooks \/ \E h \in Hooks : UpdateWebhook(h)
        PROVE  Spent'
    <2>1. /\ note' = note /\ job' = job /\ tried' = tried /\ took' = took
          /\ ~found \/ (found' = found /\ toAdd' = toAdd)
          /\ found' \/ (found' = found /\ toAdd' = toAdd)
      BY <1>8 DEF FindActiveWebhooks, UpdateWebhook
    <2>2. ASSUME NEW m \in Mails PROVE MailInv(m)'
      BY <1>1, <2>1, MailKept DEF Spent
    <2>3. ASSUME NEW h \in Hooks PROVE HookInv(h)'
      <3>1. HookInv(h)
        BY DEF Spent
      <3>2. ~found => h \notin toAdd
        BY <3>1 DEF HookInv
      <3> QED BY <1>1, <2>1, <3>1, <3>2, HookKept
    <2> QED BY <2>2, <2>3 DEF Spent
  <1> QED BY <1>3, <1>4, <1>5, <1>6, <1>7, <1>8 DEF DispatchNext

-----------------------------------------------------------------------------
LEMMA DispatchInitOK == DispatchInit => DispatchTypeOK /\ Spent
  <1> SUFFICES ASSUME DispatchInit PROVE DispatchTypeOK /\ Spent
    OBVIOUS
  <1>1. JobAttempts \in Nat \ {0} /\ MaxFaults \in Nat
    BY DispatchAssumption
  <1>2. ASSUME NEW d \in Deliveries
        PROVE  /\ job[d].at = "none" /\ job[d].left = JobAttempts
               /\ tried[d] = 0 /\ took[d] = 0 /\ Used(d) = 0 /\ Stalls(d) = 0
    <2>1. /\ job[d] = [at |-> "none", left |-> JobAttempts, stalled |-> FALSE]
          /\ tried[d] = 0 /\ took[d] = 0
      BY DEF DispatchInit
    <2>2. job[d].left = JobAttempts /\ job[d].at = "none" /\ ~job[d].stalled
      BY <2>1
    <2>3. Stalls(d) = 0
      BY <2>2 DEF Stalls
    <2>4. Used(d) = 0
      BY <1>1, <2>2 DEF Used
    <2> QED BY <2>1, <2>2, <2>3, <2>4
  <1>3. DispatchTypeOK
    <2>1. job \in [Deliveries -> Jobs]
      BY <1>1 DEF DispatchInit, Jobs, Places
    <2> QED BY <2>1 DEF DispatchInit, DispatchTypeOK
  <1>4. ASSUME NEW m \in Mails PROVE MailInv(m)
    <2>1. m \in Deliveries /\ note[m] = "NONE" /\ faults = 0
      BY DEF Deliveries, DispatchInit
    <2> QED BY <1>1, <1>2, <2>1 DEF MailInv, Running
  <1>5. ASSUME NEW h \in Hooks PROVE HookInv(h)
    <2>1. h \in Deliveries /\ ~found /\ toAdd = {} /\ faults = 0
      BY DEF Deliveries, DispatchInit
    <2> QED BY <1>1, <1>2, <2>1 DEF HookInv
  <1> QED BY <1>3, <1>4, <1>5 DEF Spent

LEMMA DispatchInvariant == DispatchSpec => [](DispatchTypeOK /\ Spent)
  <1>1. DispatchTypeOK /\ Spent /\ [DispatchNext]_vars => DispatchTypeOK' /\ Spent'
    BY DispatchTypeStep, SpentHasAttempts, SpentStep
  <1> QED BY <1>1, DispatchInitOK, PTL DEF DispatchSpec

\* The variables hold what the rows and the jobs can: no job has more
\* attempts than it was given or fewer than none.
THEOREM DispatchTypeCorrect == DispatchSpec => []DispatchTypeOK
  BY DispatchInvariant, PTL

\* The rows of the mails are true for any number of mails, attempts and faults.
THEOREM MailsAreTrue == DispatchSpec => []MailIsTrue
  <1>1. Spent => MailIsTrue
    BY DEF Spent, MailInv, MailIsTrue
  <1> QED BY <1>1, DispatchInvariant, PTL

\* Nothing is dropped without one of the reasons.
THEOREM DropsHaveReasons == DispatchSpec => []DroppedForAReason
  <1>1. Spent => DroppedForAReason
    BY DEF Spent, MailInv, HookInv, DroppedForAReason, Deliveries
  <1> QED BY <1>1, DispatchInvariant, PTL
=============================================================================
