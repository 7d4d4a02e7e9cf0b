SPECIFICATION FairDispatchSpec
CONSTANTS
    Mails = {m1}
    Hooks = {h1, h2}
    JobAttempts = 2
    MaxFaults = 2
CHECK_DEADLOCK FALSE
INVARIANTS MailIsTrue DroppedForAReason
PROPERTY QueuedIsOver
