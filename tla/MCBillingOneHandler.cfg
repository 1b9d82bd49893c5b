\* The deployed API: one request at a time.
SPECIFICATION FairSpec
CONSTANTS
  NoSubscription = none
  NotSent = NotSent
  Events = {e1, e2, e3}
  Subscriptions = {s1}
  Handlers = {h1}
  MaxCrashes = 1
PROPERTIES KeepsLedger SentIsApplied
\* Every event has been sent and acknowledged.
CHECK_DEADLOCK FALSE
