\* Two requests at once, as two API processes would serve them.
SPECIFICATION Spec
CONSTANTS
  NoSubscription = none
  NotSent = NotSent
  Events = {e1, e2, e3}
  Subscriptions = {s1}
  Handlers = {h1, h2}
  MaxCrashes = 1
SYMMETRY Symmetry
INVARIANTS TypeOK EventAppliedOnce AcknowledgedIsApplied
\* Every event has been sent and acknowledged.
CHECK_DEADLOCK FALSE
