\* Invoice and subscription events arrive in any order.
SPECIFICATION Spec
CONSTANTS
  NoSubscription = none
  NotSent = NotSent
  Events = {e1, e2}
  Subscriptions = {s1}
  Handlers = {h1}
  MaxCrashes = 0
PROPERTIES LapseEndsBySubscriptionEvent
\* Every event has been sent and acknowledged.
CHECK_DEADLOCK FALSE
