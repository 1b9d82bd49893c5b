---------------------------- MODULE BillingWebhook ----------------------------
(***************************************************************************)
(* POST /billing/webhook (routers/billing.py) and the two functions that   *)
(* apply an event to the organisation (services/stripe_service.py).        *)
(*                                                                         *)
(* Stripe sends an event again until it is acknowledged and promises no    *)
(* order.  A handler looks the event up, computes the organisation's new   *)
(* columns in memory and commits them with the event's id in one           *)
(* transaction; the unique index on stripe_event_id decides between two    *)
(* handlers that passed the lookup together.  One organisation is enough:  *)
(* a handler touches no other, and it is always found, by the metadata     *)
(* create_checkout_session attaches or by the customer id it commits.      *)
(***************************************************************************)
EXTENDS Naturals

CONSTANTS
  Events,         \* event ids
  Subscriptions,  \* the organisation's subscriptions, each bought for a tier
  NoSubscription, \* NULL in stripe_subscription_id; also the default tier
  Handlers,       \* webhook requests that may be in progress at once
  NotSent,        \* an event id Stripe has not used yet
  MaxCrashes      \* bound: API processes that die in the middle of a request

ASSUME BillingAssumption == NoSubscription \notin Subscriptions

SubscriptionStatus == {"INACTIVE", "TRIALING", "ACTIVE", "PAST_DUE", "CANCELED", "UNPAID"}

(* "OTHER" is a Stripe status the Enum does not have (incomplete, paused).  *)
EventData ==
  [type : {"checkout"}, subscription : Subscriptions]
  \cup [type : {"subscription"}, subscription : Subscriptions,
        status : SubscriptionStatus \cup {"OTHER"}]
  \cup [type : {"payment_failed", "paid"}]

ASSUME NotSentAssumption == NotSent \notin EventData

Organization == [status       : SubscriptionStatus,
                 subscription : Subscriptions \cup {NoSubscription},
                 tier         : Subscriptions \cup {NoSubscription}]

Unsubscribed == [status |-> "INACTIVE", subscription |-> NoSubscription,
                 tier |-> NoSubscription]

-----------------------------------------------------------------------------
(* What an event makes of the organisation that was read.                  *)

ApplyCheckoutCompleted(org, event) ==
  [org EXCEPT !.subscription = event.subscription, !.tier = event.subscription]

\* Mutant: a status Stripe added since is stored as it came.
ApplyRawStatus(org, event) ==
  [status |-> event.status, subscription |-> event.subscription, tier |-> event.subscription]

ApplySubscriptionEvent(org, event) ==
  LET status == IF event.status \in SubscriptionStatus THEN event.status ELSE "INACTIVE"
  IN  [status       |-> status,
       subscription |-> IF status = "CANCELED" THEN NoSubscription ELSE event.subscription,
       tier         |-> event.subscription]

ApplyInvoiceEvent(org, event) ==
  IF event.type = "payment_failed" THEN [org EXCEPT !.status = "PAST_DUE"]
  ELSE IF org.status = "PAST_DUE" THEN [org EXCEPT !.status = "ACTIVE"]
  ELSE org

Apply(org, event) ==
  IF event.type = "checkout" THEN ApplyCheckoutCompleted(org, event)
  ELSE IF event.type = "subscription" THEN ApplySubscriptionEvent(org, event)
  ELSE ApplyInvoiceEvent(org, event)

(* The UPDATE names the columns whose value differs from the one read.      *)
Flushed(current, seen, new) ==
  [c \in {"status", "subscription", "tier"} |->
     IF new[c] = seen[c] THEN current[c] ELSE new[c]]

-----------------------------------------------------------------------------

VARIABLES
  org,           \* the organisation's row
  sent,          \* what each event says, NotSent before Stripe creates it
  recorded,      \* rows of billing_webhook_events
  acknowledged,  \* events Stripe got a 200 for
  handler,       \* local state of each request
  applied,       \* history: how often each event's columns were committed
  crashes

vars == <<org, sent, recorded, acknowledged, handler, applied, crashes>>

HandlerState == [busy : BOOLEAN, event : Events \cup {NotSent},
                 seen : Organization, new : Organization]

Free == [busy |-> FALSE, event |-> NotSent, seen |-> Unsubscribed, new |-> Unsubscribed]

Init ==
  /\ org = Unsubscribed
  /\ sent = [e \in Events |-> NotSent]
  /\ recorded = {}
  /\ acknowledged = {}
  /\ handler = [h \in Handlers |-> Free]
  /\ applied = [e \in Events |-> 0]
  /\ crashes = 0

\* Stripe creates an event.
Send(e, data) ==
  /\ sent[e] = NotSent
  /\ sent' = [sent EXCEPT ![e] = data]
  /\ UNCHANGED <<org, recorded, acknowledged, handler, applied, crashes>>

\* Mutant: the events table is not consulted.
NeverSeen(e) == TRUE

Unseen(e) == e \notin recorded

Started(e) == [busy |-> TRUE, event |-> e, seen |-> org, new |-> Apply(org, sent[e])]

\* Mutant: the delivery is acknowledged before the work, as a background task would.
ReceiveAcknowledgesFirst(h, e) ==
  /\ sent[e] # NotSent
  /\ ~handler[h].busy
  /\ acknowledged' = acknowledged \cup {e}
  /\ handler' = IF Unseen(e)
                  THEN [handler EXCEPT ![h] = Started(e)]
                  ELSE handler
  /\ UNCHANGED <<org, sent, recorded, applied, crashes>>

\* Mutant: the helper commits the organisation before the event's id is added.
ReceiveCommitsColumns(h, e) ==
  /\ sent[e] # NotSent
  /\ ~handler[h].busy
  /\ Unseen(e)
  /\ org' = Apply(org, sent[e])
  /\ handler' = [handler EXCEPT ![h] = Started(e)]
  /\ UNCHANGED <<sent, recorded, acknowledged, applied, crashes>>

\* A delivery arrives: an event already recorded is acknowledged at once.
Receive(h, e) ==
  /\ sent[e] # NotSent
  /\ ~handler[h].busy
  /\ IF Unseen(e)
       THEN /\ handler' = [handler EXCEPT ![h] = Started(e)]
            /\ UNCHANGED acknowledged
       ELSE /\ acknowledged' = acknowledged \cup {e}
            /\ UNCHANGED handler
  /\ UNCHANGED <<org, sent, recorded, applied, crashes>>

\* Mutant: the event's id is added without a unique index.
CommitsAlways(e) == TRUE

\* The INSERT of the event's id succeeds.
InsertSucceeds(e) == e \notin recorded

\* An IntegrityError rolls the whole transaction back and still answers 200.
Commit(h) ==
  LET e == handler[h].event
  IN  /\ handler[h].busy
      /\ IF InsertSucceeds(e)
           THEN /\ org' = Flushed(org, handler[h].seen, handler[h].new)
                /\ recorded' = recorded \cup {e}
                /\ applied' = [applied EXCEPT ![e] = @ + 1]
           ELSE UNCHANGED <<org, recorded, applied>>
      /\ acknowledged' = acknowledged \cup {e}
      /\ handler' = [handler EXCEPT ![h] = Free]
      /\ UNCHANGED <<sent, crashes>>

\* The process dies, or the commit fails, before the answer: Stripe tries again.
Crash(h) ==
  /\ handler[h].busy
  /\ crashes < MaxCrashes
  /\ crashes' = crashes + 1
  /\ handler' = [handler EXCEPT ![h] = Free]
  /\ UNCHANGED <<org, sent, recorded, acknowledged, applied>>

Next ==
  \/ \E e \in Events, data \in EventData : Send(e, data)
  \/ \E h \in Handlers, e \in Events : Receive(h, e)
  \/ \E h \in Handlers : Commit(h) \/ Crash(h)

Spec == Init /\ [][Next]_vars

(***************************************************************************)
(* Fairness: Stripe delivers an event again and again until it gets a 200, *)
(* so a delivery that finds a free handler often enough is taken, and a    *)
(* request in progress ends.                                               *)
(***************************************************************************)
Fairness ==
  /\ \A e \in Events : SF_vars(e \notin acknowledged /\ \E h \in Handlers : Receive(h, e))
  /\ \A h \in Handlers : WF_vars(Commit(h))

FairSpec == Spec /\ Fairness

-----------------------------------------------------------------------------
(* Properties.                                                             *)

TypeOK ==
  /\ org \in Organization
  /\ sent \in [Events -> EventData \cup {NotSent}]
  /\ recorded \subseteq Events
  /\ acknowledged \subseteq Events
  /\ handler \in [Handlers -> HandlerState]
  /\ applied \in [Events -> Nat]
  /\ crashes \in Nat

(* An event changes the organisation at most once, although Stripe repeats  *)
(* it and two requests may both find it missing in stripe_webhook's lookup. *)
EventAppliedOnce == \A e \in Events : applied[e] <= 1

(* Stripe stops sending only events whose effect is committed: a 200 is     *)
(* answered for a duplicate or after the commit, never for a lost event.    *)
AcknowledgedIsApplied == \A e \in acknowledged : applied[e] > 0

(* Served one request at a time, as one API process with no await between   *)
(* the lookup and the commit does, the webhook is the ledger: the columns   *)
(* are those of whole events applied one after the other.                   *)
Ledger == INSTANCE BillingLedger WITH Data <- EventData
KeepsLedger == Ledger!Spec

(* Every event Stripe sends changes the organisation in the end, although   *)
(* a request may die at any point before its commit.                        *)
SentIsApplied == \A e \in Events : sent[e] # NotSent ~> applied[e] > 0

-----------------------------------------------------------------------------
(* A claim of the repository that this code does not keep.                  *)

Lapsed == {"CANCELED", "UNPAID"}

(* Not a property of this code: apply_invoice_event says that a definitive  *)
(* lapse, and every status but a failed payment, is decided by subscription *)
(* events, so an invoice would not end the lapse that blocks proposal work. *)
LapseEndsBySubscriptionEvent ==
  [][org.status \in Lapsed /\ org'.status \notin Lapsed =>
       \E e \in recorded' \ recorded : sent[e].type = "subscription"]_vars

-----------------------------------------------------------------------------
(* The inductive invariant behind EventAppliedOnce and AcknowledgedIsApplied.*)

AppliedIsRecorded == \A e \in Events : applied[e] = IF e \in recorded THEN 1 ELSE 0

BusyOnSent == \A h \in Handlers : handler[h].busy => handler[h].event \in Events

SafetyInv ==
  /\ TypeOK
  /\ AppliedIsRecorded
  /\ BusyOnSent
  /\ acknowledged \subseteq recorded

=============================================================================
