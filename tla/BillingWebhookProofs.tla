------------------------- MODULE BillingWebhookProofs -------------------------
(* Theorems about the billing webhook, for every set of events and handlers. *)
EXTENDS BillingWebhook, TLAPS

USE DEF SubscriptionStatus

(* What an event makes of an organisation is an organisation.               *)
LEMMA ApplyType ==
  ASSUME NEW o \in Organization, NEW d \in EventData
  PROVE  Apply(o, d) \in Organization
<1>1. CASE d \in [type : {"checkout"}, subscription : Subscriptions]
  BY <1>1 DEF Apply, ApplyCheckoutCompleted, Organization
<1>2. CASE d \in [type : {"subscription"}, subscription : Subscriptions,
                  status : SubscriptionStatus \cup {"OTHER"}]
  <2>1. d.type = "subscription" /\ d.subscription \in Subscriptions
    BY <1>2
  <2>2. ApplySubscriptionEvent(o, d) \in Organization
    BY <2>1 DEF ApplySubscriptionEvent, Organization
  <2> QED BY <2>1, <2>2 DEF Apply
<1>3. CASE d \in [type : {"payment_failed", "paid"}]
  BY <1>3 DEF Apply, ApplyInvoiceEvent, Organization
<1> QED BY <1>1, <1>2, <1>3 DEF EventData

(* A flush writes values of the row read or of the new one.                 *)
LEMMA FlushedType ==
  ASSUME NEW a \in Organization, NEW b \in Organization, NEW c \in Organization
  PROVE  Flushed(a, b, c) \in Organization
BY DEF Flushed, Organization

LEMMA UnsubscribedType == Unsubscribed \in Organization
BY DEF Unsubscribed, Organization

LEMMA FreeType == Free \in HandlerState /\ ~Free.busy
BY UnsubscribedType DEF Free, HandlerState

-----------------------------------------------------------------------------
(* The inductive invariant.                                                 *)

LEMMA InitInv == Init => SafetyInv
<1> SUFFICES ASSUME Init PROVE SafetyInv
  OBVIOUS
<1>1. TypeOK
  BY UnsubscribedType, FreeType DEF Init, TypeOK
<1>2. AppliedIsRecorded /\ BusyOnSent /\ acknowledged \subseteq recorded
  BY FreeType DEF Init, AppliedIsRecorded, BusyOnSent
<1> QED BY <1>1, <1>2 DEF SafetyInv

LEMMA NextInv == SafetyInv /\ [Next]_vars => SafetyInv'
<1> SUFFICES ASSUME SafetyInv, [Next]_vars PROVE SafetyInv'
  OBVIOUS
<1> USE DEF SafetyInv
<1>1. ASSUME NEW e \in Events, NEW data \in EventData, Send(e, data)
      PROVE  SafetyInv'
  <2>1. TypeOK'
    BY <1>1 DEF Send, TypeOK
  <2>2. (AppliedIsRecorded /\ BusyOnSent /\ acknowledged \subseteq recorded)'
    BY <1>1, NotSentAssumption DEF Send, AppliedIsRecorded, BusyOnSent, TypeOK
  <2> QED BY <2>1, <2>2
<1>2. ASSUME NEW h \in Handlers, NEW e \in Events, Receive(h, e)
      PROVE  SafetyInv'
  <2>1. sent[e] \in EventData
    BY <1>2 DEF Receive, TypeOK
  <2>2. Started(e) \in HandlerState /\ Started(e).event = e
    BY <2>1, ApplyType DEF Started, HandlerState, TypeOK
  <2>3. CASE Unseen(e)
    <3>1. TypeOK'
      BY <1>2, <2>2, <2>3 DEF Receive, TypeOK
    <3>2. BusyOnSent'
      BY <1>2, <2>1, <2>2, <2>3, NotSentAssumption DEF Receive, BusyOnSent, TypeOK
    <3>3. (AppliedIsRecorded /\ acknowledged \subseteq recorded)'
      BY <1>2, <2>3 DEF Receive, AppliedIsRecorded
    <3> QED BY <3>1, <3>2, <3>3
  <2>4. CASE ~Unseen(e)
    BY <1>2, <2>4 DEF Receive, Unseen, TypeOK, AppliedIsRecorded, BusyOnSent
  <2> QED BY <2>3, <2>4
<1>3. ASSUME NEW h \in Handlers, Commit(h)
      PROVE  SafetyInv'
  <2> DEFINE e == handler[h].event
  <2>1. e \in Events /\ handler[h] \in HandlerState
    BY <1>3 DEF Commit, BusyOnSent, TypeOK
  <2>2. BusyOnSent' /\ handler' \in [Handlers -> HandlerState]
    BY <1>3, FreeType DEF Commit, BusyOnSent, TypeOK
  <2>3. CASE InsertSucceeds(e)
    <3>1. Flushed(org, handler[h].seen, handler[h].new) \in Organization
      BY <2>1, FlushedType DEF HandlerState, TypeOK
    <3>2. TypeOK'
      BY <1>3, <2>1, <2>2, <2>3, <3>1 DEF Commit, TypeOK
    <3>3. AppliedIsRecorded' /\ (acknowledged \subseteq recorded)'
      BY <1>3, <2>1, <2>3 DEF Commit, InsertSucceeds, AppliedIsRecorded, TypeOK
    <3> QED BY <2>2, <3>2, <3>3
  <2>4. CASE ~InsertSucceeds(e)
    <3>1. TypeOK'
      BY <1>3, <2>1, <2>2, <2>4 DEF Commit, TypeOK
    <3>2. AppliedIsRecorded' /\ (acknowledged \subseteq recorded)'
      BY <1>3, <2>4 DEF Commit, InsertSucceeds, AppliedIsRecorded
    <3> QED BY <2>2, <3>1, <3>2
  <2> QED BY <2>3, <2>4
<1>4. ASSUME NEW h \in Handlers, Crash(h)
      PROVE  SafetyInv'
  BY <1>4, FreeType DEF Crash, TypeOK, AppliedIsRecorded, BusyOnSent
<1>5. CASE UNCHANGED vars
  BY <1>5 DEF vars, TypeOK, AppliedIsRecorded, BusyOnSent
<1> QED BY <1>1, <1>2, <1>3, <1>4, <1>5 DEF Next

LEMMA InvHolds == Spec => []SafetyInv
BY InitInv, NextInv, PTL DEF Spec

(* The organisation's columns, the events table and every request stay in   *)
(* their declared domains: no event can store an undeclared status.         *)
THEOREM TypeCorrect == Spec => []TypeOK
<1>1. SafetyInv => TypeOK
  BY DEF SafetyInv
<1> QED BY InvHolds, <1>1, PTL

(* However many requests carry an event at once, and wherever they die, its *)
(* columns are committed at most once: the unique index decides.            *)
THEOREM AppliedOnce == Spec => []EventAppliedOnce
<1>1. SafetyInv => EventAppliedOnce
  <2> SUFFICES ASSUME SafetyInv, NEW e \in Events PROVE applied[e] <= 1
    BY DEF EventAppliedOnce
  <2>1. applied[e] = 1 \/ applied[e] = 0
    BY DEF SafetyInv, AppliedIsRecorded
  <2> QED BY <2>1
<1> QED BY InvHolds, <1>1, PTL

(* Stripe is never told to stop sending an event that has no effect yet,    *)
(* although the IntegrityError of stripe_webhook is answered with a 200.    *)
THEOREM NeverLost == Spec => []AcknowledgedIsApplied
<1>1. SafetyInv => AcknowledgedIsApplied
  <2> SUFFICES ASSUME SafetyInv, NEW e \in acknowledged PROVE applied[e] > 0
    BY DEF AcknowledgedIsApplied
  <2>1. e \in Events /\ e \in recorded
    BY DEF SafetyInv, TypeOK
  <2>2. applied[e] = 1
    BY <2>1 DEF SafetyInv, AppliedIsRecorded
  <2> QED BY <2>2
<1> QED BY InvHolds, <1>1, PTL

-----------------------------------------------------------------------------
(* One request at a time: the webhook implements the ledger.                *)

(* What a request in progress read is still what the row says.              *)
ReadIsCurrent ==
  \A h \in Handlers : handler[h].busy =>
    handler[h] = Started(handler[h].event) /\ sent[handler[h].event] # NotSent

LEMMA ReadStaysCurrent ==
  ASSUME \A h1, h2 \in Handlers : h1 = h2
  PROVE  SafetyInv /\ ReadIsCurrent /\ [Next]_vars => ReadIsCurrent'
<1> SUFFICES ASSUME SafetyInv, ReadIsCurrent, [Next]_vars PROVE ReadIsCurrent'
  OBVIOUS
<1> USE DEF SafetyInv
<1>1. ASSUME NEW e \in Events, NEW data \in EventData, Send(e, data)
      PROVE  ReadIsCurrent'
  <2>1. ASSUME NEW h \in Handlers, handler'[h].busy
        PROVE  (handler[h] = Started(handler[h].event) /\ sent[handler[h].event] # NotSent)'
    <3>1. handler'[h] = handler[h] /\ org' = org /\ handler[h].event # e
      BY <1>1, <2>1 DEF Send, ReadIsCurrent
    <3>2. sent'[handler[h].event] = sent[handler[h].event]
      BY <1>1, <3>1 DEF Send, TypeOK
    <3> QED BY <2>1, <3>1, <3>2 DEF ReadIsCurrent, Started
  <2> QED BY <2>1 DEF ReadIsCurrent
<1>2. ASSUME NEW h \in Handlers, NEW e \in Events, Receive(h, e)
      PROVE  ReadIsCurrent'
  <2>1. CASE Unseen(e)
    <3>1. handler'[h] = Started(e) /\ UNCHANGED <<org, sent>> /\ sent[e] # NotSent
      BY <1>2, <2>1 DEF Receive, TypeOK
    <3>2. Started(e)' = Started(e) /\ Started(e).event = e
      BY <3>1 DEF Started
    <3>3. \A g \in Handlers : g = h
      OBVIOUS
    <3> QED BY <3>1, <3>2, <3>3 DEF ReadIsCurrent, Started
  <2>2. CASE ~Unseen(e)
    BY <1>2, <2>2 DEF Receive, ReadIsCurrent, Started
  <2> QED BY <2>1, <2>2
<1>3. ASSUME NEW h \in Handlers, Commit(h) \/ Crash(h)
      PROVE  ReadIsCurrent'
  <2>1. handler'[h] = Free
    BY <1>3 DEF Commit, Crash, TypeOK
  <2>2. \A g \in Handlers : g = h
    OBVIOUS
  <2> QED BY <2>1, <2>2, FreeType DEF ReadIsCurrent
<1>4. CASE UNCHANGED vars
  BY <1>4 DEF vars, ReadIsCurrent, Started
<1> QED BY <1>1, <1>2, <1>3, <1>4 DEF Next

(* A flush of what was computed from the present row is the whole event.    *)
LEMMA FlushedWhole ==
  ASSUME NEW a \in Organization, NEW b \in Organization
  PROVE  Flushed(a, a, b) = b
<1>1. b = [c \in {"status", "subscription", "tier"} |-> b[c]]
  BY DEF Organization
<1>2. \A c \in {"status", "subscription", "tier"} :
        (IF b[c] = a[c] THEN a[c] ELSE b[c]) = b[c]
  OBVIOUS
<1> QED BY <1>1, <1>2 DEF Flushed

LEMMA StepImplements ==
  SafetyInv /\ ReadIsCurrent /\ [Next]_vars => [Ledger!Next]_(Ledger!vars)
<1> SUFFICES ASSUME SafetyInv, ReadIsCurrent, [Next]_vars
             PROVE  [Ledger!Next]_(Ledger!vars)
  OBVIOUS
<1> USE DEF SafetyInv
<1>1. ASSUME NEW e \in Events, NEW data \in EventData, Send(e, data)
      PROVE  Ledger!Next
  <2>1. Ledger!Send(e)
    BY <1>1 DEF Send, Ledger!Send
  <2> QED BY <2>1 DEF Ledger!Next
<1>2. ASSUME NEW h \in Handlers, NEW e \in Events, Receive(h, e)
      PROVE  Ledger!Next \/ UNCHANGED Ledger!vars
  <2>1. CASE Unseen(e)
    BY <1>2, <2>1 DEF Receive, Ledger!vars
  <2>2. CASE ~Unseen(e)
    <3>1. Ledger!Acknowledge(e)
      BY <1>2, <2>2 DEF Receive, Unseen, Ledger!Acknowledge
    <3> QED BY <3>1 DEF Ledger!Next
  <2> QED BY <2>1, <2>2
<1>3. ASSUME NEW h \in Handlers, Commit(h)
      PROVE  Ledger!Next
  <2> DEFINE e == handler[h].event
  <2>1. e \in Events /\ sent[e] # NotSent /\ handler[h] = Started(e)
    BY <1>3 DEF Commit, BusyOnSent, ReadIsCurrent
  <2>2. CASE InsertSucceeds(e)
    <3>1. sent[e] \in EventData /\ org \in Organization
      BY <2>1 DEF TypeOK
    <3>2. handler[h].seen = org /\ handler[h].new = Apply(org, sent[e])
      BY <2>1 DEF Started
    <3>3. org' = Apply(org, sent[e])
      BY <1>3, <2>2, <3>1, <3>2, FlushedWhole, ApplyType DEF Commit
    <3>4. Ledger!Record(e)
      BY <1>3, <2>1, <2>2, <3>3 DEF Commit, InsertSucceeds, Ledger!Record
    <3> QED BY <2>1, <3>4 DEF Ledger!Next
  <2>3. CASE ~InsertSucceeds(e)
    <3>1. Ledger!Acknowledge(e)
      BY <1>3, <2>3 DEF Commit, InsertSucceeds, Ledger!Acknowledge
    <3> QED BY <2>1, <3>1 DEF Ledger!Next
  <2> QED BY <2>2, <2>3
<1>4. ASSUME NEW h \in Handlers, Crash(h)
      PROVE  UNCHANGED Ledger!vars
  BY <1>4 DEF Crash, Ledger!vars
<1>5. CASE UNCHANGED vars
  BY <1>5 DEF vars, Ledger!vars
<1> QED BY <1>1, <1>2, <1>3, <1>4, <1>5 DEF Next

(* Served one at a time, deliveries that repeat, overtake each other or die *)
(* half-way leave the organisation as if each event had been applied once,  *)
(* in one step, with the acknowledgement after it.                          *)
THEOREM ImplementsLedger ==
  ASSUME \A h1, h2 \in Handlers : h1 = h2
  PROVE  Spec => KeepsLedger
<1>1. Init => ReadIsCurrent
  BY FreeType DEF Init, ReadIsCurrent
<1>2. Init => Ledger!Init
  BY DEF Init, Ledger!Init
<1>3. SafetyInv /\ ReadIsCurrent /\ [Next]_vars => ReadIsCurrent'
  BY ReadStaysCurrent
<1> QED BY <1>1, <1>2, <1>3, InvHolds, StepImplements, PTL
        DEF Spec, KeepsLedger, Ledger!Spec

=============================================================================
