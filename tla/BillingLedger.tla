---------------------------- MODULE BillingLedger ----------------------------
(***************************************************************************)
(* What an organisation's billing state is promised to be: the result of   *)
(* applying each event Stripe sent at most once, one whole event at a time,*)
(* and Stripe is told "received" only of an event that was applied.        *)
(***************************************************************************)
CONSTANTS Events, Data, Apply(_, _), Unsubscribed, NotSent

VARIABLES org, sent, recorded, acknowledged

vars == <<org, sent, recorded, acknowledged>>

Init ==
  /\ org = Unsubscribed
  /\ sent = [e \in Events |-> NotSent]
  /\ recorded = {}
  /\ acknowledged = {}

Send(e) ==
  /\ sent[e] = NotSent
  /\ \E data \in Data : sent' = [sent EXCEPT ![e] = data]
  /\ UNCHANGED <<org, recorded, acknowledged>>

Record(e) ==
  /\ sent[e] # NotSent
  /\ e \notin recorded
  /\ org' = Apply(org, sent[e])
  /\ recorded' = recorded \cup {e}
  /\ acknowledged' \in {acknowledged, acknowledged \cup {e}}
  /\ UNCHANGED sent

Acknowledge(e) ==
  /\ e \in recorded
  /\ acknowledged' = acknowledged \cup {e}
  /\ UNCHANGED <<org, sent, recorded>>

Next == \E e \in Events : Send(e) \/ Record(e) \/ Acknowledge(e)

Spec == Init /\ [][Next]_vars

=============================================================================
