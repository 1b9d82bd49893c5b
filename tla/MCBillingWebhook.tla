--------------------------- MODULE MCBillingWebhook ---------------------------
(* Instances of BillingWebhook for TLC.                                    *)
EXTENDS BillingWebhook, TLC

Symmetry == Permutations(Events) \cup Permutations(Handlers) \cup Permutations(Subscriptions)

=============================================================================
