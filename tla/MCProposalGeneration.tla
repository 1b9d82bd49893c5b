------------------------- MODULE MCProposalGeneration -------------------------
(* Instances of ProposalGeneration for TLC.                                *)
EXTENDS ProposalGeneration, TLC

CONSTANTS k1, k2

\* What the rubric extraction may return: one section, both, or the other order.
OnePlan == {<<k1>>}
SamePlan == {<<k1, k2>>}
AnyPlan == {<<k1>>, <<k1, k2>>, <<k2, k1>>}

Symmetry == Permutations(Workers) \cup Permutations(RegenJobs)

=============================================================================
