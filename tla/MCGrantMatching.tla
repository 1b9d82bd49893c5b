--------------------------- MODULE MCGrantMatching ---------------------------
(* Instances of GrantMatching for TLC.                                     *)
EXTENDS GrantMatching, TLC

Symmetry == Permutations(Grants) \cup Permutations(Users)
              \cup Permutations(Scanners) \cup Permutations(Readers)

=============================================================================
