-------------------------- MODULE MCSharedEncoder --------------------------
(***************************************************************************)
(* SharedEncoder for TLC: the factories are interchangeable.               *)
(***************************************************************************)
EXTENDS SharedEncoder, TLC

Symmetry == Permutations(Factories)

=============================================================================
