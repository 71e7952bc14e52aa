-------------------------- MODULE MCTestcaseCache --------------------------
EXTENDS TestcaseCache, TLC

(* Seeds are compared only for equality. *)
SeedSymmetry == Permutations(Seeds)

=============================================================================
