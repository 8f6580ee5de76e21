-------------------------- MODULE MCDuplicateLinks --------------------------
(* Symmetry of DuplicateLinks's constants: all are only compared.          *)
EXTENDS DuplicateLinks, TLC

MCSymmetry == Permutations(Jobs) \union Permutations(Runs)
=============================================================================
