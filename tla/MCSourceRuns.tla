---------------------------- MODULE MCSourceRuns ----------------------------
(* Symmetry of SourceRuns's constants: postings are only compared.         *)
EXTENDS SourceRuns, TLC

MCSymmetry == Permutations(Postings)
=============================================================================
