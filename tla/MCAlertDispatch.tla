--------------------------- MODULE MCAlertDispatch --------------------------
(* Symmetry of AlertDispatch's constants: jobs, notifications and workers  *)
(* are only ever compared for equality.                                    *)
EXTENDS AlertDispatch, TLC

MCSymmetry == Permutations(Jobs) \union Permutations(Notes) \union Permutations(Workers)
=============================================================================
