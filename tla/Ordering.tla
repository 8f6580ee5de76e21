------------------------------ MODULE Ordering ------------------------------
(***************************************************************************)
(* Sorting and selecting, as in "sorted" and list comprehensions, by the   *)
(* places of the elements: what SortSeq and SelectSeq of the libraries     *)
(* compute, in a form the properties of which can be proved.               *)
(***************************************************************************)
EXTENDS Integers, Sequences, FiniteSets

\* The members of S in the strict order R, a set of pairs: the k-th has k - 1 before it.
InOrder(S, R) ==
  [k \in 1..Cardinality(S) |-> CHOOSE x \in S : Cardinality({y \in S : <<y, x>> \in R}) = k - 1]

\* The elements of the sequence s at the positions in P.
Selected(s, P) ==
  LET places == InOrder(P, {p \in P \X P : p[1] < p[2]})
  IN [k \in DOMAIN places |-> s[places[k]]]

\* The sum of a sequence of numbers.
SumOf(s) ==
  LET sum[i \in 0..Len(s)] == IF i = 0 THEN 0 ELSE sum[i - 1] + s[i]
  IN sum[Len(s)]
===============================================================================
