------------------------------ MODULE WordSums ------------------------------
(***************************************************************************)
(* Amounts as pkg/utxo has them: uint64 words, and their sums over natural *)
(* numbers.  A sum is a number of units, so that it can be reasoned about  *)
(* as the size of a finite set.                                            *)
(***************************************************************************)
EXTENDS Naturals, FiniteSets

CONSTANT Word       \* 2^64

ASSUME WordAssumption == Word \in Nat \ {0}

Words == 0 .. Word - 1

\* The sum of words f[x] over the x of S: how many units they have.
Units(f, S) == {u \in S \X Words : u[2] < f[u[1]]}
Total(f, S) == Cardinality(Units(f, S))
=============================================================================
