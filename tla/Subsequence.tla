---------------------------- MODULE Subsequence ----------------------------
(***************************************************************************)
(* What is left of a sequence once the entries at some of its positions    *)
(* are removed, in its order: Vec::retain and Iterator::filter.            *)
(***************************************************************************)
EXTENDS Naturals, FiniteSets

\* How many elements of D, a finite set of naturals, there are up to i.
Rank(D, i) == Cardinality({ j \in D : j <= i })

\* The k-th element of D
Position(D, k) == CHOOSE i \in D : Rank(D, i) = k

\* The entries of s at the positions in D
Retained(s, D) == [k \in 1 .. Cardinality(D) |-> s[Position(D, k)]]

=============================================================================
