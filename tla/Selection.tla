------------------------------ MODULE Selection ------------------------------
(* The elements of a sequence at some of its positions, in order: what      *)
(* SelectSeq gives, defined without recursion so that it can be proved about. *)
EXTENDS Naturals, FiniteSets

Rank(P, i)   == Cardinality({j \in P : j <= i})
Ranked(P, k) == {i \in P : Rank(P, i) = k}
Nth(P, k)    == CHOOSE i \in Ranked(P, k) : TRUE
Chosen(s, P) == [k \in 1..Cardinality(P) |-> s[Nth(P, k)]]
=============================================================================
