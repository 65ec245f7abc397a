------------------------------- MODULE Rulings -------------------------------
(***************************************************************************)
(* What can become of a ruling, one decision for each of a number of        *)
(* evaluations, when a list of decisions is made of it.                     *)
(***************************************************************************)
EXTENDS Naturals, Sequences

\* The places k decisions can be taken from, in their order.
Picks(k, n) == {f \in [1..k -> 1..n] : \A i, j \in 1..k : i < j => f[i] < f[j]}

\* Any decisions may be left out.
Parts(D) == UNION {{[i \in 1..k |-> D[f[i]]] : f \in Picks(k, Len(D))} : k \in 0..Len(D)}

\* Decisions are left out at the end only.
Leading(D) == {SubSeq(D, 1, k) : k \in 0..Len(D)}
=============================================================================
