------------------------------ MODULE Selection ------------------------------
(***************************************************************************)
(* What is left of a queue when only some of its places are kept, in their *)
(* order.  SelectSeq, said without recursion so that it can be reasoned    *)
(* about.                                                                  *)
(***************************************************************************)
EXTENDS Naturals, Sequences, FiniteSets

\* The n-th of a set of places.
Place(places, n) == CHOOSE i \in places : Cardinality({j \in places : j <= i}) = n

\* The members of q at the given places.
Kept(q, places) == [n \in 1 .. Cardinality(places) |-> q[Place(places, n)]]

\* Those of them that are in S.
Only(q, S) == Kept(q, {n \in DOMAIN q : q[n] \in S})
=============================================================================
