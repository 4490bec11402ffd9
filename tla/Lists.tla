-------------------------------- MODULE Lists --------------------------------
(***************************************************************************)
(* A list without some of its elements, as a comprehension with a condition *)
(* or LREM leaves it.  SelectSeq does the same; it is recursive, and the    *)
(* definition here, by the places of the elements that stay, can be         *)
(* reasoned about.                                                          *)
(***************************************************************************)
EXTENDS Naturals, FiniteSets, SequencesExt

\* where s has an element of S
Places(s, S) == {i \in DOMAIN s : s[i] \in S}
\* the k-th of these places
Place(s, S, k) == CHOOSE i \in Places(s, S) : Cardinality({j \in Places(s, S) : j < i}) = k - 1

\* the elements of s that are in S, in their order
Kept(s, S) == [k \in 1..Cardinality(Places(s, S)) |-> s[Place(s, S, k)]]
=============================================================================
