------------------------------ MODULE Sublists ------------------------------
(***************************************************************************)
(* The items of a list at given positions, in their order: what            *)
(* _carray_map of src/paxos/carray.c collects.  It is stated through the   *)
(* positions and their ranks, so that proofs can count them.               *)
(***************************************************************************)
EXTENDS Integers, Sequences, FiniteSets

\* How many positions of K are among the first n.
rank(K, n) == Cardinality({k \in K : k <= n})

\* The j-th position of K.
nth(K, j) == CHOOSE k \in K : rank(K, k) = j

\* The items of list s at the positions of K.
sublist(s, K) == [j \in 1 .. Cardinality(K) |-> s[nth(K, j)]]

\* The iids of the items of a list.
iids(list) == {list[k].iid : k \in 1 .. Len(list)}
=============================================================================
