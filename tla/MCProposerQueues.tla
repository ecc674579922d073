-------------------------- MODULE MCProposerQueues --------------------------
(* Instances of ProposerQueues for TLC. *)
EXTENDS ProposerQueues, TLC

\* The client values are interchangeable.
Symmetry == Permutations(ClientValue)
=============================================================================
