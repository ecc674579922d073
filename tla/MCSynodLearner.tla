--------------------------- MODULE MCSynodLearner ---------------------------
(* SynodLearner for model checking: the values are interchangeable. *)
EXTENDS SynodLearner, TLC

Values == Permutations(Value)
=============================================================================
