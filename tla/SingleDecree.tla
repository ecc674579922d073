---------------------------- MODULE SingleDecree ----------------------------
(***************************************************************************)
(* What one Paxos instance promises: of the values clients submit, at most *)
(* one is ever chosen, and it stays chosen.                                *)
(***************************************************************************)
CONSTANT Value
VARIABLE chosen   \* the set of values chosen so far

Init == chosen = {}

Choose(v) ==
  /\ chosen = {}
  /\ chosen' = {v}

Next == \E v \in Value : Choose(v)

Spec == Init /\ [][Next]_chosen
=============================================================================
