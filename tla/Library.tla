------------------------------ MODULE Library -------------------------------
(***************************************************************************)
(* The sequential parts of src/paxos, each on its own: the life of a       *)
(* struct quorum (QuorumCounter), the circular array (Carray), and the     *)
(* library calls of the unit tests (UnitTests).  A behaviour exercises one *)
(* of them and leaves the others as they were initialised.                 *)
(***************************************************************************)
EXTENDS QuorumCounter, Carray, UnitTests

\* On short lists, leaving out the positions of x is leaving out x.
ASSUME RejectIsFilter ==
  \A n \in 0 .. 4 : \A s \in [1 .. n -> Item] : \A x \in Item :
    sublist(s, {k \in 1 .. n : s[k] # x}) = SelectSeq(s, LAMBDA e : e # x)

VARIABLE part   \* what this behaviour exercises

vars == <<part, counterVars, carrayVars, testVars>>

TypeOK ==
  /\ CounterTypeOK
  /\ CarrayTypeOK
  /\ TestTypeOK

Init ==
  /\ part \in {"quorum", "carray", "tests"}
  /\ CounterInit
  /\ part # "quorum" => q.acceptor_ids = [k \in AcceptorId |-> 0]
  /\ CarrayInit
  /\ TestInit
  /\ part # "tests" => test = "Prepare"

Next ==
  \/ /\ part = "quorum"
     /\ CounterNext
     /\ UNCHANGED <<part, carrayVars, testVars>>
  \/ /\ part = "carray"
     /\ CarrayNext
     /\ UNCHANGED <<part, counterVars, testVars>>
  \/ /\ part = "tests"
     /\ TestNext
     /\ UNCHANGED <<part, counterVars, carrayVars>>

Spec == Init /\ [][Next]_vars
=============================================================================
