---------------------------- MODULE PaxosLearner ----------------------------
(***************************************************************************)
(* struct instance of src/paxos/learner.c: what a learner keeps of one     *)
(* instance, and what an accept_ack does to it.  The operators are pure:   *)
(* each takes the struct and returns the struct after the call.            *)
(*                                                                         *)
(* The operators read the fields iid and ballot of an ack.  The is_final   *)
(* case of instance_has_quorum is left out: acceptors send their records,  *)
(* and every record they store has is_final = 0.                           *)
(***************************************************************************)
EXTENDS PaxosQuorum

CONSTANT NULL   \* no ack stored, no final value

\* instance_new: memset to 0, all the acks NULL.
new_instance ==
  [iid                |-> 0,
   last_update_ballot |-> 0,
   acks               |-> [a \in AcceptorId |-> NULL],
   final_value        |-> NULL]

\* Mutant of instance_clear: the acks of the delivered instance stay.
instance_clear_KeepsAcks(inst) ==
  [inst EXCEPT !.iid = 0, !.last_update_ballot = 0, !.final_value = NULL]

\* instance_clear leaves the struct as instance_new made it.
instance_clear(inst) ==
  [inst EXCEPT !.iid                = 0,
               !.last_update_ballot = 0,
               !.acks               = [a \in AcceptorId |-> NULL],
               !.final_value        = NULL]

\* Mutant of the agreement test: acks of any ballot agree.
Agreeing_AnyBallot(inst) == {a \in AcceptorId : inst.acks[a] # NULL}

\* The acceptors whose ack agrees with the last one added.
Agreeing(inst) ==
  {a \in AcceptorId : /\ inst.acks[a] # NULL
                      /\ inst.acks[a].ballot = inst.last_update_ballot}

\* What instance_has_quorum returns ...
instance_has_quorum(inst) ==
  \/ inst.final_value # NULL
  \/ Cardinality(Agreeing(inst)) >= paxos_quorum(acceptors)

\* ... and what it does: the last agreeing ack becomes the final value.
instance_close(inst) ==
  IF inst.final_value = NULL /\ instance_has_quorum(inst)
    THEN LET a_valid_index == CHOOSE a \in Agreeing(inst) : \A b \in Agreeing(inst) : b <= a
         IN [inst EXCEPT !.final_value = inst.acks[a_valid_index]]
    ELSE inst

\* Mutant of instance_add_accept: last_update_ballot never goes down.
instance_add_accept_OnlyGrows(inst, a, ack) ==
  [inst EXCEPT !.acks[a] = ack,
               !.last_update_ballot = IF ack.ballot > @ THEN ack.ballot ELSE @]

instance_add_accept(inst, a, ack) ==
  [inst EXCEPT !.acks[a] = ack, !.last_update_ballot = ack.ballot]

\* A closed instance and a newer or equal ack of the same acceptor stay as they are.
learner_update_instance(inst, a, ack) ==
  LET named  == IF inst.iid = 0
                  THEN [inst EXCEPT !.iid = ack.iid, !.last_update_ballot = ack.ballot]
                  ELSE inst
      closed == instance_close(named)
      stored == closed.acks[a]
  IN IF closed.final_value # NULL \/ (stored # NULL /\ stored.ballot >= ack.ballot)
       THEN closed
       ELSE instance_add_accept(closed, a, ack)
=============================================================================
