--------------------------- MODULE PaxosProposer ---------------------------
(***************************************************************************)
(* struct instance of src/paxos/proposer.c and what the proposer does to   *)
(* one instance.  The operators are pure: each takes the struct and        *)
(* returns the struct after the call.                                      *)
(***************************************************************************)
EXTENDS PaxosQuorum

CONSTANTS
  Value,      \* the values clients submit; none of them is empty
  None,       \* no value (value_size = 0, or a NULL inst->value)
  MaxBallot   \* bound: no proposer goes beyond this ballot

ASSUME ValueAssumption ==
  /\ None \notin Value
  /\ MaxBallot \in Nat

MAX_N_OF_PROPOSERS == 10

Ballot == 0 .. MaxBallot

(***************************************************************************)
(* `list` says where the proposer keeps the instance: not created yet      *)
(* ("none"), in prepare_instances or in accept_instances, removed after    *)
(* its accept quorum ("freed"), or gone with the process when an assertion *)
(* failed ("aborted").                                                     *)
(***************************************************************************)
InstanceType ==
  [list         : {"none", "prepare", "accept", "freed", "aborted"},
   ballot       : Ballot,
   value_ballot : Ballot,
   value        : Value \cup {None},
   quorum       : QuorumType]

\* Mutant of proposer_next_ballot: the next ballot is the next number.
proposer_next_ballot_PlusOne(p, b) ==
  IF b > 0 THEN b + 1 ELSE MAX_N_OF_PROPOSERS + p

proposer_next_ballot(p, b) ==
  IF b > 0 THEN MAX_N_OF_PROPOSERS + b ELSE MAX_N_OF_PROPOSERS + p

instance_new(p) ==
  {[list         |-> "prepare",
    ballot       |-> proposer_next_ballot(p, 0),
    value_ballot |-> 0,
    value        |-> None,
    quorum       |-> q] : q \in quorum_init}

\* Mutant of prepare_preempt: the answers to the old ballot stay counted.
prepare_preempt_KeepsQuorum(p, i) ==
  [i EXCEPT !.list = "prepare", !.ballot = proposer_next_ballot(p, i.ballot)]

\* The value and its value_ballot survive the preemption.
prepare_preempt(p, i) ==
  [i EXCEPT !.list   = "prepare",
            !.ballot = proposer_next_ballot(p, i.ballot),
            !.quorum = quorum_clear(i.quorum)]

\* A promise for the current ballot, from an acceptor quorum_add counts.  (The
\* value it displaces goes to the back of the client queue.)
proposer_receive_prepare_ack(i, m) ==
  LET counted == [i EXCEPT !.quorum = quorum_add(i.quorum, m.acceptor_id)]
  IN IF /\ m.record.value # None
        /\ i.value = None \/ m.record.value_ballot > i.value_ballot
       THEN [counted EXCEPT !.value = m.record.value,
                            !.value_ballot = m.record.value_ballot]
       ELSE counted

\* Mutant of proposer_accept: the promises stay counted in the accept phase.
proposer_accept_KeepsQuorum(i, v) ==
  [i EXCEPT !.list = "accept", !.value = v]

proposer_accept(i, v) ==
  [i EXCEPT !.list = "accept", !.value = v, !.quorum = quorum_clear(i.quorum)]

\* An accept for the current ballot, from an acceptor quorum_add counts.
proposer_receive_accept_ack(i, m) ==
  LET q == quorum_add(i.quorum, m.acceptor_id)
  IN [i EXCEPT !.quorum = q, !.list = IF quorum_reached(q) THEN "freed" ELSE @]
=============================================================================
