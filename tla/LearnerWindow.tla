--------------------------- MODULE LearnerWindow ---------------------------
(***************************************************************************)
(* A learner, src/paxos/learner.c driven by src/evpaxos/evlearner.c: the   *)
(* window of instances it works on, delivery in the order of the iids, and *)
(* the holes it asks the acceptors to repeat.                              *)
(*                                                                         *)
(* An ack may come at any time, any number of times and in any order.  Of  *)
(* its value only the ballot is kept: a ballot carries one value.          *)
(***************************************************************************)
EXTENDS LearnerLibrary, Sequences

CONSTANTS
  chunks,     \* how many instances one round of repeat requests covers
  MaxIid,     \* bound: the instances that get acks are 1 .. MaxIid
  Ballots     \* bound: the ballots of the acks

ASSUME WindowAssumption ==
  /\ chunks \in Nat \ {0}
  /\ MaxIid \in Nat \ {0}
  /\ Ballots \subseteq Nat \ {0}

Ack == [iid : 1 .. MaxIid, acceptor_id : AcceptorId, ballot : Ballots]

VARIABLES
  late_start,
  current_iid,
  highest_iid_seen,
  highest_iid_closed,
  instances,   \* the array behind the carray, which is full: its head stays 0
  delivered    \* history: what the deliver callback got, in order

vars == <<late_start, current_iid, highest_iid_seen, highest_iid_closed, instances, delivered>>

InstanceType ==
  [iid                : 0 .. MaxIid,
   last_update_ballot : Ballots \cup {0},
   acks               : [AcceptorId -> Ack \cup {NULL}],
   final_value        : Ack \cup {NULL}]

TypeOK ==
  /\ late_start \in BOOLEAN
  /\ current_iid \in 1 .. MaxIid + 1
  /\ highest_iid_seen \in 1 .. MaxIid
  /\ highest_iid_closed \in 1 .. MaxIid
  /\ instances \in [Slot -> InstanceType]
  /\ delivered \in Seq([ack : Ack, from : SUBSET AcceptorId])

-----------------------------------------------------------------------------
\* How many instances the loop of learner_deliver_next_closed delivers: it stops
\* at the first one without a quorum, at the latest at a slot it has cleared.
deliver_count(current, insts) ==
  CHOOSE k \in 0 .. learner_instances :
    /\ \A j \in 0 .. k - 1 : instance_has_quorum(insts[slot(current + j)])
    /\ k < learner_instances => ~instance_has_quorum(insts[slot(current + k)])

\* What the callback gets of an instance, with the acceptors that sent it.
delivery(inst) ==
  LET ack == instance_close(inst).final_value
  IN [ack  |-> ack,
      from |-> {a \in AcceptorId : /\ inst.acks[a] # NULL
                                   /\ inst.acks[a].acceptor_id = a
                                   /\ inst.acks[a].iid = ack.iid
                                   /\ inst.acks[a].ballot = ack.ballot}]

\* learner_deliver_next until it returns NULL, from the given window.
deliver_next_closed(current, insts) ==
  LET k == deliver_count(current, insts)
  IN /\ current_iid' = current + k
     /\ instances' = [s \in Slot |->
          IF \E j \in 0 .. k - 1 : s = slot(current + j)
            THEN instance_clear(insts[s])
            ELSE insts[s]]
     /\ delivered' = delivered \o [j \in 1 .. k |-> delivery(insts[slot(current + j - 1)])]

\* learner_handle_accept_ack: learner_receive_accept, then every delivery it allows.
HandleAcceptAck(m) ==
  LET current == IF late_start THEN m.iid ELSE current_iid
      inst    == instance_close(
                   learner_update_instance(instances[slot(m.iid)], m.acceptor_id, m))
  IN /\ late_start' = FALSE
     /\ highest_iid_seen' = IF m.iid > highest_iid_seen THEN m.iid ELSE highest_iid_seen
     /\ \/ /\ in_window(current, m.iid)
           /\ highest_iid_closed' = closed_iid(highest_iid_closed, inst)
           /\ deliver_next_closed(current, [instances EXCEPT ![slot(m.iid)] = inst])
        \/ /\ ~in_window(current, m.iid)
           /\ highest_iid_closed' = highest_iid_closed
           /\ deliver_next_closed(current, instances)

\* paxos_config.learner_catch_up says whether the learner starts late.
Init ==
  /\ late_start \in BOOLEAN
  /\ current_iid = 1
  /\ highest_iid_seen = 1
  /\ highest_iid_closed = 1
  /\ instances = [s \in Slot |-> new_instance]
  /\ delivered = <<>>

Next == \E m \in Ack : HandleAcceptAck(m)

Spec == Init /\ [][Next]_vars
-----------------------------------------------------------------------------
\* The fields of struct learner that learner_has_holes reads.
counters == [current_iid        |-> current_iid,
             highest_iid_seen   |-> highest_iid_seen,
             highest_iid_closed |-> highest_iid_closed]

\* The instances the timer learner_check_holes asks every acceptor to repeat.
learner_check_holes == {iid \in learner_has_holes(counters) : iid < current_iid + chunks}
-----------------------------------------------------------------------------
\* A slot of the window is empty or holds the one instance of the window that
\* belongs there, and only acks of that instance: what the assertions of
\* learner_get_instance and learner_update_instance rely on, however the acks
\* arrive and however the window moves.
SlotsHoldTheWindow ==
  \A s \in Slot :
    LET inst == instances[s] IN
    /\ inst.iid # 0 => /\ inst.iid \in current_iid .. current_iid + learner_instances - 1
                        /\ slot(inst.iid) = s
    /\ \A a \in AcceptorId : inst.acks[a] # NULL =>
         inst.acks[a].iid = inst.iid /\ inst.acks[a].acceptor_id = a

\* The callback gets consecutive instances, each of them once.
DeliveredInOrder ==
  \A k \in 1 .. Len(delivered) :
    delivered[k].ack.iid = current_iid - Len(delivered) + k - 1

\* An instance is delivered only when a majority of distinct acceptors sent an ack
\* for it with the ballot that is delivered.
DeliveredHasQuorum ==
  \A k \in 1 .. Len(delivered) : delivered[k].from \in Majority

\* instance_has_quorum looks at one ballot only, the last one added, and yet no
\* quorum is overlooked: as long as an instance is open, no ballot has a majority
\* of the acks stored.
NoQuorumOverlooked ==
  \A s \in Slot : instances[s].final_value = NULL =>
    \A b \in Ballots :
      {a \in AcceptorId : instances[s].acks[a] # NULL /\ instances[s].acks[a].ballot = b}
        \notin Majority

\* A learner that waits for its current instance while a later one is closed
\* finds the hole, and asks for the current instance among others.
HoleIsFound ==
  (\E s \in Slot : instances[s].final_value # NULL) => current_iid \in learner_check_holes
=============================================================================
