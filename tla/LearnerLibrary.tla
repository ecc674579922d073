--------------------------- MODULE LearnerLibrary ---------------------------
(***************************************************************************)
(* struct learner of src/paxos/learner.c and the functions of its          *)
(* interface.  Each takes the struct and gives the struct after the call,  *)
(* or what the call returns.                                               *)
(***************************************************************************)
EXTENDS PaxosLearner

CONSTANT learner_instances   \* paxos_config.learner_instances, the size of the window

ASSUME LearnerAssumption == learner_instances \in Nat \ {0}

Slot == 0 .. learner_instances - 1

\* carray_at on the array of the instances, which is full: its head stays 0.
slot(iid) == iid % learner_instances

\* paxos_config.learner_catch_up says whether the learner starts late.
learner_new(late_start) ==
  [late_start         |-> late_start,
   current_iid        |-> 1,
   highest_iid_seen   |-> 1,
   highest_iid_closed |-> 1,
   instances          |-> [s \in Slot |-> new_instance]]

\* Mutant of the window test in learner_receive_accept: off by one.
in_window_OneMore(current, iid) == iid >= current /\ iid <= current + learner_instances

\* Neither delivered already nor too far in the future.
in_window(current, iid) == iid >= current /\ iid < current + learner_instances

\* Mutant of the update of highest_iid_closed: it keeps its first value.
closed_iid_Kept(highest, inst) == highest

\* Mutant of the update of highest_iid_closed: one past the instance that closed.
closed_iid_Next(highest, inst) ==
  IF instance_has_quorum(inst) /\ inst.iid > highest THEN inst.iid + 1 ELSE highest

\* highest_iid_closed after the ack has been added to its instance.
closed_iid(highest, inst) ==
  IF instance_has_quorum(inst) /\ inst.iid > highest THEN inst.iid ELSE highest

learner_receive_accept(l, m) ==
  LET current == IF l.late_start THEN m.iid ELSE l.current_iid
      seen    == [l EXCEPT !.late_start = FALSE,
                           !.current_iid = current,
                           !.highest_iid_seen = IF m.iid > @ THEN m.iid ELSE @]
      inst    == instance_close(
                   learner_update_instance(l.instances[slot(m.iid)], m.acceptor_id, m))
  IN IF in_window(current, m.iid)
       THEN [seen EXCEPT !.highest_iid_closed = closed_iid(@, inst),
                         !.instances[slot(m.iid)] = inst]
       ELSE seen

\* What learner_deliver_next returns, NULL or the ack ...
next_closed(l) == instance_close(l.instances[slot(l.current_iid)]).final_value

\* ... and the struct after the call.
learner_deliver_next(l) ==
  IF next_closed(l) = NULL
    THEN l
    ELSE [l EXCEPT !.current_iid = @ + 1, !.instances[slot(l.current_iid)] = instance_clear(@)]

\* Mutant of learner_has_holes: the current instance is not asked for.
learner_has_holes_SkipsFirst(l) ==
  IF l.highest_iid_seen > l.current_iid + learner_instances
    THEN l.current_iid + 1 .. l.highest_iid_seen - 1
    ELSE l.current_iid + 1 .. l.highest_iid_closed - 1

\* The instances in the range [from, to) of learner_has_holes, none without holes.
learner_has_holes(l) ==
  IF l.highest_iid_seen > l.current_iid + learner_instances
    THEN l.current_iid .. l.highest_iid_seen - 1
    ELSE l.current_iid .. l.highest_iid_closed - 1
=============================================================================
