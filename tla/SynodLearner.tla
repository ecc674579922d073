---------------------------- MODULE SynodLearner ----------------------------
(***************************************************************************)
(* One instance of the whole protocol: the proposers and acceptors of      *)
(* Synod, and the learners of src/paxos/learner.c that listen to the       *)
(* acceptors.  An instance that is closed here is delivered, now or after  *)
(* the instances before it; either way later acks do not change it.        *)
(***************************************************************************)
EXTENDS Synod, PaxosLearner

VARIABLE lrn   \* lrn[l]: the instance at learner l

lvars == <<vars, lrn>>

\* The iid of the instance; the record of the acceptor is the ack.
Ack(m) == [iid          |-> 1,
           ballot       |-> m.record.ballot,
           value_ballot |-> m.record.value_ballot,
           value        |-> m.record.value]

AckType == [iid          : {1},
            ballot       : Ballot,
            value_ballot : Ballot,
            value        : Value \cup {None}]

LearnerInstanceType == [iid                : {0, 1},
                        last_update_ballot : Ballot,
                        acks               : [AcceptorId -> AckType \cup {NULL}],
                        final_value        : AckType \cup {NULL}]

LearnerTypeOK ==
  /\ TypeOK
  /\ lrn \in [Learner -> LearnerInstanceType]

LInit ==
  /\ Init
  /\ lrn = [l \in Learner |-> new_instance]

\* learner_handle_accept_ack for this instance.
Learn(l, m) ==
  /\ l \in m.to
  /\ lrn' = [lrn EXCEPT ![l] =
               instance_close(learner_update_instance(@, m.acceptor_id, Ack(m)))]
  /\ UNCHANGED vars

\* handle_repeat_req: learner l asked for the instance, acceptor a has a record of
\* it and sends the record as an accept_ack.
HandleRepeatReq(a, l) ==
  /\ rec[a].ballot > 0
  /\ accept_ack' = accept_ack \cup {[to |-> {l}, acceptor_id |-> a, record |-> rec[a]]}
  /\ AcksOf(a, prepare_ack) + AcksOf(a, accept_ack') <= MaxAcks
  /\ UNCHANGED <<inst, rec, requests, prepare_ack, votes, lrn>>

LNext ==
  \/ Next /\ UNCHANGED lrn
  \/ \E l \in Learner : \E m \in accept_ack : Learn(l, m)

\* Learners that never find a hole, and so never ask for a repetition.
LSpec == LInit /\ [][LNext]_lvars

RNext ==
  \/ LNext
  \/ \E a \in AcceptorId, l \in Learner : HandleRepeatReq(a, l)

\* Learners that also ask the acceptors to repeat the instance.
RSpec == LInit /\ [][RNext]_lvars
-----------------------------------------------------------------------------
\* The comment of instance_has_quorum: an instance is closed when a quorum of
\* acceptors accepted the same value and ballot, so that the value it delivers is
\* the chosen one.
LearnedIsChosen ==
  \A l \in Learner : lrn[l].final_value # NULL => lrn[l].final_value.value \in chosen
=============================================================================
