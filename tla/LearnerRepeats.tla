--------------------------- MODULE LearnerRepeats ---------------------------
(***************************************************************************)
(* A learner and the records that its repeat requests are answered from.   *)
(* handle_repeat_req of src/evpaxos/evacceptor.c sends the acceptor's own  *)
(* record, with the ballot it promised last.  The ballots of two records   *)
(* may differ for ever: a proposer that dies after one prepare is enough.  *)
(***************************************************************************)
EXTENDS LearnerWindow

CONSTANTS
  Answering,  \* the acceptors that answer repeat requests
  Records     \* bound: the ballots that the records may end up with

ASSUME RepeatsAssumption ==
  /\ Answering \subseteq AcceptorId
  /\ Records \subseteq [AcceptorId -> [1 .. MaxIid -> Ballots \cup {0}]]

\* record[a][i]: the ballot in the record of acceptor a for instance i once no
\* proposer works on it, and 0 if there is none.
VARIABLE record

repeatVars == <<vars, record>>

RepeatsInit == Init /\ record \in Records

\* Acceptor a sends its record, now or earlier: its ballot has only grown.
RepeatsNext ==
  \E m \in Ack :
    /\ m.ballot <= record[m.acceptor_id][m.iid]
    /\ HandleAcceptAck(m)
    /\ UNCHANGED record

\* Acceptor a answers the request to repeat the current instance.
Repeat(a) ==
  /\ current_iid \in learner_check_holes
  /\ record[a][current_iid] # 0
  /\ HandleAcceptAck([iid |-> current_iid, acceptor_id |-> a, ballot |-> record[a][current_iid]])
  /\ UNCHANGED record

\* The answer of a is asked for and would be news: when Repeat(a) changes the state.
RepeatAwaited(a) ==
  /\ current_iid \in learner_check_holes
  /\ LET stored == instances[slot(current_iid)].acks[a]
     IN record[a][current_iid] > IF stored = NULL THEN 0 ELSE stored.ballot

\* The timer runs for ever, and the answers of the acceptors in Answering come in
\* the end: weak fairness of Repeat, its enabling condition written out.
RepeatsSpec ==
  /\ RepeatsInit
  /\ [][RepeatsNext]_repeatVars
  /\ \A a \in Answering : []<>~RepeatAwaited(a) \/ []<><<Repeat(a)>>_repeatVars
-----------------------------------------------------------------------------
\* Instance i has a quorum, and waits for the ones before it.
Closed(i) == \E s \in Slot : instances[s].iid = i /\ instances[s].final_value # NULL

\* A majority that answers holds the same ballot for instance i.
Agreed(i) == \E b \in Ballots : {a \in Answering : record[a][i] = b} \in Majority

\* A closed instance is delivered in the end, though the acks of the instances before
\* it were lost and a minority of the acceptors never answers: learner_check_holes gets
\* them repeated.  This takes more than a majority that answers.  instance_has_quorum
\* compares ballots, so the records of a majority have to hold the same one for every
\* instance that is missing.
CatchesUp ==
  \A i \in 2 .. MaxIid :
    (Closed(i) /\ \A j \in current_iid .. i - 1 : Agreed(j)) ~> current_iid > i
=============================================================================
