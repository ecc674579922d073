---------------------------- MODULE SynodProofs ----------------------------
(***************************************************************************)
(* Proofs about Synod, for any number of acceptors, proposers, learners,   *)
(* values and ballots.  First what the steps keep: types, the votes and    *)
(* promises that only grow, the safety of the value a proposer sends.      *)
(* Then the inductive invariant, agreement, and the refinement of          *)
(* SingleDecree.  Then the learners: one that does not ask for repetitions *)
(* closes an instance only with the chosen value.  That argument adds to   *)
(* the invariant of Synod that an accept_ack sent to a learner reports a   *)
(* vote.                                                                   *)
(***************************************************************************)
EXTENDS SynodLearner, QuorumTheorems
-----------------------------------------------------------------------------
(* Type correctness *)

\* The instance stays well formed through each operation of proposer.c.
LEMMA NewInstanceType ==
  ASSUME NEW p \in Proposer, NEW i \in instance_new(p)
  PROVE  /\ i \in InstanceType
         /\ TallyInv(i.quorum)
         /\ i.quorum.counted = {}
         /\ i.list = "prepare" /\ i.value = None /\ i.value_ballot = 0
         /\ i.ballot = 10 + p
  <1>1. PICK q \in quorum_init :
          i = [list         |-> "prepare",
               ballot       |-> proposer_next_ballot(p, 0),
               value_ballot |-> 0,
               value        |-> None,
               quorum       |-> q]
    BY DEF instance_new
  <1>2. p \in 0 .. 9 /\ MaxBallot \in Nat /\ MaxBallot >= 19
    BY SynodAssumption, ValueAssumption DEF MAX_N_OF_PROPOSERS
  <1>3. proposer_next_ballot(p, 0) = 10 + p
    BY DEF proposer_next_ballot, MAX_N_OF_PROPOSERS
  <1>4. 10 + p \in Ballot /\ 0 \in Ballot
    BY <1>2 DEF Ballot
  <1>5. q \in QuorumType /\ TallyInv(q) /\ q.counted = {}
    BY InitialTally
  <1>6. QED
    BY <1>1, <1>3, <1>4, <1>5 DEF InstanceType

\* Likewise for the restart of the prepare phase.
LEMMA PreemptedInstance ==
  ASSUME NEW p \in Proposer, NEW i \in InstanceType, i.ballot > 0,
         prepare_preempt(p, i).ballot <= MaxBallot
  PROVE  /\ prepare_preempt(p, i) \in InstanceType
         /\ TallyInv(prepare_preempt(p, i).quorum)
         /\ prepare_preempt(p, i).quorum.counted = {}
         /\ prepare_preempt(p, i).list = "prepare"
         /\ prepare_preempt(p, i).value = i.value
         /\ prepare_preempt(p, i).value_ballot = i.value_ballot
         /\ prepare_preempt(p, i).ballot = 10 + i.ballot
  <1>1. i.quorum \in QuorumType /\ i.ballot \in Ballot
    BY DEF InstanceType
  <1>2. /\ quorum_clear(i.quorum) \in QuorumType
        /\ TallyInv(quorum_clear(i.quorum))
        /\ quorum_clear(i.quorum).counted = {}
    BY <1>1, ClearedTally
  <1>3. proposer_next_ballot(p, i.ballot) = 10 + i.ballot
    BY DEF proposer_next_ballot, MAX_N_OF_PROPOSERS
  <1>4. prepare_preempt(p, i) = [i EXCEPT !.list = "prepare", !.ballot = 10 + i.ballot,
                                          !.quorum = quorum_clear(i.quorum)]
    BY <1>3 DEF prepare_preempt
  <1>5. prepare_preempt(p, i).ballot = 10 + i.ballot
    BY <1>4 DEF InstanceType
  <1>6. 10 + i.ballot \in Ballot
    BY <1>1, <1>5, SynodAssumption, ValueAssumption DEF Ballot
  <1>7. QED
    BY <1>2, <1>4, <1>5, <1>6, Zenon DEF InstanceType

\* Likewise for the move to the accept phase.
LEMMA AcceptedInstance ==
  ASSUME NEW i \in InstanceType, NEW v \in Value
  PROVE  /\ proposer_accept(i, v) \in InstanceType
         /\ TallyInv(proposer_accept(i, v).quorum)
         /\ proposer_accept(i, v).quorum.counted = {}
         /\ proposer_accept(i, v).list = "accept"
         /\ proposer_accept(i, v).value = v
         /\ proposer_accept(i, v).ballot = i.ballot
         /\ proposer_accept(i, v).value_ballot = i.value_ballot
  <1>1. i.quorum \in QuorumType
    BY DEF InstanceType
  <1>2. QED
    BY <1>1, ClearedTally, Zenon DEF proposer_accept, InstanceType

\* Likewise for a promise that is counted.
LEMMA PromisedInstance ==
  ASSUME NEW i \in InstanceType, NEW m,
         m.acceptor_id \in AcceptorId, m.record \in RecordType
  PROVE  LET j == proposer_receive_prepare_ack(i, m) IN
         /\ j \in InstanceType
         /\ j.list = i.list /\ j.ballot = i.ballot
         /\ j.quorum = quorum_add(i.quorum, m.acceptor_id)
         /\ IF m.record.value # None /\ (i.value = None \/ m.record.value_ballot > i.value_ballot)
              THEN j.value = m.record.value /\ j.value_ballot = m.record.value_ballot
              ELSE j.value = i.value /\ j.value_ballot = i.value_ballot
  <1>1. quorum_add(i.quorum, m.acceptor_id) \in QuorumType
    BY AddedType DEF InstanceType
  <1>2. QED
    BY <1>1, Zenon DEF proposer_receive_prepare_ack, InstanceType, RecordType

\* Likewise for an accept that is counted.
LEMMA AckedInstance ==
  ASSUME NEW i \in InstanceType, NEW m, m.acceptor_id \in AcceptorId
  PROVE  LET j == proposer_receive_accept_ack(i, m) IN
         /\ j \in InstanceType
         /\ j.list \in {i.list, "freed"}
         /\ j.list = "freed" => i.list = "freed" \/ quorum_reached(j.quorum)
         /\ j.ballot = i.ballot /\ j.value = i.value /\ j.value_ballot = i.value_ballot
         /\ j.quorum = quorum_add(i.quorum, m.acceptor_id)
  <1>1. quorum_add(i.quorum, m.acceptor_id) \in QuorumType
    BY AddedType DEF InstanceType
  <1>2. QED
    BY <1>1, Zenon DEF proposer_receive_accept_ack, InstanceType

\* What try_accept can make of an instance.
LEMMA TryAccept ==
  ASSUME NEW i \in InstanceType, NEW j \in try_accept(i)
  PROVE  \/ j = i
         \/ /\ i.list = "prepare"
            /\ quorum_reached(i.quorum)
            /\ \E v \in Value : (i.value = None \/ i.value = v) /\ j = proposer_accept(i, v)
  BY DEF try_accept, InstanceType

\* Every step keeps the variables well formed.
LEMMA TypeStep ==
  ASSUME IInv, [Next]_vars
  PROVE  TypeOK'
  <1> USE DEF vars, requests, acks
  <1>0. TypeOK /\ (\A p \in Proposer : ProposerInv(p))
    BY DEF IInv
  <1>1. ASSUME NEW p \in Proposer, Preexecute(p)
        PROVE  TypeOK'
    <2>1. PICK i \in instance_new(p) :
            /\ inst' = [inst EXCEPT ![p] = i]
            /\ prepare_req' = prepare_req \cup {[from |-> p, ballot |-> i.ballot]}
      BY <1>1, Zenon DEF Preexecute
    <2>2. i \in InstanceType /\ i.ballot \in Ballot
      BY NewInstanceType DEF InstanceType
    <2>3. QED
      BY <1>0, <1>1, <2>1, <2>2 DEF TypeOK, Preexecute
  <1>2. ASSUME NEW p \in Proposer, NEW i \in InstanceType, SettleAndSend(p, i),
               i.list # "accept",
               UNCHANGED <<rec, prepare_req, acks, votes>>
        PROVE  TypeOK'
    <2>1. PICK j \in try_accept(i) :
            /\ inst' = [inst EXCEPT ![p] = j]
            /\ accept_req' = accept_req \cup
                 IF j.list = "accept" THEN {[from |-> p, ballot |-> j.ballot, value |-> j.value]}
                                      ELSE {}
      BY <1>2, Zenon DEF SettleAndSend
    <2>2. CASE j = i
      BY <1>0, <1>2, <2>1, <2>2 DEF TypeOK
    <2>3. ASSUME NEW v \in Value, j = proposer_accept(i, v)
          PROVE  TypeOK'
      <3>1. j \in InstanceType /\ j.value = v /\ j.ballot \in Ballot
        BY <2>3, AcceptedInstance DEF InstanceType
      <3>2. QED
        BY <1>0, <1>2, <2>1, <3>1 DEF TypeOK
    <2>4. QED
      BY <1>2, <2>1, <2>2, <2>3, TryAccept
  <1>3. ASSUME NEW p \in Proposer, inst[p].list # "none", Preempt(p)
        PROVE  TypeOK'
    <2>1. inst[p] \in InstanceType /\ inst[p].ballot > 0
      BY <1>0, <1>3, Zenon DEF TypeOK, ProposerInv
    <2>2. prepare_preempt(p, inst[p]).ballot <= MaxBallot
      BY <1>3 DEF Preempt
    <2>3. /\ prepare_preempt(p, inst[p]) \in InstanceType
          /\ prepare_preempt(p, inst[p]).ballot \in Ballot
      BY <2>1, <2>2, PreemptedInstance DEF InstanceType
    <2>4. QED
      BY <1>0, <1>3, <2>3 DEF TypeOK, Preempt
  <1>4. ASSUME NEW p \in Proposer, HandleOther(p)
        PROVE  TypeOK'
    BY <1>0, <1>2, <1>4 DEF HandleOther, TypeOK
  <1>5. ASSUME NEW p \in Proposer, NEW m \in prepare_ack, HandlePrepareAck(p, m)
        PROVE  TypeOK'
    <2>1. m.acceptor_id \in AcceptorId /\ m.record \in RecordType /\ inst[p] \in InstanceType
      BY <1>0 DEF TypeOK
    <2>2. CASE /\ SettleAndSend(p, proposer_receive_prepare_ack(inst[p], m))
               /\ UNCHANGED <<rec, prepare_req, acks, votes>>
      <3>1. /\ proposer_receive_prepare_ack(inst[p], m) \in InstanceType
            /\ proposer_receive_prepare_ack(inst[p], m).list = "prepare"
        BY <1>5, <2>1, PromisedInstance DEF HandlePrepareAck
      <3>2. QED
        BY <1>2, <2>2, <3>1
    <2>3. CASE Preempt(p)
      BY <1>3, <1>5, <2>3 DEF HandlePrepareAck
    <2>4. QED
      BY <1>5, <2>2, <2>3 DEF HandlePrepareAck
  <1>6. ASSUME NEW p \in Proposer, NEW m \in accept_ack, HandleAcceptAck(p, m)
        PROVE  TypeOK'
    <2>1. m.acceptor_id \in AcceptorId /\ inst[p] \in InstanceType
      BY <1>0 DEF TypeOK
    <2>2. proposer_receive_accept_ack(inst[p], m) \in InstanceType
      BY <2>1, AckedInstance
    <2>3. [inst[p] EXCEPT !.list = "aborted"] \in InstanceType
      BY <2>1 DEF InstanceType
    <2>4. CASE Preempt(p)
      BY <1>3, <1>6, <2>4 DEF HandleAcceptAck
    <2>5. CASE ~ Preempt(p)
      BY <1>0, <1>6, <2>2, <2>3, <2>5 DEF HandleAcceptAck, TypeOK
    <2>6. QED
      BY <2>4, <2>5
  <1>7. ASSUME NEW a \in AcceptorId, NEW m \in prepare_req, HandlePrepareReq(a, m)
        PROVE  TypeOK'
    <2>1. m.from \in Proposer /\ m.ballot \in Ballot /\ rec[a] \in RecordType
      BY <1>0 DEF TypeOK
    <2>2. apply_prepare(rec[a], m) \in RecordType
      BY <2>1 DEF apply_prepare, RecordType
    <2>3. QED
      BY <1>0, <1>7, <2>1, <2>2 DEF HandlePrepareReq, TypeOK
  <1>8. ASSUME NEW a \in AcceptorId, NEW m \in accept_req, HandleAcceptReq(a, m)
        PROVE  TypeOK'
    <2>1. m.from \in Proposer /\ m.ballot \in Ballot /\ m.value \in Value /\ rec[a] \in RecordType
      BY <1>0 DEF TypeOK
    <2>2. apply_accept(rec[a], m) \in RecordType
      BY <2>1 DEF apply_accept, RecordType
    <2>3. QED
      BY <1>0, <1>8, <2>1, <2>2 DEF HandleAcceptReq, TypeOK
  <1>9. CASE UNCHANGED vars
    BY <1>0, <1>9 DEF TypeOK
  <1>10. QED
    BY <1>1, <1>4, <1>5, <1>6, <1>7, <1>8, <1>9 DEF Next, ProposerNext, AcceptorNext
-----------------------------------------------------------------------------
(* Safety of the values proposed *)

\* Ballots and promises of acceptors only grow, and no vote is cast below a
\* promise: what was safe or promised stays so.
LEMMA Monotone ==
  ASSUME TypeOK, TypeOK',
         \A a \in AcceptorId :
           /\ rec[a].ballot <= rec'[a].ballot
           /\ votes[a] \subseteq votes'[a]
           /\ \A vote \in votes'[a] : vote \in votes[a] \/ vote[1] >= rec[a].ballot
  PROVE  /\ \A b \in Ballot, v \in Value : SafeAt(b, v) => SafeAt(b, v)'
         /\ \A a \in AcceptorId, b \in Ballot, vb \in Ballot :
              Promised(a, b, vb) => Promised(a, b, vb)'
  <1>1. \A a \in AcceptorId : /\ rec[a].ballot \in Nat /\ rec'[a].ballot \in Nat
                              /\ \A vote \in votes'[a] : vote[1] \in Nat
    BY DEF TypeOK, RecordType, Ballot
  <1>2. ASSUME NEW b \in Ballot, NEW v \in Value, SafeAt(b, v)
        PROVE  SafeAt(b, v)'
    <2> SUFFICES ASSUME NEW c \in 1 .. b - 1
                 PROVE  \E Q \in Majority : \A a \in Q :
                          \/ <<c, v>> \in votes'[a]
                          \/ rec'[a].ballot > c /\ \A w \in Value : <<c, w>> \notin votes'[a]
      BY DEF SafeAt
    <2>1. PICK Q \in Majority : \A a \in Q :
            \/ <<c, v>> \in votes[a]
            \/ rec[a].ballot > c /\ \A w \in Value : <<c, w>> \notin votes[a]
      BY <1>2 DEF SafeAt
    <2>2. ASSUME NEW a \in Q
          PROVE  \/ <<c, v>> \in votes'[a]
                 \/ rec'[a].ballot > c /\ \A w \in Value : <<c, w>> \notin votes'[a]
      <3>1. a \in AcceptorId /\ c \in Nat
        BY DEF Majority, Ballot
      <3>2. CASE <<c, v>> \in votes[a]
        BY <3>1, <3>2
      <3>3. CASE rec[a].ballot > c /\ \A w \in Value : <<c, w>> \notin votes[a]
        BY <1>1, <3>1, <3>3
      <3>4. QED
        BY <2>1, <3>2, <3>3
    <2>3. QED
      BY <2>2
  <1>3. ASSUME NEW a \in AcceptorId, NEW b \in Ballot, NEW vb \in Ballot, Promised(a, b, vb)
        PROVE  Promised(a, b, vb)'
    BY <1>1, <1>3 DEF Promised, Ballot
  <1>4. QED
    BY <1>2, <1>3

\* What a proposer knows of its instance: ProposerInv for an instance that may
\* still be on its way into inst.
PreparedWith(i) ==
  /\ i \in InstanceType
  /\ TallyInv(i.quorum)
  /\ i.value = None => i.value_ballot = 0
  /\ i.value_ballot > 0 => \E a \in AcceptorId : <<i.value_ballot, i.value>> \in votes[a]
  /\ \A a \in i.quorum.counted : Promised(a, i.ballot, i.value_ballot)

\* A quorum of promises makes the value with the highest value_ballot, or any
\* value if none was reported, safe at the instance's ballot.
LEMMA ProposalSafe ==
  ASSUME IInv, NEW i, PreparedWith(i), quorum_reached(i.quorum),
         NEW v \in Value, i.value = None \/ i.value = v
  PROVE  SafeAt(i.ballot, v)
  <1> DEFINE Q == i.quorum.counted
  <1>1. Q \in Majority
    BY ReachedTally DEF PreparedWith, InstanceType
  <1>2. i.ballot \in Nat /\ i.value_ballot \in Nat /\ Q \subseteq AcceptorId
    BY <1>1 DEF PreparedWith, InstanceType, Ballot, Majority
  <1>3. \A a \in AcceptorId : /\ rec[a].ballot \in Nat
                              /\ \A vote \in votes[a] : vote[1] \in Nat
    BY DEF IInv, TypeOK, RecordType, Ballot
  <1>4. \A a \in Q : /\ rec[a].ballot >= i.ballot
                     /\ \A vote \in votes[a] : vote[1] < i.ballot => vote[1] <= i.value_ballot
    BY DEF PreparedWith, Promised
  <1> SUFFICES ASSUME NEW c \in 1 .. i.ballot - 1
               PROVE  \E R \in Majority : \A a \in R :
                        \/ <<c, v>> \in votes[a]
                        \/ rec[a].ballot > c /\ \A w \in Value : <<c, w>> \notin votes[a]
    BY DEF SafeAt
  <1>5. c \in Nat /\ c > 0 /\ c < i.ballot
    BY <1>2
  <1>6. CASE c > i.value_ballot
    <2>1. \A a \in Q : rec[a].ballot > c /\ \A w \in Value : <<c, w>> \notin votes[a]
      BY <1>2, <1>3, <1>4, <1>5, <1>6
    <2>2. QED
      BY <1>1, <2>1
  <1>7. CASE c <= i.value_ballot
    <2>1. i.value_ballot > 0 /\ i.value = v
      BY <1>2, <1>5, <1>7 DEF PreparedWith
    <2>2. PICK b \in AcceptorId : <<i.value_ballot, v>> \in votes[b]
      BY <2>1 DEF PreparedWith
    <2>3. PICK m \in accept_req : m.ballot = i.value_ballot /\ m.value = v
      BY <2>2, Zenon DEF IInv, AcceptorInv
    <2>4. CASE c = i.value_ballot
      <3>1. ASSUME NEW a \in Q, NEW w \in Value, <<c, w>> \in votes[a]
            PROVE  w = v
        <4>1. PICK n \in accept_req : n.ballot = c /\ n.value = w
          BY <1>2, <3>1, Zenon DEF IInv, AcceptorInv
        <4>2. QED
          BY <2>3, <2>4, <4>1 DEF IInv, OneValuePerBallot
      <3>2. \A a \in Q : rec[a].ballot > c
        BY <1>2, <1>3, <1>4, <1>5
      <3>3. QED
        BY <1>1, <3>1, <3>2
    <2>5. CASE c < i.value_ballot
      <3>1. SafeAt(i.value_ballot, v)
        BY <2>3 DEF IInv, AcceptReqInv
      <3>2. c \in 1 .. i.value_ballot - 1
        BY <1>2, <1>5, <2>5
      <3>3. QED
        BY <3>1, <3>2 DEF SafeAt
    <2>6. QED
      BY <1>2, <1>5, <1>7, <2>4, <2>5
  <1>8. QED
    BY <1>2, <1>5, <1>6, <1>7
-----------------------------------------------------------------------------
(* The steps of a proposer *)

\* A step that replaces p's instance by j, and at most sends j's safe value,
\* preserves everything but what has to be shown of j.
LEMMA ProposerPreserves ==
  ASSUME IInv, TypeOK', NEW p \in Proposer, NEW j,
         inst' = [inst EXCEPT ![p] = j],
         UNCHANGED <<rec, acks, votes>>,
         \/ accept_req' = accept_req
         \/ /\ accept_req' = accept_req \cup {[from |-> p, ballot |-> j.ballot, value |-> j.value]}
            /\ j.list = "accept" /\ inst[p].list = "prepare" /\ j.ballot = inst[p].ballot
            /\ SafeAt(j.ballot, j.value),
         \A m \in accept_req : m.from = p =>
           /\ m.ballot <= j.ballot
           /\ m.ballot = j.ballot => j.list \in {"accept", "freed", "aborted"} /\ j.value = m.value,
         ProposerInv(p)'
  PROVE  IInv'
  <1> USE DEF acks
  <1>1. accept_req \subseteq accept_req'
    OBVIOUS
  <1>2. inst'[p] = j /\ \A q \in Proposer \ {p} : inst'[q] = inst[q]
    BY DEF IInv, TypeOK
  <1>3. \A a \in AcceptorId : AcceptorInv(a)'
    BY <1>1 DEF IInv, AcceptorInv
  <1>4. \A m \in prepare_ack' : PrepareAckInv(m)'
    BY Zenon DEF IInv, PrepareAckInv, Promised
  <1>5. \A m \in accept_ack' : AcceptAckInv(m)'
    BY Zenon DEF IInv, AcceptAckInv
  <1>6. \A b, v : SafeAt(b, v)' <=> SafeAt(b, v)
    BY DEF SafeAt
  <1>7. ASSUME NEW m \in accept_req
        PROVE  AcceptReqInv(m)'
    <2>1. AcceptReqInv(m) /\ m.from \in Proposer
      BY DEF IInv, TypeOK
    <2>2. QED
      BY <1>2, <1>6, <2>1 DEF AcceptReqInv
  <1>8. ASSUME NEW m \in accept_req', m \notin accept_req
        PROVE  AcceptReqInv(m)' /\ (\A n \in accept_req : n.ballot # m.ballot)
    <2>1. /\ m = [from |-> p, ballot |-> j.ballot, value |-> j.value]
          /\ j.list = "accept" /\ inst[p].list = "prepare" /\ j.ballot = inst[p].ballot
          /\ SafeAt(j.ballot, j.value)
      BY <1>8
    <2>2. j.ballot > 0 /\ j.ballot % MAX_N_OF_PROPOSERS = p
      BY <2>1, Zenon DEF IInv, ProposerInv
    <2>3. j.ballot \in Nat
      BY <2>1 DEF IInv, TypeOK, InstanceType, Ballot
    <2>4. AcceptReqInv(m)'
      BY <1>2, <1>6, <2>1, <2>2, <2>3 DEF AcceptReqInv
    <2>5. ASSUME NEW n \in accept_req, n.ballot = m.ballot
          PROVE  FALSE
      <3>1. AcceptReqInv(n)
        BY DEF IInv
      <3>2. n.from = p
        BY <2>1, <2>2, <2>5, <3>1 DEF AcceptReqInv
      <3>3. QED
        BY <2>1, <2>5, <3>1, <3>2 DEF AcceptReqInv
    <2>6. QED
      BY <2>4, <2>5
  <1>9. OneValuePerBallot'
    <2> SUFFICES ASSUME NEW m \in accept_req', NEW n \in accept_req', m.ballot = n.ballot
                 PROVE  m = n
      BY DEF OneValuePerBallot
    <2>1. CASE m \in accept_req /\ n \in accept_req
      BY <2>1 DEF IInv, OneValuePerBallot
    <2>2. CASE m \notin accept_req /\ n \notin accept_req
      BY <2>2
    <2>3. QED
      BY <1>8, <2>1, <2>2
  <1>10. ASSUME NEW q \in Proposer \ {p}
         PROVE  ProposerInv(q)'
    <2>1. ProposerInv(q) /\ inst'[q] = inst[q]
      BY <1>2 DEF IInv
    <2>2. QED
      BY <1>1, <2>1, Zenon DEF ProposerInv, Promised
  <1>11. QED
    BY <1>3, <1>4, <1>5, <1>7, <1>8, <1>9, <1>10 DEF IInv

\* proposer_preexecute creates an instance that knows nothing yet.
LEMMA PreexecuteStep ==
  ASSUME IInv, TypeOK', NEW p \in Proposer, Preexecute(p)
  PROVE  IInv'
  <1>1. PICK i \in instance_new(p) : inst' = [inst EXCEPT ![p] = i]
    BY Zenon DEF Preexecute
  <1>2. /\ i \in InstanceType /\ TallyInv(i.quorum) /\ i.quorum.counted = {}
        /\ i.list = "prepare" /\ i.value = None /\ i.value_ballot = 0
        /\ i.ballot = 10 + p
    BY NewInstanceType
  <1>3. inst[p].list = "none" /\ inst[p].ballot = 0
    BY Zenon DEF Preexecute, IInv, ProposerInv
  <1>4. \A m \in accept_req : m.from # p
    BY <1>3 DEF IInv, AcceptReqInv, TypeOK, Ballot
  <1>5. p \in 0 .. 9
    BY SynodAssumption, ValueAssumption DEF MAX_N_OF_PROPOSERS
  <1>6. inst'[p] = i
    BY <1>1 DEF IInv, TypeOK
  <1>7. i.ballot > 0 /\ i.ballot % MAX_N_OF_PROPOSERS = p
    BY <1>2, <1>5 DEF MAX_N_OF_PROPOSERS
  <1>8. ProposerInv(p)'
    BY <1>2, <1>6, <1>7 DEF ProposerInv
  <1>9. QED
    BY <1>1, <1>4, <1>8, ProposerPreserves, Zenon DEF Preexecute

\* prepare_preempt keeps what the proposer knows and moves above all it sent.
LEMMA PreemptStep ==
  ASSUME IInv, TypeOK', NEW p \in Proposer, inst[p].list # "none", Preempt(p)
  PROVE  IInv'
  <1> DEFINE i == prepare_preempt(p, inst[p])
  <1>1. inst[p] \in InstanceType /\ ProposerInv(p) /\ inst[p].ballot > 0
        /\ inst[p].ballot % MAX_N_OF_PROPOSERS = p
    BY Zenon DEF IInv, TypeOK, ProposerInv
  <1>2. /\ i \in InstanceType /\ TallyInv(i.quorum) /\ i.quorum.counted = {}
        /\ i.list = "prepare" /\ i.value = inst[p].value
        /\ i.value_ballot = inst[p].value_ballot /\ i.ballot = 10 + inst[p].ballot
    BY <1>1, PreemptedInstance DEF Preempt
  <1>3. inst' = [inst EXCEPT ![p] = i] /\ inst'[p] = i
    BY DEF Preempt, IInv, TypeOK
  <1>4. inst[p].ballot \in Nat
    BY <1>1 DEF InstanceType, Ballot
  <1>5. \A m \in accept_req : m.from = p => m.ballot < i.ballot
    BY <1>2, <1>4 DEF IInv, AcceptReqInv, TypeOK, Ballot
  <1>6. \A m \in accept_req : m.ballot \in Nat
    BY DEF IInv, TypeOK, Ballot
  <1>7. i.ballot > 0 /\ i.ballot % MAX_N_OF_PROPOSERS = p
    BY <1>1, <1>2, <1>4 DEF MAX_N_OF_PROPOSERS
  <1>8. UNCHANGED <<rec, accept_req, acks, votes>>
    BY DEF Preempt
  <1> HIDE DEF i
  <1>9. ProposerInv(p)'
    BY <1>1, <1>2, <1>3, <1>7, <1>8, Zenon DEF ProposerInv
  <1>10. i.ballot \in Nat
    BY <1>2, <1>4
  <1>11. \A m \in accept_req : m.from = p => m.ballot <= i.ballot /\ m.ballot # i.ballot
    BY <1>5, <1>6, <1>10
  <1>12. QED
    BY <1>3, <1>8, <1>9, <1>11, ProposerPreserves, Zenon

\* try_accept leaves a prepared instance as it is or proposes a safe value.
LEMMA SettleStep ==
  ASSUME IInv, TypeOK', NEW p \in Proposer, NEW i,
         inst[p].list = "prepare",
         PreparedWith(i), i.list = "prepare", i.ballot = inst[p].ballot,
         SettleAndSend(p, i),
         UNCHANGED <<rec, prepare_req, acks, votes>>
  PROVE  IInv'
  <1>1. PICK j \in try_accept(i) :
          /\ inst' = [inst EXCEPT ![p] = j]
          /\ accept_req' = accept_req \cup
               IF j.list = "accept" THEN {[from |-> p, ballot |-> j.ballot, value |-> j.value]}
                                    ELSE {}
    BY Zenon DEF SettleAndSend
  <1>2. inst'[p] = j
    BY <1>1 DEF IInv, TypeOK
  <1>3. i \in InstanceType
    BY DEF PreparedWith
  <1>4. i.ballot > 0 /\ i.ballot % MAX_N_OF_PROPOSERS = p
    BY Zenon DEF IInv, ProposerInv
  <1>5. \A m \in accept_req : m.from = p => m.ballot <= i.ballot /\ m.ballot # i.ballot
    BY DEF IInv, AcceptReqInv
  <1>6. CASE j = i
    <2>1. accept_req' = accept_req
      BY <1>1, <1>6
    <2>2. ProposerInv(p)'
      BY <1>2, <1>4, <1>6 DEF ProposerInv, PreparedWith, Promised
    <2>3. QED
      BY <1>1, <1>5, <1>6, <2>1, <2>2, ProposerPreserves, Zenon
  <1>7. ASSUME NEW v \in Value, quorum_reached(i.quorum),
               i.value = None \/ i.value = v, j = proposer_accept(i, v)
        PROVE  IInv'
    <2>1. SafeAt(i.ballot, v)
      BY <1>7, ProposalSafe
    <2>2. /\ TallyInv(j.quorum) /\ j.quorum.counted = {} /\ j.list = "accept"
          /\ j.value = v /\ j.ballot = i.ballot /\ j.value_ballot = i.value_ballot
      BY <1>3, <1>7, AcceptedInstance
    <2>3. accept_req' = accept_req \cup {[from |-> p, ballot |-> j.ballot, value |-> j.value]}
      BY <1>1, <2>2
    <2>4. i.value_ballot > 0 => i.value = v
      BY <1>7 DEF PreparedWith
    <2>5. v # None
      BY SynodAssumption, ValueAssumption
    <2>6. i.value_ballot > 0 => \E a \in AcceptorId : <<i.value_ballot, v>> \in votes[a]
      BY <2>4 DEF PreparedWith
    <2>7. \E m \in accept_req' : m.ballot = j.ballot /\ m.value = j.value
      <3> DEFINE n == [from |-> p, ballot |-> j.ballot, value |-> j.value]
      <3>1. n \in accept_req'
        BY <2>3
      <3>2. n.ballot = j.ballot /\ n.value = j.value
        OBVIOUS
      <3> HIDE DEF n
      <3>3. QED
        BY <3>1, <3>2
    <2>8. j.value_ballot > 0 => \E a \in AcceptorId : <<j.value_ballot, j.value>> \in votes'[a]
      BY <2>2, <2>6
    <2>9. /\ j.ballot > 0 /\ j.ballot % MAX_N_OF_PROPOSERS = p
          /\ j.list = "accept" /\ j.value # None
      BY <1>4, <2>2, <2>5
    <2>10. ProposerInv(p)'
      BY <1>2, <2>2, <2>7, <2>8, <2>9 DEF ProposerInv
    <2>11. \A m \in accept_req : m.from = p => m.ballot <= j.ballot /\ m.ballot # j.ballot
      BY <1>5, <2>2
    <2>12. SafeAt(j.ballot, j.value) /\ j.ballot = inst[p].ballot
      BY <2>1, <2>2
    <2>13. QED
      BY <1>1, <2>2, <2>3, <2>10, <2>11, <2>12, ProposerPreserves, Zenon
  <1>8. QED
    BY <1>3, <1>6, <1>7, TryAccept

\* Any other message or client value only runs try_accept.
LEMMA OtherStep ==
  ASSUME IInv, TypeOK', NEW p \in Proposer, HandleOther(p)
  PROVE  IInv'
  <1>1. PreparedWith(inst[p])
    BY Zenon DEF HandleOther, IInv, TypeOK, ProposerInv, PreparedWith
  <1>2. QED
    BY <1>1, SettleStep DEF HandleOther

\* Counting a promise keeps value_ballot above every vote the promises cover.
LEMMA PrepareAckStep ==
  ASSUME IInv, TypeOK', NEW p \in Proposer, NEW m \in prepare_ack, HandlePrepareAck(p, m)
  PROVE  IInv'
  <1> DEFINE i == inst[p]
             j == proposer_receive_prepare_ack(i, m)
  <1>1. /\ m.acceptor_id \in AcceptorId /\ m.record \in RecordType
        /\ i \in InstanceType /\ ProposerInv(p) /\ PrepareAckInv(m)
    BY DEF IInv, TypeOK
  <1>2. i.list = "prepare"
    BY DEF HandlePrepareAck
  <1>3. CASE Preempt(p)
    BY <1>2, <1>3, PreemptStep
  <1>4. CASE /\ m.record.ballot = i.ballot
             /\ SettleAndSend(p, j)
             /\ UNCHANGED <<rec, prepare_req, acks, votes>>
    <2>1. /\ j \in InstanceType
          /\ j.list = i.list /\ j.ballot = i.ballot
          /\ j.quorum = quorum_add(i.quorum, m.acceptor_id)
          /\ IF m.record.value # None /\ (i.value = None \/ m.record.value_ballot > i.value_ballot)
               THEN j.value = m.record.value /\ j.value_ballot = m.record.value_ballot
               ELSE j.value = i.value /\ j.value_ballot = i.value_ballot
      BY <1>1, PromisedInstance
    <2>2. i.quorum \in QuorumType /\ TallyInv(i.quorum)
      BY <1>1 DEF ProposerInv, InstanceType
    <2>3. /\ TallyInv(j.quorum)
          /\ j.quorum.counted \subseteq i.quorum.counted \cup {m.acceptor_id}
      BY <1>1, <2>1, <2>2, AddedTally
    <2>4. /\ i.value_ballot \in Nat /\ m.record.value_ballot \in Nat
          /\ \A a \in AcceptorId : \A vote \in votes[a] : vote[1] \in Nat
      BY <1>1 DEF InstanceType, RecordType, Ballot, IInv, TypeOK
    <2>5. /\ i.value = None => i.value_ballot = 0
          /\ m.record.value = None => m.record.value_ballot = 0
      BY <1>1, Zenon DEF ProposerInv, PrepareAckInv
    <2>6. j.value_ballot >= i.value_ballot /\ j.value_ballot >= m.record.value_ballot
      BY <2>1, <2>4, <2>5
    <2>7. i.quorum.counted \subseteq AcceptorId /\ j.value_ballot \in Nat
      BY <2>1, <2>2, <2>4 DEF QuorumType
    <2>8. \A a \in i.quorum.counted : Promised(a, i.ballot, i.value_ballot)
      BY <1>1, <1>2 DEF ProposerInv
    <2>9. Promised(m.acceptor_id, i.ballot, m.record.value_ballot)
      BY <1>1, <1>4, Zenon DEF PrepareAckInv
    <2>10. ASSUME NEW a \in AcceptorId, NEW vb \in Nat, vb <= j.value_ballot,
                  Promised(a, i.ballot, vb)
           PROVE  Promised(a, j.ballot, j.value_ballot)
      BY <2>1, <2>4, <2>7, <2>10 DEF Promised
    <2>11. \A a \in j.quorum.counted : Promised(a, j.ballot, j.value_ballot)
      BY <1>1, <2>3, <2>4, <2>6, <2>7, <2>8, <2>9, <2>10
    <2>12. /\ j.value = None => j.value_ballot = 0
           /\ j.value_ballot > 0 => \E a \in AcceptorId : <<j.value_ballot, j.value>> \in votes[a]
      BY <1>1, <2>1, Zenon DEF ProposerInv, PrepareAckInv
    <2>13. PreparedWith(j)
      BY <2>1, <2>3, <2>11, <2>12, Zenon DEF PreparedWith
    <2>14. QED
      BY <1>2, <1>4, <2>1, <2>13, SettleStep
  <1>5. QED
    BY <1>3, <1>4, Zenon DEF HandlePrepareAck

\* Every acceptor counted in the accept phase voted for the instance's value.
LEMMA AcceptAckStep ==
  ASSUME IInv, TypeOK', NEW p \in Proposer, NEW m \in accept_ack, HandleAcceptAck(p, m)
  PROVE  IInv'
  <1> DEFINE i == inst[p]
             j == proposer_receive_accept_ack(i, m)
             k == [i EXCEPT !.list = "aborted"]
  <1>1. /\ m.acceptor_id \in AcceptorId /\ m.record \in RecordType
        /\ i \in InstanceType /\ ProposerInv(p) /\ AcceptAckInv(m)
        /\ i.list = "accept"
    BY DEF IInv, TypeOK, HandleAcceptAck
  <1>2. \A n \in accept_req : n.from = p =>
          n.ballot <= i.ballot /\ (n.ballot = i.ballot => i.value = n.value)
    BY DEF IInv, AcceptReqInv
  <1>3. CASE Preempt(p)
    BY <1>1, <1>3, PreemptStep
  <1>4. CASE /\ inst' = [inst EXCEPT ![p] = k]
             /\ UNCHANGED <<rec, requests, acks, votes>>
    <2>1. /\ k.list = "aborted" /\ k.ballot = i.ballot /\ k.value = i.value
          /\ k.value_ballot = i.value_ballot /\ k.quorum = i.quorum
      BY <1>1 DEF InstanceType
    <2>2. inst'[p] = k
      BY <1>4 DEF IInv, TypeOK
    <2> HIDE DEF k
    <2>3. ProposerInv(p)'
      BY <1>1, <1>4, <2>1, <2>2, Zenon DEF ProposerInv
    <2>4. \A r \in accept_req : r.from = p =>
            /\ r.ballot <= k.ballot
            /\ r.ballot = k.ballot =>
                 k.list \in {"accept", "freed", "aborted"} /\ k.value = r.value
      BY <1>2, <2>1
    <2>5. inst' = [inst EXCEPT ![p] = k] /\ accept_req' = accept_req
         /\ UNCHANGED <<rec, acks, votes>>
      BY <1>4 DEF requests
    <2>6. QED
      BY <2>4, <2>5, <2>3, ProposerPreserves, Zenon
  <1>5. CASE /\ m.record.ballot = i.ballot /\ m.record.value_ballot = i.ballot
             /\ inst' = [inst EXCEPT ![p] = j]
             /\ UNCHANGED <<rec, requests, acks, votes>>
    <2>1. /\ j.list \in {"accept", "freed"}
          /\ j.list = "freed" => quorum_reached(j.quorum)
          /\ j.ballot = i.ballot /\ j.value = i.value /\ j.value_ballot = i.value_ballot
          /\ j.quorum = quorum_add(i.quorum, m.acceptor_id)
      BY <1>1, AckedInstance, Zenon
    <2>2. i.quorum \in QuorumType /\ TallyInv(i.quorum)
      BY <1>1 DEF ProposerInv, InstanceType
    <2>3. /\ TallyInv(j.quorum)
          /\ j.quorum.counted \subseteq i.quorum.counted \cup {m.acceptor_id}
      BY <1>1, <2>1, <2>2, AddedTally, Zenon
    <2>4. <<i.ballot, m.record.value>> \in votes[m.acceptor_id]
      <3>1. i.ballot > 0
        BY <1>1, Zenon DEF ProposerInv
      <3>2. m.record.value # None
        BY <1>1, <1>5, <3>1 DEF AcceptAckInv
      <3>3. QED
        BY <1>1, <1>5, <3>2, Zenon DEF AcceptAckInv
    <2>5. PICK n \in accept_req : n.ballot = i.ballot /\ n.value = m.record.value
      BY <1>1, <2>4, Zenon DEF IInv, AcceptorInv
    <2>6. PICK o \in accept_req : o.ballot = i.ballot /\ o.value = i.value
      BY <1>1, Zenon DEF ProposerInv
    <2>7. m.record.value = i.value
      BY <2>5, <2>6 DEF IInv, OneValuePerBallot
    <2>8. \A a \in j.quorum.counted : <<j.ballot, j.value>> \in votes[a]
      BY <1>1, <2>1, <2>3, <2>4, <2>7, Zenon DEF ProposerInv
    <2>9. inst'[p] = j
      BY <1>5, Zenon DEF IInv, TypeOK
    <2>10. accept_req' = accept_req /\ votes' = votes
      BY <1>5 DEF requests
    <2> HIDE DEF j
    <2>11. ProposerInv(p)'
      BY <1>1, <2>1, <2>3, <2>8, <2>9, <2>10, Zenon DEF ProposerInv
    <2>12. \A r \in accept_req : r.from = p =>
            /\ r.ballot <= j.ballot
            /\ r.ballot = j.ballot =>
                 j.list \in {"accept", "freed", "aborted"} /\ j.value = r.value
      BY <1>2, <2>1, Zenon
    <2>13. inst' = [inst EXCEPT ![p] = j] /\ accept_req' = accept_req
         /\ UNCHANGED <<rec, acks, votes>>
      BY <1>5, Zenon DEF requests
    <2>14. QED
      BY <2>12, <2>13, <2>11, ProposerPreserves, Zenon
  <1>6. QED
    BY <1>3, <1>4, <1>5 DEF HandleAcceptAck
-----------------------------------------------------------------------------
(* The steps of an acceptor *)

\* Growing ballots and votes preserve everything but what has to be shown of the
\* records and of the acks just sent.
LEMMA AcceptorPreserves ==
  ASSUME IInv, TypeOK',
         \A a \in AcceptorId :
           /\ rec[a].ballot <= rec'[a].ballot
           /\ votes[a] \subseteq votes'[a]
           /\ \A vote \in votes'[a] : vote \in votes[a] \/ vote[1] >= rec[a].ballot,
         UNCHANGED <<inst, requests>>,
         \A a \in AcceptorId : AcceptorInv(a)',
         \A m \in prepare_ack' : m \in prepare_ack \/ PrepareAckInv(m)',
         \A m \in accept_ack' : m \in accept_ack \/ AcceptAckInv(m)'
  PROVE  IInv'
  <1>1. TypeOK /\ inst' = inst /\ accept_req' = accept_req
    BY DEF IInv, requests
  <1>2. /\ \A b \in Ballot, v \in Value : SafeAt(b, v) => SafeAt(b, v)'
        /\ \A a \in AcceptorId, b \in Ballot, vb \in Ballot :
             Promised(a, b, vb) => Promised(a, b, vb)'
    BY <1>1, Monotone
  <1>3. ASSUME NEW m \in prepare_ack
        PROVE  PrepareAckInv(m)'
    <2>1. /\ PrepareAckInv(m) /\ m.acceptor_id \in AcceptorId
          /\ m.record.ballot \in Ballot /\ m.record.value_ballot \in Ballot
      BY DEF IInv, TypeOK, RecordType
    <2>2. QED
      BY <1>2, <2>1 DEF PrepareAckInv
  <1>4. ASSUME NEW m \in accept_ack
        PROVE  AcceptAckInv(m)'
    <2>1. AcceptAckInv(m) /\ m.acceptor_id \in AcceptorId
      BY DEF IInv, TypeOK
    <2>2. QED
      BY <2>1 DEF AcceptAckInv
  <1>5. ASSUME NEW m \in accept_req
        PROVE  AcceptReqInv(m)'
    <2>1. AcceptReqInv(m) /\ m.ballot \in Ballot /\ m.value \in Value
      BY DEF IInv, TypeOK
    <2>2. QED
      BY <1>1, <1>2, <2>1, Zenon DEF AcceptReqInv
  <1>6. OneValuePerBallot'
    BY <1>1 DEF IInv, OneValuePerBallot
  <1>7. ASSUME NEW p \in Proposer
        PROVE  ProposerInv(p)'
    <2>1. /\ ProposerInv(p) /\ inst[p].ballot \in Ballot /\ inst[p].value_ballot \in Ballot
          /\ inst[p].quorum.counted \subseteq AcceptorId
      BY DEF IInv, TypeOK, InstanceType, QuorumType
    <2>2. inst[p].list = "prepare" =>
            \A a \in inst[p].quorum.counted :
              Promised(a, inst[p].ballot, inst[p].value_ballot)'
      BY <1>1, <1>2, <2>1, Zenon DEF ProposerInv
    <2>3. QED
      BY <1>1, <2>1, <2>2, Zenon DEF ProposerInv
  <1>8. QED
    BY <1>1, <1>3, <1>4, <1>5, <1>6, <1>7, Zenon DEF IInv

\* apply_prepare: the ack is the record, whose vote is the acceptor's last.
LEMMA PrepareReqStep ==
  ASSUME IInv, TypeOK', NEW a \in AcceptorId, NEW m \in prepare_req, HandlePrepareReq(a, m)
  PROVE  IInv'
  <1>r. PICK r : r = apply_prepare(rec[a], m)
    OBVIOUS
  <1>k. PICK ack : ack = [to |-> m.from, acceptor_id |-> a, record |-> r]
    BY Zenon
  <1>1. /\ rec[a] \in RecordType /\ AcceptorInv(a) /\ m.ballot \in Nat
        /\ rec[a].ballot \in Nat /\ rec[a].value_ballot \in Nat
        /\ \A vote \in votes[a] : vote[1] \in Nat
    BY DEF IInv, TypeOK, RecordType, Ballot
  <1>2. /\ r.ballot \in Nat /\ r.ballot >= rec[a].ballot
        /\ r.value = rec[a].value /\ r.value_ballot = rec[a].value_ballot
    BY <1>r, <1>1 DEF apply_prepare, RecordType
  <1>3. /\ rec' = [rec EXCEPT ![a] = r] /\ rec'[a] = r
        /\ \A b \in AcceptorId \ {a} : rec'[b] = rec[b]
    BY <1>r, Zenon DEF HandlePrepareReq, IInv, TypeOK
  <1>4. /\ prepare_ack' = prepare_ack \cup {ack}
        /\ UNCHANGED <<inst, requests>> /\ accept_ack' = accept_ack /\ votes' = votes
        /\ accept_req' = accept_req
    BY <1>k, <1>3, Zenon DEF HandlePrepareReq, requests
  <1>5. ack.acceptor_id = a /\ ack.record = r
    BY <1>k
  <1>6. \A b \in AcceptorId : rec[b].ballot \in Nat
    BY DEF IInv, TypeOK, RecordType, Ballot
  <1>7. \A b \in AcceptorId :
          /\ rec[b].ballot <= rec'[b].ballot
          /\ votes[b] \subseteq votes'[b]
          /\ \A vote \in votes'[b] : vote \in votes[b] \/ vote[1] >= rec[b].ballot
    <2>1. rec[a].ballot <= rec'[a].ballot
      BY <1>1, <1>2, <1>3
    <2>2. \A b \in AcceptorId \ {a} : rec[b].ballot <= rec'[b].ballot
      BY <1>3, <1>6
    <2>3. votes' = votes
      BY <1>4
    <2>4. QED
      BY <2>1, <2>2, <2>3, Zenon
  <1>8. AcceptorInv(a)'
    BY <1>1, <1>2, <1>3, <1>4 DEF AcceptorInv
  <1>9. \A b \in AcceptorId \ {a} : AcceptorInv(b)'
    BY <1>3, <1>4, Zenon DEF IInv, AcceptorInv
  <1>10. PrepareAckInv(ack)'
    BY <1>1, <1>2, <1>3, <1>4, <1>5 DEF PrepareAckInv, Promised, AcceptorInv
  <1>11. QED
    BY <1>4, <1>7, <1>8, <1>9, <1>10, AcceptorPreserves

\* apply_accept: a refusal changes nothing, an accept is a vote for the request.
LEMMA AcceptReqStep ==
  ASSUME IInv, TypeOK', NEW a \in AcceptorId, NEW m \in accept_req, HandleAcceptReq(a, m)
  PROVE  IInv'
  <1>r. PICK r : r = apply_accept(rec[a], m)
    OBVIOUS
  <1>k. PICK ack : ack = [to          |-> IF r.ballot = m.ballot THEN Proposer \cup Learner
                                                                 ELSE {m.from},
                          acceptor_id |-> a,
                          record      |-> r]
    BY Zenon
  <1>1. /\ rec[a] \in RecordType /\ AcceptorInv(a) /\ m.ballot \in Nat /\ m.value \in Value
        /\ rec[a].ballot \in Nat /\ rec[a].value_ballot \in Nat
        /\ \A vote \in votes[a] : vote[1] \in Nat
        /\ \A b \in AcceptorId : rec[b].ballot \in Nat
        /\ votes \in [AcceptorId -> SUBSET (Ballot \X Value)]
    BY DEF IInv, TypeOK, RecordType, Ballot
  <1>2. /\ rec' = [rec EXCEPT ![a] = r] /\ rec'[a] = r
        /\ \A b \in AcceptorId \ {a} : rec'[b] = rec[b]
    BY <1>r, Zenon DEF HandleAcceptReq, IInv, TypeOK
  <1>3. /\ accept_ack' = accept_ack \cup {ack}
        /\ votes' = [votes EXCEPT ![a] = IF r.ballot = m.ballot THEN @ \cup {<<m.ballot, m.value>>} ELSE @]
        /\ UNCHANGED <<inst, requests>> /\ prepare_ack' = prepare_ack /\ accept_req' = accept_req
    BY <1>r, <1>k, Zenon DEF HandleAcceptReq, requests
  <1>4. ack.acceptor_id = a /\ ack.record = r
    BY <1>k
  <1>5. CASE rec[a].ballot > m.ballot
    <2>1. r = rec[a] /\ r.ballot # m.ballot
      BY <1>r, <1>1, <1>5 DEF apply_accept
    <2>2. rec' = rec /\ votes' = votes
      BY <1>1, <1>2, <1>3, <2>1 DEF IInv, TypeOK
    <2>3. AcceptAckInv(ack)'
      BY <1>1, <1>4, <2>1, <2>2 DEF AcceptAckInv, AcceptorInv
    <2>4. \A b \in AcceptorId : AcceptorInv(b)'
      BY <1>3, <2>2, Zenon DEF IInv, AcceptorInv
    <2>5. \A b \in AcceptorId :
            /\ rec[b].ballot <= rec'[b].ballot
            /\ votes[b] \subseteq votes'[b]
            /\ \A vote \in votes'[b] : vote \in votes[b] \/ vote[1] >= rec[b].ballot
      BY <1>1, <2>2
    <2>6. QED
      BY <1>3, <2>3, <2>4, <2>5, AcceptorPreserves
  <1>6. CASE ~ (rec[a].ballot > m.ballot)
    <2>1. r = [ballot |-> m.ballot, value_ballot |-> m.ballot, value |-> m.value]
      BY <1>r, <1>6 DEF apply_accept
    <2>2. r.ballot = m.ballot /\ r.value_ballot = m.ballot /\ r.value = m.value
      BY <2>1
    <2>3. /\ votes'[a] = votes[a] \cup {<<m.ballot, m.value>>}
          /\ \A b \in AcceptorId \ {a} : votes'[b] = votes[b]
      BY <1>1, <1>3, <2>2
    <2>4. rec[a].ballot <= m.ballot
      BY <1>1, <1>6
    <2>5. m.value # None
      BY <1>1, SynodAssumption, ValueAssumption
    <2>6. AcceptAckInv(ack)'
      BY <1>4, <2>2, <2>3, <2>5 DEF AcceptAckInv
    <2>7. AcceptorInv(a)'
      <3>1. \A vote \in votes'[a] :
              /\ vote[1] <= m.ballot
              /\ \E n \in accept_req : n.ballot = vote[1] /\ n.value = vote[2]
        <4>1. ASSUME NEW vote \in votes[a]
              PROVE  /\ vote[1] <= m.ballot
                     /\ \E n \in accept_req : n.ballot = vote[1] /\ n.value = vote[2]
          <5>1. /\ vote[1] <= rec[a].value_ballot /\ rec[a].value_ballot <= rec[a].ballot
                /\ \E n \in accept_req : n.ballot = vote[1] /\ n.value = vote[2]
            BY <1>1 DEF AcceptorInv
          <5>2. QED
            BY <1>1, <2>4, <5>1
        <4>2. m.ballot <= m.ballot
          BY <1>1
        <4>3. QED
          BY <2>3, <4>1, <4>2
      <3>2. QED
        BY <1>1, <1>2, <1>3, <2>2, <2>3, <2>5, <3>1 DEF AcceptorInv
    <2>8. \A b \in AcceptorId \ {a} : AcceptorInv(b)'
      BY <1>2, <1>3, <2>3 DEF IInv, AcceptorInv
    <2>9. \A b \in AcceptorId :
            /\ rec[b].ballot <= rec'[b].ballot
            /\ votes[b] \subseteq votes'[b]
            /\ \A vote \in votes'[b] : vote \in votes[b] \/ vote[1] >= rec[b].ballot
      BY <1>1, <1>2, <2>2, <2>3, <2>4
    <2>10. QED
      BY <1>3, <2>6, <2>7, <2>8, <2>9, AcceptorPreserves
  <1>7. QED
    BY <1>5, <1>6
-----------------------------------------------------------------------------
(* The theorems *)

\* The invariant holds initially.
LEMMA InitIInv == Init => IInv
  <1> SUFFICES ASSUME Init PROVE IInv
    OBVIOUS
  <1>1. Cardinality({}) = 0
    BY FS_EmptySet
  <1>2. 0 \in Ballot
    BY SynodAssumption, ValueAssumption DEF Ballot
  <1>3. TypeOK
    BY <1>2, Zenon DEF Init, TypeOK, InstanceType, RecordType, QuorumType
  <1>4. ASSUME NEW p \in Proposer
        PROVE  ProposerInv(p)
    <2>1. /\ inst[p].list = "none" /\ inst[p].ballot = 0 /\ inst[p].value = None
          /\ inst[p].value_ballot = 0
          /\ inst[p].quorum.count = 0 /\ inst[p].quorum.counted = {}
      BY DEF Init
    <2>2. TallyInv(inst[p].quorum)
      BY <1>1, <2>1 DEF TallyInv
    <2>3. ~ (0 > 0)
      OBVIOUS
    <2>4. /\ inst[p].list # "prepare" /\ inst[p].list \notin {"accept", "freed"}
          /\ inst[p].list # "freed" /\ ~ (inst[p].value_ballot > 0)
      BY <2>1, <2>3
    <2>5. QED
      BY <2>1, <2>2, <2>4, Zenon DEF ProposerInv
  <1>5. \A a \in AcceptorId : AcceptorInv(a)
    BY DEF Init, AcceptorInv
  <1>6. QED
    BY <1>3, <1>4, <1>5 DEF Init, IInv, OneValuePerBallot

\* IInv, the conjunction of type correctness and the facts about ballots, promises
\* and votes, is an invariant of the instance.
THEOREM Invariance == Spec => []IInv
  <1>1. IInv /\ [Next]_vars => IInv'
    <2> SUFFICES ASSUME IInv, [Next]_vars PROVE IInv'
      OBVIOUS
    <2>1. TypeOK'
      BY TypeStep
    <2>2. ASSUME NEW p \in Proposer, ProposerNext(p)
          PROVE  IInv'
      BY <2>1, <2>2, PreexecuteStep, OtherStep, PrepareAckStep, AcceptAckStep DEF ProposerNext
    <2>3. ASSUME NEW a \in AcceptorId, AcceptorNext(a)
          PROVE  IInv'
      BY <2>1, <2>3, PrepareReqStep, AcceptReqStep DEF AcceptorNext
    <2>4. CASE UNCHANGED vars
      <3>1. /\ inst' = inst /\ rec' = rec /\ votes' = votes /\ accept_req' = accept_req
            /\ prepare_ack' = prepare_ack /\ accept_ack' = accept_ack
        BY <2>4, Zenon DEF vars, requests, acks
      <3>2. \A a \in AcceptorId : AcceptorInv(a)'
        BY <3>1 DEF IInv, AcceptorInv
      <3>3. \A m \in prepare_ack' : PrepareAckInv(m)'
        BY <3>1, Zenon DEF IInv, PrepareAckInv, Promised
      <3>4. \A m \in accept_ack' : AcceptAckInv(m)'
        BY <3>1, Zenon DEF IInv, AcceptAckInv
      <3>5. \A m \in accept_req' : AcceptReqInv(m)'
        BY <3>1 DEF IInv, AcceptReqInv, SafeAt
      <3>6. OneValuePerBallot'
        BY <3>1 DEF IInv, OneValuePerBallot
      <3>7. ASSUME NEW p \in Proposer PROVE ProposerInv(p)'
        <4>1. ProposerInv(p)
          BY DEF IInv
        <4>2. QED
          BY <3>1, <4>1, Zenon DEF ProposerInv, Promised
      <3>8. QED
        BY <2>1, <3>2, <3>3, <3>4, <3>5, <3>6, <3>7, Zenon DEF IInv
    <2>5. QED
      BY <2>2, <2>3, <2>4 DEF Next
  <1>2. QED
    BY InitIInv, <1>1, PTL DEF Spec

\* A chosen vote answers a request and was cast by a majority.
LEMMA ChosenVote ==
  ASSUME IInv, NEW vote \in chosen_votes
  PROVE  /\ vote[1] \in Nat /\ vote[1] > 0 /\ vote[2] \in Value /\ vote = <<vote[1], vote[2]>>
         /\ \E m \in accept_req : m.ballot = vote[1] /\ m.value = vote[2]
         /\ \E Q \in Majority : \A a \in Q : vote \in votes[a]
  <1>1. PICK a \in AcceptorId : vote \in votes[a]
    BY DEF chosen_votes
  <1>2. vote \in Ballot \X Value
    BY <1>1 DEF IInv, TypeOK
  <1>3. PICK m \in accept_req : m.ballot = vote[1] /\ m.value = vote[2]
    BY <1>1, Zenon DEF IInv, AcceptorInv
  <1>4. vote[1] > 0
    BY <1>3, Zenon DEF IInv, AcceptReqInv
  <1>5. QED
    BY <1>2, <1>3, <1>4 DEF Ballot, chosen_votes

\* A value safe at b is the only one that can have been chosen below b.
LEMMA SafeIsChosen ==
  ASSUME IInv, NEW b \in Ballot, NEW v \in Value, SafeAt(b, v),
         NEW vote \in chosen_votes, vote[1] < b
  PROVE  vote[2] = v
  <1>1. /\ vote[1] \in Nat /\ vote[1] > 0 /\ vote[2] \in Value /\ vote = <<vote[1], vote[2]>>
        /\ \E Q \in Majority : \A a \in Q : vote \in votes[a]
        /\ \E m \in accept_req : m.ballot = vote[1] /\ m.value = vote[2]
    BY ChosenVote
  <1>2. PICK Q \in Majority : \A a \in Q : vote \in votes[a]
    BY <1>1
  <1>3. vote[1] \in 1 .. b - 1
    BY <1>1 DEF Ballot
  <1>4. PICK R \in Majority : \A a \in R :
          \/ <<vote[1], v>> \in votes[a]
          \/ rec[a].ballot > vote[1] /\ \A w \in Value : <<vote[1], w>> \notin votes[a]
    BY <1>3 DEF SafeAt
  <1>5. PICK a \in Q \cap R : TRUE
    BY MajoritiesIntersect
  <1>6. <<vote[1], vote[2]>> \in votes[a]
    BY <1>1, <1>2, <1>5
  <1>7. <<vote[1], v>> \in votes[a]
    BY <1>1, <1>4, <1>5, <1>6
  <1>8. a \in AcceptorId
    BY <1>5 DEF Majority
  <1>9. PICK m \in accept_req : m.ballot = vote[1] /\ m.value = v
    BY <1>7, <1>8, Zenon DEF IInv, AcceptorInv
  <1>10. QED
    BY <1>1, <1>9 DEF IInv, OneValuePerBallot

\* Two chosen votes are for the same value.
LEMMA ChosenUnique ==
  ASSUME IInv, NEW u \in chosen_votes, NEW w \in chosen_votes
  PROVE  u[2] = w[2]
  <1>1. ASSUME NEW x \in chosen_votes, NEW y \in chosen_votes, x[1] <= y[1]
        PROVE  x[2] = y[2]
    <2>1. PICK m \in accept_req : m.ballot = x[1] /\ m.value = x[2]
      BY ChosenVote
    <2>2. PICK n \in accept_req : n.ballot = y[1] /\ n.value = y[2]
      BY ChosenVote
    <2>3. CASE x[1] = y[1]
      BY <2>1, <2>2, <2>3 DEF IInv, OneValuePerBallot
    <2>4. CASE x[1] < y[1]
      <3>1. y[1] \in Ballot /\ y[2] \in Value /\ SafeAt(y[1], y[2])
        BY <2>2, Zenon DEF IInv, AcceptReqInv, TypeOK
      <3>2. QED
        BY <2>4, <3>1, SafeIsChosen
    <2>5. x[1] \in Nat /\ y[1] \in Nat
      BY ChosenVote
    <2>6. QED
      BY <1>1, <2>3, <2>4, <2>5
  <1>2. u[1] \in Nat /\ w[1] \in Nat
    BY ChosenVote
  <1>3. u[1] <= w[1] \/ w[1] <= u[1]
    BY <1>2
  <1>4. QED
    BY <1>1, <1>3

\* Agreement: at most one value is chosen for an instance, for any number of
\* acceptors, proposers and ballots, over a network that may lose, repeat and
\* reorder messages.
THEOREM AgreementHolds == Spec => []Agreement
  <1>1. IInv => Agreement
    BY ChosenUnique DEF Agreement, chosen
  <1>2. QED
    BY Invariance, <1>1, PTL

\* The types of the state and of the messages.
THEOREM TypeCorrect == Spec => []TypeOK
  <1>1. IInv => TypeOK
    BY DEF IInv
  <1>2. QED
    BY Invariance, <1>1, PTL

\* Every ballot is used by one proposer, with one value.
THEOREM BallotsCarryOneValue == Spec => []OneValuePerBallot
  <1>1. IInv => OneValuePerBallot
    BY DEF IInv
  <1>2. QED
    BY Invariance, <1>1, PTL

\* A quorum of promises reveals the value already chosen below.
THEOREM PromisesRevealChosen == Spec => []PreparedKnowsChosen
  <1>1. IInv => PreparedKnowsChosen
    <2> SUFFICES ASSUME IInv, NEW p \in Proposer, NEW vote \in chosen_votes,
                        inst[p].list = "prepare", quorum_reached(inst[p].quorum),
                        vote[1] < inst[p].ballot
                 PROVE  inst[p].value = vote[2]
      BY DEF PreparedKnowsChosen
    <2>1. PreparedWith(inst[p])
      BY Zenon DEF IInv, TypeOK, ProposerInv, PreparedWith
    <2>2. inst[p] \in InstanceType /\ inst[p].ballot \in Ballot
      BY DEF IInv, TypeOK, InstanceType
    <2>3. inst[p].value # None
      <3> SUFFICES ASSUME inst[p].value = None PROVE FALSE
        OBVIOUS
      <3>1. /\ vote[1] \in Nat /\ vote[1] > 0
            /\ \E Q \in Majority : \A a \in Q : vote \in votes[a]
        BY ChosenVote
      <3>2. inst[p].quorum.counted \in Majority
        BY <2>1, ReachedTally DEF PreparedWith, InstanceType
      <3>3. PICK a \in inst[p].quorum.counted : vote \in votes[a]
        BY <3>1, <3>2, MajoritiesIntersect
      <3>4. Promised(a, inst[p].ballot, 0)
        BY <2>1 DEF PreparedWith
      <3>5. QED
        BY <3>1, <3>3, <3>4 DEF Promised
    <2>4. inst[p].value \in Value
      BY <2>2, <2>3 DEF InstanceType
    <2>5. SafeAt(inst[p].ballot, inst[p].value)
      BY <2>1, <2>4, ProposalSafe
    <2>6. QED
      BY <2>2, <2>4, <2>5, SafeIsChosen
  <1>2. QED
    BY Invariance, <1>1, PTL

\* The proposer drops an instance, and its copy of the value, only when the value
\* has been chosen.
THEOREM FreedOnlyWhenChosen == Spec => []FreedIsChosen
  <1>1. IInv => FreedIsChosen
    <2> SUFFICES ASSUME IInv, NEW p \in Proposer, inst[p].list = "freed"
                 PROVE  inst[p].value \in chosen
      BY DEF FreedIsChosen
    <2> DEFINE vote == <<inst[p].ballot, inst[p].value>>
    <2>1. /\ TallyInv(inst[p].quorum)
          /\ quorum_reached(inst[p].quorum)
          /\ \A a \in inst[p].quorum.counted : vote \in votes[a]
      BY Zenon DEF IInv, ProposerInv
    <2>2. inst[p].quorum \in QuorumType
      BY DEF IInv, TypeOK, InstanceType
    <2>3. inst[p].quorum.counted \in Majority
      BY <2>1, <2>2, ReachedTally
    <2>4. PICK a \in inst[p].quorum.counted : a \in AcceptorId
      BY <2>3, MajorityNonEmpty DEF Majority
    <2>5. vote \in chosen_votes
      BY <2>1, <2>3, <2>4 DEF chosen_votes
    <2>6. QED
      BY <2>5 DEF chosen
  <1>2. QED
    BY Invariance, <1>1, PTL

\* A vote that is chosen stays chosen: acceptors' votes are never withdrawn.
LEMMA ChosenGrows ==
  ASSUME IInv, [Next]_vars
  PROVE  chosen \subseteq chosen' /\ \A a \in AcceptorId : votes[a] \subseteq votes'[a]
  <1>1. \A a \in AcceptorId : votes[a] \subseteq votes'[a]
    <2>1. ASSUME NEW p \in Proposer, ProposerNext(p)
          PROVE  votes' = votes
      BY <2>1 DEF ProposerNext, Preexecute, HandleOther, HandlePrepareAck, HandleAcceptAck, Preempt
    <2>2. ASSUME NEW a \in AcceptorId, NEW m \in prepare_req, HandlePrepareReq(a, m)
          PROVE  votes' = votes
      BY <2>2 DEF HandlePrepareReq
    <2>3. ASSUME NEW a \in AcceptorId, NEW m \in accept_req, HandleAcceptReq(a, m)
          PROVE  \A c \in AcceptorId : votes[c] \subseteq votes'[c]
      BY <2>3, Zenon DEF HandleAcceptReq, IInv, TypeOK
    <2>4. CASE UNCHANGED vars
      BY <2>4 DEF vars
    <2>5. QED
      BY <2>1, <2>2, <2>3, <2>4 DEF Next, AcceptorNext
  <1>2. ASSUME NEW vote \in chosen_votes
        PROVE  vote \in chosen_votes'
    BY <1>1 DEF chosen_votes, Majority
  <1>3. QED
    BY <1>1, <1>2 DEF chosen

\* One instance, run by proposer.c and acceptor.c, implements single-decree
\* consensus: a value is chosen once and never replaced.
THEOREM SynodImplementsConsensus == Spec => ImplementsConsensus
  <1>1. Init => Consensus!Init
    BY DEF Init, Consensus!Init, chosen, chosen_votes
  <1> DEFINE OneChosen == chosen \subseteq Value /\ \A v, w \in chosen : v = w
  <1>2. IInv => OneChosen
    BY ChosenVote, ChosenUnique DEF chosen
  <1>3. ASSUME IInv, OneChosen', [Next]_vars
        PROVE  [Consensus!Next]_chosen
    <2>1. chosen \subseteq chosen'
      BY <1>3, ChosenGrows
    <2>2. CASE chosen' = {}
      BY <2>1, <2>2
    <2>3. CASE chosen' # {}
      <3>1. PICK v \in Value : chosen' = {v}
        BY <1>3, <2>3
      <3>2. CASE chosen = {}
        BY <3>1, <3>2 DEF Consensus!Next, Consensus!Choose
      <3>3. CASE chosen # {}
        BY <2>1, <3>1, <3>3
      <3>4. QED
        BY <3>2, <3>3
    <2>4. QED
      BY <2>2, <2>3
  <1> HIDE DEF OneChosen
  <1>4. QED
    BY Invariance, <1>1, <1>2, <1>3, PTL DEF Spec, ImplementsConsensus, Consensus!Spec
-----------------------------------------------------------------------------
(* Learners *)

\* What a learner holds are votes, and its final value is chosen.
LearnerInv(i) ==
  /\ \A a \in AcceptorId : i.acks[a] # NULL => <<i.acks[a].ballot, i.acks[a].value>> \in votes[a]
  /\ i.final_value # NULL => i.final_value.value \in chosen

\* The inductive invariant: acks that reach learners report votes.
LInv ==
  /\ LearnerTypeOK
  /\ \A m \in accept_ack : m.to \cap Learner # {} =>
       <<m.record.ballot, m.record.value>> \in votes[m.acceptor_id]
  /\ \A l \in Learner : LearnerInv(lrn[l])

\* An instance whose acks are votes closes with the chosen value.
LEMMA CloseIsChosen ==
  ASSUME IInv, NEW i \in LearnerInstanceType, LearnerInv(i)
  PROVE  LearnerInv(instance_close(i)) /\ instance_close(i) \in LearnerInstanceType
  <1> DEFINE A == Agreeing(i)
  <1>1. CASE i.final_value = NULL /\ instance_has_quorum(i)
    <2>1. A \subseteq AcceptorId /\ Cardinality(A) >= paxos_quorum(acceptors)
      BY <1>1 DEF instance_has_quorum, Agreeing
    <2>2. A \in Majority
      <3>1. Cardinality(A) \in Nat
        BY <2>1, AcceptorIdFinite, FS_Subset, FS_CardinalityType
      <3>2. QED
        BY <2>1, <3>1, QuorumIsMajority DEF Majority
    <2>3. A # {}
      BY <2>2, MajorityNonEmpty
    <2>4. A \in SUBSET (0 .. acceptors - 1) /\ acceptors \in Nat
      BY <2>1, AcceptorsAssumption DEF AcceptorId
    <2>5. \E a \in A : \A b \in A : b <= a
      BY <2>3, <2>4, LargestExists, Zenon
    <2> DEFINE top == CHOOSE a \in A : \A b \in A : b <= a
    <2>6. top \in A
      BY <2>5
    <2>7. instance_close(i) = [i EXCEPT !.final_value = i.acks[top]]
      BY <1>1 DEF instance_close
    <2> HIDE DEF top
    <2> DEFINE b == i.last_update_ballot
    <2> DEFINE v == i.acks[top].value
    <2>8. \A a \in A : a \in AcceptorId /\ <<b, i.acks[a].value>> \in votes[a]
      BY DEF Agreeing, LearnerInv
    <2>9. \A a \in A : i.acks[a].value = v
      <3> SUFFICES ASSUME NEW a \in A PROVE i.acks[a].value = v
        OBVIOUS
      <3>1. PICK m \in accept_req : m.ballot = b /\ m.value = i.acks[a].value
        BY <2>8, Zenon DEF IInv, AcceptorInv
      <3>2. PICK n \in accept_req : n.ballot = b /\ n.value = v
        BY <2>6, <2>8, Zenon DEF IInv, AcceptorInv
      <3>3. QED
        BY <3>1, <3>2, Zenon DEF IInv, OneValuePerBallot
    <2>10. \A a \in A : <<b, v>> \in votes[a]
      BY <2>8, <2>9
    <2>11. <<b, v>> \in chosen_votes
      BY <2>2, <2>6, <2>8, <2>10 DEF chosen_votes
    <2>12. v \in chosen
      BY <2>11 DEF chosen
    <2>13. i.acks[top] \in AckType
      BY <2>6 DEF Agreeing, LearnerInstanceType
    <2>14. QED
      BY <2>7, <2>12, <2>13 DEF LearnerInv, LearnerInstanceType
  <1>2. CASE ~(i.final_value = NULL /\ instance_has_quorum(i))
    BY <1>2 DEF instance_close
  <1>3. QED
    BY <1>1, <1>2

\* Adding an ack that reports a vote keeps all that.
LEMMA UpdateIsChosen ==
  ASSUME IInv, NEW i \in LearnerInstanceType, LearnerInv(i), NEW a \in AcceptorId,
         NEW ack \in AckType, <<ack.ballot, ack.value>> \in votes[a]
  PROVE  /\ learner_update_instance(i, a, ack) \in LearnerInstanceType
         /\ LearnerInv(learner_update_instance(i, a, ack))
  <1> DEFINE named == IF i.iid = 0
                        THEN [i EXCEPT !.iid = ack.iid, !.last_update_ballot = ack.ballot]
                        ELSE i
             closed == instance_close(named)
             added == instance_add_accept(closed, a, ack)
  <1>1. named \in LearnerInstanceType /\ LearnerInv(named)
    BY Zenon DEF LearnerInstanceType, LearnerInv, AckType
  <1> HIDE DEF named
  <1>2. closed \in LearnerInstanceType /\ LearnerInv(closed)
    BY <1>1, CloseIsChosen
  <1> HIDE DEF closed
  <1>3. added \in LearnerInstanceType /\ LearnerInv(added)
    BY <1>2, Zenon DEF LearnerInstanceType, LearnerInv, AckType, instance_add_accept
  <1> HIDE DEF added
  <1>4. learner_update_instance(i, a, ack) \in {closed, added}
    BY DEF learner_update_instance, named, closed, added
  <1>5. QED
    BY <1>2, <1>3, <1>4

\* What was learned stays true: votes and chosen values are never withdrawn.
LEMMA LearnerKeeps ==
  ASSUME IInv, [Next]_vars, NEW i \in LearnerInstanceType, LearnerInv(i)
  PROVE  LearnerInv(i)'
  <1>1. chosen \subseteq chosen' /\ \A a \in AcceptorId : votes[a] \subseteq votes'[a]
    BY ChosenGrows
  <1>2. QED
    BY <1>1 DEF LearnerInv

\* Only handle_accept_req sends to learners, and only after storing the vote.
LEMMA AcksReportVotes ==
  ASSUME IInv, LInv, Next
  PROVE  \A m \in accept_ack' : m.to \cap Learner # {} =>
           <<m.record.ballot, m.record.value>> \in votes'[m.acceptor_id]
  <1>1. \A a \in AcceptorId : votes[a] \subseteq votes'[a]
    BY ChosenGrows
  <1>2. \A m \in accept_ack : m.acceptor_id \in AcceptorId
    BY DEF IInv, TypeOK
  <1>3. CASE accept_ack' = accept_ack
    BY <1>1, <1>2, <1>3 DEF LInv
  <1>4. ASSUME NEW a \in AcceptorId, NEW r \in accept_req, HandleAcceptReq(a, r)
        PROVE  \A m \in accept_ack' : m.to \cap Learner # {} =>
                 <<m.record.ballot, m.record.value>> \in votes'[m.acceptor_id]
    <2> DEFINE new == apply_accept(rec[a], r)
               accepted == new.ballot = r.ballot
    <2>1. r \in [from : Proposer, ballot : Ballot, value : Value] /\ r.from \notin Learner
      BY SynodAssumption DEF IInv, TypeOK
    <2>2. accepted => new.value = r.value
      <3>1. rec[a] \in RecordType
        BY DEF IInv, TypeOK
      <3>2. QED
        BY <2>1, <3>1 DEF apply_accept, RecordType, Ballot
    <2>3. accepted => <<r.ballot, r.value>> \in votes'[a]
      BY <1>4, Zenon DEF HandleAcceptReq, IInv, TypeOK
    <2>4. ASSUME NEW m \in accept_ack', m \notin accept_ack
          PROVE  /\ m.acceptor_id = a /\ m.record = new
                 /\ m.to = IF accepted THEN Proposer \cup Learner ELSE {r.from}
      <3> DEFINE ack == [to          |-> IF accepted THEN Proposer \cup Learner ELSE {r.from},
                         acceptor_id |-> a,
                         record      |-> new]
      <3>1. accept_ack' = accept_ack \cup {ack}
        BY <1>4, Zenon DEF HandleAcceptReq
      <3>2. m = ack
        BY <2>4, <3>1
      <3>3. QED
        BY <3>2
    <2> HIDE DEF new
    <2>5. QED
      BY <1>1, <1>2, <2>1, <2>2, <2>3, <2>4 DEF LInv
  <1>5. QED
    BY <1>3, <1>4 DEF Next, ProposerNext, AcceptorNext, Preexecute, HandleOther,
                      HandlePrepareAck, HandleAcceptAck, Preempt, HandlePrepareReq, acks

\* Every step of the whole system keeps the invariant.
LEMMA LearnerStep ==
  ASSUME IInv, IInv', LInv, [LNext]_lvars
  PROVE  LInv'
  <1>1. ASSUME Next, UNCHANGED lrn
        PROVE  LInv'
    <2>1. LearnerTypeOK'
      BY <1>1, Zenon DEF IInv, LInv, LearnerTypeOK
    <2>2. \A l \in Learner : LearnerInv(lrn[l])'
      <3> TAKE l \in Learner
      <3>1. PICK i \in LearnerInstanceType : i = lrn[l]
        BY DEF LInv, LearnerTypeOK
      <3>2. LearnerInv(i)'
        BY <1>1, <3>1, LearnerKeeps DEF LInv
      <3>3. QED
        BY <1>1, <3>1, <3>2
    <2>3. QED
      BY <1>1, <2>1, <2>2, AcksReportVotes DEF LInv
  <1>2. ASSUME NEW l \in Learner, NEW m \in accept_ack, Learn(l, m)
        PROVE  LInv'
    <2> DEFINE i == learner_update_instance(lrn[l], m.acceptor_id, Ack(m))
               j == instance_close(i)
    <2>1. /\ UNCHANGED vars
          /\ lrn' = [lrn EXCEPT ![l] = j]
          /\ l \in m.to
      BY <1>2 DEF Learn
    <2>2. /\ m.acceptor_id \in AcceptorId /\ Ack(m) \in AckType
          /\ Ack(m).ballot = m.record.ballot /\ Ack(m).value = m.record.value
      BY DEF IInv, TypeOK, RecordType, Ack, AckType
    <2>3. <<Ack(m).ballot, Ack(m).value>> \in votes[m.acceptor_id]
      BY <2>1, <2>2 DEF LInv
    <2>4. lrn[l] \in LearnerInstanceType /\ LearnerInv(lrn[l])
      BY DEF LInv, LearnerTypeOK
    <2>5. i \in LearnerInstanceType /\ LearnerInv(i)
      BY <2>2, <2>3, <2>4, UpdateIsChosen
    <2> HIDE DEF i
    <2>6. j \in LearnerInstanceType /\ LearnerInv(j)
      BY <2>5, CloseIsChosen
    <2> HIDE DEF j
    <2>7. LearnerTypeOK'
      BY <2>1, <2>6 DEF IInv, LInv, LearnerTypeOK
    <2>8. \A k \in Learner : LearnerInv(lrn'[k])
      BY <2>1, <2>6 DEF LInv, LearnerTypeOK
    <2>9. votes' = votes /\ accept_ack' = accept_ack /\ chosen' = chosen
      BY <2>1 DEF vars, chosen, chosen_votes
    <2>10. QED
      BY <2>7, <2>8, <2>9 DEF LInv, LearnerInv
  <1>3. CASE UNCHANGED lvars
    <2>1. /\ votes' = votes /\ accept_ack' = accept_ack /\ lrn' = lrn
          /\ chosen' = chosen
      BY <1>3 DEF lvars, vars, chosen, chosen_votes
    <2>2. LearnerTypeOK'
      BY <2>1 DEF IInv, LInv, LearnerTypeOK
    <2>3. QED
      BY <2>1, <2>2 DEF LInv, LearnerInv
  <1>4. QED
    BY <1>1, <1>2, <1>3 DEF LNext

\* Learners only listen: the proposers and acceptors run as in Synod.
LEMMA LearnersListen == LSpec => Spec
  <1>1. LInit => Init
    BY DEF LInit
  <1>2. [LNext]_lvars => [Next]_vars
    BY DEF LNext, Learn, lvars
  <1>3. QED
    BY <1>1, <1>2, PTL DEF LSpec, Spec

\* What the learners hold are votes, in every state of every behaviour.
THEOREM LearnerInvariance == LSpec => []LInv
  <1>1. LInit => LInv
    <2> SUFFICES ASSUME LInit PROVE LInv
      OBVIOUS
    <2>1. TypeOK
      BY InitIInv DEF LInit, IInv
    <2>2. new_instance \in LearnerInstanceType /\ LearnerInv(new_instance)
      BY ValueAssumption DEF new_instance, LearnerInstanceType, LearnerInv, Ballot
    <2>3. QED
      BY <2>1, <2>2 DEF LInit, Init, LInv, LearnerTypeOK
  <1>2. IInv /\ IInv' /\ LInv /\ [LNext]_lvars => LInv'
    BY LearnerStep
  <1>3. QED
    BY Invariance, LearnersListen, <1>1, <1>2, PTL DEF LSpec

\* Types, of the learners too.
THEOREM LearnerTypes == LSpec => []LearnerTypeOK
  BY LearnerInvariance, PTL DEF LInv

\* A learner closes an instance, and so delivers it, only with the chosen value.
THEOREM LearnersLearnChosen == LSpec => []LearnedIsChosen
  <1>1. LInv => LearnedIsChosen
    BY DEF LInv, LearnerInv, LearnedIsChosen
  <1>2. QED
    BY <1>1, LearnerInvariance, PTL

\* No two learners deliver different values for the instance.
LearnersAgree ==
  \A k, l \in Learner :
    lrn[k].final_value # NULL /\ lrn[l].final_value # NULL =>
      lrn[k].final_value.value = lrn[l].final_value.value

\* All the learners deliver the same value, whichever quorums they heard of.
THEOREM LearnersDeliverTheSame == LSpec => []LearnersAgree
  <1>1. Agreement /\ LearnedIsChosen => LearnersAgree
    BY DEF Agreement, LearnedIsChosen, LearnersAgree
  <1>2. QED
    BY AgreementHolds, LearnersLearnChosen, LearnersListen, <1>1, PTL
=============================================================================
