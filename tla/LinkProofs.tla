----------------------------- MODULE LinkProofs -----------------------------
(***************************************************************************)
(* The inductive invariant of Link and its proof, for any number of        *)
(* acceptors, connections, values and ballots, and any messages under way, *)
(* and the theorems that follow from it.                                   *)
(***************************************************************************)
EXTENDS Link, TLAPS

\* The ballots of this proposer.
Own(b) == b > 0 /\ b % MAX_N_OF_PROPOSERS = id

\* The instance: its ballot is one of the proposer's, and a value goes with it in
\* the accept phase.
InstInv ==
  /\ IF inst.list = "none" THEN inst.ballot = 0 ELSE Own(inst.ballot)
  /\ inst.list = "accept" => inst.value # None
  /\ inst.list # "aborted"

\* The requests of a connection are in the order of their ballots, and no later
\* than those of the connections made after it.
RequestsInv ==
  \A a \in AcceptorId : \A c \in Conn : \A j \in 1 .. Len(requests[a][c]) :
    LET b == requests[a][c][j].ballot
    IN /\ Own(b) /\ b <= inst.ballot
       /\ c <= peer[a].bev
       /\ \A k \in j .. Len(requests[a][c]) : b <= requests[a][c][k].ballot
       /\ \A d \in Conn : d > c =>
            \A k \in 1 .. Len(requests[a][d]) : b <= requests[a][d][k].ballot

\* A promise to this proposer is not above what is yet to be read of its present
\* connection.
RecordInv ==
  \A a \in AcceptorId :
    /\ record[a].value_ballot <= record[a].ballot
    /\ Own(record[a].ballot) =>
         /\ record[a].ballot <= inst.ballot
         /\ \A k \in 1 .. Len(requests[a][peer[a].bev]) :
              record[a].ballot <= requests[a][peer[a].bev][k].ballot

\* An answer is not ahead of the record of the acceptor that sent it, and what it
\* acknowledges to this proposer with an accept_ack is an acceptance.
GoodAnswer(a, m) ==
  /\ m \in Answer
  /\ m.acceptor_id = a
  /\ m.record.ballot <= record[a].ballot
  /\ m.record.value_ballot <= record[a].value_ballot
  /\ m.type = "accept_acks" /\ Own(m.record.ballot) =>
       m.record.value_ballot = m.record.ballot

AnswersInv ==
  \A a \in AcceptorId : \A c \in Conn : \A k \in 1 .. Len(answers[a][c]) :
    GoodAnswer(a, answers[a][c][k])

\* The inductive invariant.
LinkInv == TypeOK /\ InstInv /\ RequestsInv /\ RecordInv /\ AnswersInv /\ CountedAnswered

\* The ballots are natural numbers.
LEMMA RecordNat ==
  ASSUME TypeOK, NEW a \in AcceptorId
  PROVE  record[a] \in RecordType /\ record[a].ballot \in Nat /\ record[a].value_ballot \in Nat
  BY ValueAssumption DEF TypeOK, RecordType, Ballot
-----------------------------------------------------------------------------
(* The quorum *)

\* quorum_clear counts nobody.
LEMMA ClearedQuorum ==
  ASSUME NEW q \in QuorumType
  PROVE  quorum_clear(q) \in QuorumType /\ quorum_clear(q).counted = {}
  BY DEF QuorumType, quorum_clear

\* Nor does quorum_init, whatever malloc returned.
LEMMA InitialQuorum ==
  ASSUME NEW q \in quorum_init
  PROVE  q \in QuorumType /\ q.counted = {}
  <1>1. PICK ids \in [AcceptorId -> {0, 1}] :
          q = quorum_clear([count |-> 0, acceptor_ids |-> ids, counted |-> {}])
    BY Zenon DEF quorum_init
  <1>2. [count |-> 0, acceptor_ids |-> ids, counted |-> {}] \in QuorumType
    BY DEF QuorumType
  <1>3. QED
    BY <1>1, <1>2, ClearedQuorum

\* quorum_add counts no other acceptor than the one that answered.
LEMMA AddedCounted ==
  ASSUME NEW q \in QuorumType, NEW a \in AcceptorId
  PROVE  /\ quorum_add(q, a) \in QuorumType
         /\ quorum_add(q, a).counted \subseteq q.counted \cup {a}
  BY DEF QuorumType, quorum_add
-----------------------------------------------------------------------------
(* The instance *)

\* What the invariant says of an instance i of the proposer.
Good(i) ==
  /\ i \in InstanceType
  /\ IF i.list = "none" THEN i.ballot = 0 ELSE Own(i.ballot)
  /\ i.list = "accept" => i.value # None
  /\ i.list # "aborted"
  /\ \A a \in i.quorum.counted :
       /\ record[a].ballot >= i.ballot
       /\ i.list \in {"accept", "freed"} => record[a].value_ballot >= i.ballot

\* What a step of the proposer does, seen from its connections: it may raise the
\* ballot, and what it sends has the new one.
Advances ==
  /\ Good(inst)'
  /\ inst'.ballot >= inst.ballot
  /\ values' \in Seq(Value)
  /\ age' \in 0 .. MaxAge
  /\ renewed' \in BOOLEAN
  /\ \/ UNCHANGED requests
     \/ \E r \in Request : r.ballot = inst'.ballot /\ Own(r.ballot) /\ send(<<r>>)

\* The invariant holds of the instance.
LEMMA InstIsGood ==
  ASSUME LinkInv
  PROVE  Good(inst)
  BY DEF LinkInv, TypeOK, InstInv, CountedAnswered, Good

\* The ballots of the proposer are those that leave its id.
LEMMA NextIsOwn ==
  ASSUME NEW b \in Nat, b = 0 \/ Own(b)
  PROVE  /\ Own(proposer_next_ballot(id, b))
         /\ proposer_next_ballot(id, b) > b
         /\ proposer_next_ballot(id, b) \in Nat
  <1>1. id \in 0 .. 9
    BY LinkAssumption DEF MAX_N_OF_PROPOSERS
  <1>2. CASE b = 0
    BY <1>1, <1>2 DEF Own, proposer_next_ballot, MAX_N_OF_PROPOSERS
  <1>3. CASE Own(b)
    BY <1>1, <1>3 DEF Own, proposer_next_ballot, MAX_N_OF_PROPOSERS
  <1>4. QED
    BY <1>2, <1>3

\* A new instance starts with the first ballot of the proposer.
LEMMA NewIsGood ==
  ASSUME NEW i \in instance_new(id)
  PROVE  Good(i) /\ i.list = "prepare" /\ i.value = None /\ i.ballot > 0
  <1>1. PICK q \in quorum_init :
          i = [list         |-> "prepare",
               ballot       |-> proposer_next_ballot(id, 0),
               value_ballot |-> 0,
               value        |-> None,
               quorum       |-> q]
    BY DEF instance_new
  <1>2. q \in QuorumType /\ q.counted = {}
    BY InitialQuorum
  <1>3. proposer_next_ballot(id, 0) \in Ballot /\ 0 \in Ballot /\ Own(proposer_next_ballot(id, 0))
    BY NextIsOwn, LinkAssumption, ValueAssumption DEF Ballot
  <1>4. i \in InstanceType /\ i.quorum = q /\ i.ballot = proposer_next_ballot(id, 0)
    BY <1>1, <1>2, <1>3, Zenon DEF InstanceType
  <1>5. QED
    BY <1>1, <1>2, <1>3, <1>4 DEF Good, Own

\* prepare_preempt raises the ballot and starts a new count.
LEMMA PreemptedIsGood ==
  ASSUME NEW i, Good(i), i.list # "none", proposer_next_ballot(id, i.ballot) <= MaxBallot
  PROVE  /\ Good(prepare_preempt(id, i))
         /\ prepare_preempt(id, i).list = "prepare"
         /\ prepare_preempt(id, i).ballot > i.ballot
  <1> DEFINE b == proposer_next_ballot(id, i.ballot)
  <1>1. i \in InstanceType /\ i.quorum \in QuorumType /\ i.ballot \in Nat /\ Own(i.ballot)
    BY ValueAssumption DEF Good, InstanceType, Ballot
  <1>2. b \in Ballot /\ Own(b) /\ b > i.ballot
    BY <1>1, NextIsOwn, ValueAssumption DEF Ballot
  <1>3. quorum_clear(i.quorum) \in QuorumType /\ quorum_clear(i.quorum).counted = {}
    BY <1>1, ClearedQuorum
  <1>4. prepare_preempt(id, i) =
          [i EXCEPT !.list = "prepare", !.ballot = b, !.quorum = quorum_clear(i.quorum)]
    BY DEF prepare_preempt
  <1> HIDE DEF b
  <1>5. /\ prepare_preempt(id, i) \in InstanceType
        /\ prepare_preempt(id, i).list = "prepare"
        /\ prepare_preempt(id, i).ballot = b
        /\ prepare_preempt(id, i).quorum = quorum_clear(i.quorum)
    BY <1>1, <1>2, <1>3, <1>4, Zenon DEF InstanceType
  <1>6. QED
    BY <1>2, <1>3, <1>5 DEF Good

\* proposer_accept takes a value and starts a new count.
LEMMA AcceptedIsGood ==
  ASSUME NEW i, Good(i), i.list = "prepare", NEW v \in Value
  PROVE  /\ Good(proposer_accept(i, v))
         /\ proposer_accept(i, v).list = "accept"
         /\ proposer_accept(i, v).ballot = i.ballot
         /\ proposer_accept(i, v).value = v
  <1>1. i \in InstanceType /\ i.quorum \in QuorumType /\ Own(i.ballot)
    BY DEF Good, InstanceType
  <1>2. quorum_clear(i.quorum) \in QuorumType /\ quorum_clear(i.quorum).counted = {}
    BY <1>1, ClearedQuorum
  <1>3. /\ proposer_accept(i, v) \in InstanceType
        /\ proposer_accept(i, v).list = "accept"
        /\ proposer_accept(i, v).ballot = i.ballot
        /\ proposer_accept(i, v).value = v
        /\ proposer_accept(i, v).quorum = quorum_clear(i.quorum)
    BY <1>1, <1>2, Zenon DEF proposer_accept, InstanceType
  <1>4. QED
    BY <1>1, <1>2, <1>3, ValueAssumption DEF Good

\* Counting a promise of the instance's ballot keeps the instance good.
LEMMA PromisedIsGood ==
  ASSUME NEW i, Good(i), i.list = "prepare",
         NEW a \in AcceptorId, NEW m, GoodAnswer(a, m), m.record.ballot = i.ballot
  PROVE  LET j == proposer_receive_prepare_ack(i, m)
         IN Good(j) /\ j.list = "prepare" /\ j.ballot = i.ballot
  <1> DEFINE j == proposer_receive_prepare_ack(i, m)
  <1>1. /\ i \in InstanceType /\ i.quorum \in QuorumType /\ Own(i.ballot)
        /\ m.acceptor_id = a /\ m.record \in RecordType
    BY DEF Good, InstanceType, GoodAnswer, Answer
  <1>2. /\ quorum_add(i.quorum, a) \in QuorumType
        /\ quorum_add(i.quorum, a).counted \subseteq i.quorum.counted \cup {a}
    BY <1>1, AddedCounted
  <1>3. /\ j \in InstanceType
        /\ j.list = i.list /\ j.ballot = i.ballot
        /\ j.quorum = quorum_add(i.quorum, a)
    BY <1>1, <1>2, Zenon DEF proposer_receive_prepare_ack, InstanceType, RecordType
  <1> HIDE DEF j
  <1>4. record[a].ballot >= i.ballot
    BY <1>1 DEF GoodAnswer
  <1>5. Good(j)
    BY <1>1, <1>2, <1>3, <1>4 DEF Good
  <1>6. QED
    BY <1>3, <1>5 DEF j

\* Counting an acceptance of the instance's ballot keeps the instance good.
LEMMA AckedIsGood ==
  ASSUME NEW i, Good(i), i.list = "accept",
         NEW a \in AcceptorId, NEW m, GoodAnswer(a, m),
         m.record.ballot = i.ballot, m.record.value_ballot = i.ballot
  PROVE  LET j == proposer_receive_accept_ack(i, m)
         IN Good(j) /\ j.list \in {"accept", "freed"} /\ j.ballot = i.ballot
  <1> DEFINE j == proposer_receive_accept_ack(i, m)
  <1>1. i \in InstanceType /\ i.quorum \in QuorumType /\ Own(i.ballot) /\ m.acceptor_id = a
    BY DEF Good, InstanceType, GoodAnswer
  <1>2. /\ quorum_add(i.quorum, a) \in QuorumType
        /\ quorum_add(i.quorum, a).counted \subseteq i.quorum.counted \cup {a}
    BY <1>1, AddedCounted
  <1>3. /\ j \in InstanceType
        /\ j.list \in {i.list, "freed"} /\ j.ballot = i.ballot /\ j.value = i.value
        /\ j.quorum = quorum_add(i.quorum, a)
    BY <1>1, <1>2, Zenon DEF proposer_receive_accept_ack, InstanceType
  <1> HIDE DEF j
  <1>4. record[a].ballot >= i.ballot /\ record[a].value_ballot >= i.ballot
    BY <1>1 DEF GoodAnswer
  <1>5. Good(j)
    BY <1>1, <1>2, <1>3, <1>4 DEF Good
  <1>6. QED
    BY <1>3, <1>5 DEF j
-----------------------------------------------------------------------------
(* The steps of the proposer *)

\* A good instance stays good while the records stay as they are.
LEMMA GoodPrime ==
  ASSUME UNCHANGED record, Good(inst')
  PROVE  Good(inst)'
  BY DEF Good

\* What an instance sends has its ballot.
LEMMA PrepareSent ==
  ASSUME NEW i, Good(i), i.list = "prepare", send(prepare_req(i))
  PROVE  \E r \in Request : r.ballot = i.ballot /\ Own(r.ballot) /\ send(<<r>>)
  <1> DEFINE r == [type |-> "prepare_reqs", ballot |-> i.ballot]
  <1>1. r \in Request /\ r.ballot = i.ballot /\ Own(i.ballot)
    BY DEF Good, InstanceType, Request
  <1>2. send(<<r>>)
    BY DEF prepare_req
  <1> HIDE DEF r
  <1>3. QED
    BY <1>1, <1>2

\* An instance that goes to the accept phase sends its own ballot.
LEMMA AcceptSent ==
  ASSUME NEW i, Good(i), i.list = "accept", send(accept_req(i))
  PROVE  \E r \in Request : r.ballot = i.ballot /\ Own(r.ballot) /\ send(<<r>>)
  <1> DEFINE r == [type |-> "accept_reqs", ballot |-> i.ballot, value |-> i.value]
  <1>1. r \in Request /\ r.ballot = i.ballot /\ Own(i.ballot)
    BY DEF Good, InstanceType, Request
  <1>2. send(<<r>>)
    BY DEF accept_req
  <1> HIDE DEF r
  <1>3. QED
    BY <1>1, <1>2

\* try_accept, from an instance i with the ballot of inst and a queue vals.
LEMMA TryAcceptAdvances ==
  ASSUME NEW i, Good(i), i.ballot = inst.ballot, NEW vals \in Seq(Value),
         TypeOK, UNCHANGED record, TryAccept(i, vals)
  PROVE  Advances
  <1>1. /\ age \in 0 .. MaxAge /\ renewed \in BOOLEAN
        /\ inst.ballot \in Nat /\ inst.ballot >= inst.ballot /\ 0 \in 0 .. MaxAge
    BY LinkAssumption, TimeoutsAssumption, ValueAssumption DEF TypeOK, InstanceType, Ballot, MaxAge
  <1>2. CASE /\ i.list = "none"
             /\ inst' \in instance_new(id)
             /\ values' = vals
             /\ created
             /\ send(prepare_req(inst'))
    <2>1. Good(inst') /\ inst'.list = "prepare" /\ inst'.ballot > 0
      BY <1>2, NewIsGood
    <2>2. i.ballot = 0
      BY <1>2 DEF Good
    <2>3. \E r \in Request : r.ballot = inst'.ballot /\ Own(r.ballot) /\ send(<<r>>)
      BY <1>2, <2>1, PrepareSent
    <2>4. Good(inst)'
      BY <2>1, GoodPrime
    <2>5. inst'.ballot >= inst.ballot
      BY <1>1, <2>1, <2>2 DEF Good, InstanceType, Ballot
    <2>6. QED
      BY <1>1, <1>2, <2>3, <2>4, <2>5 DEF created, Advances
  <1>3. CASE /\ i.list = "prepare" /\ quorum_reached(i.quorum)
             /\ i.value # None \/ vals # <<>>
             /\ inst' = proposer_accept(i, IF i.value = None THEN Head(vals) ELSE i.value)
             /\ values' = IF i.value = None THEN Tail(vals) ELSE vals
             /\ not_created
             /\ send(accept_req(inst'))
    <2> DEFINE v == IF i.value = None THEN Head(vals) ELSE i.value
    <2>1. v \in Value /\ values' \in Seq(Value)
      BY <1>3 DEF Good, InstanceType
    <2> HIDE DEF v
    <2>2. inst' = proposer_accept(i, v)
      BY <1>3 DEF v
    <2>3. Good(inst') /\ inst'.list = "accept" /\ inst'.ballot = i.ballot /\ inst'.value \in Value
      BY <1>3, <2>1, <2>2, AcceptedIsGood
    <2>4. \E r \in Request : r.ballot = inst'.ballot /\ Own(r.ballot) /\ send(<<r>>)
      BY <1>3, <2>3, AcceptSent, Zenon
    <2>5. Good(inst)'
      BY <2>3, GoodPrime
    <2>6. inst'.ballot >= inst.ballot /\ age' \in 0 .. MaxAge /\ renewed' \in BOOLEAN
      BY <1>1, <1>3, <2>3, Zenon DEF not_created
    <2>7. QED
      BY <2>1, <2>4, <2>5, <2>6, Zenon DEF Advances
  <1>4. CASE Keep(i, vals)
    BY <1>1, <1>4, GoodPrime DEF Keep, not_created, Advances
  <1>5. QED
    BY <1>2, <1>3, <1>4 DEF TryAccept

\* A preemption.
LEMMA PreemptedAdvances ==
  ASSUME TypeOK, Good(inst), inst.list # "none", UNCHANGED record, Preempted
  PROVE  Advances
  <1>1. values \in Seq(Value) /\ inst.ballot \in Nat /\ 0 \in 0 .. MaxAge
    BY TimeoutsAssumption, ValueAssumption DEF TypeOK, InstanceType, Ballot, MaxAge
  <1>2. Good(inst') /\ inst'.list = "prepare" /\ inst'.ballot > inst.ballot
    BY PreemptedIsGood DEF Preempted
  <1>3. inst'.ballot \in Nat
    BY <1>2, ValueAssumption DEF Good, InstanceType, Ballot
  <1>4. QED
    BY <1>1, <1>2, <1>3, PrepareSent, GoodPrime DEF Preempted, created, Advances

\* Handling a promise advances the proposer.
LEMMA PrepareAckAdvances ==
  ASSUME LinkInv, NEW a \in AcceptorId, NEW m, GoodAnswer(a, m), UNCHANGED record,
         HandlePrepareAck(m)
  PROVE  Advances
  <1>1. Good(inst) /\ TypeOK /\ values \in Seq(Value) /\ m.acceptor_id = a
    BY InstIsGood DEF LinkInv, TypeOK, GoodAnswer
  <1>2. CASE /\ inst.list = "prepare" /\ m.record.ballot = inst.ballot
             /\ quorum_adds(inst.quorum, m.acceptor_id)
             /\ TryAccept(proposer_receive_prepare_ack(inst, m), values \o displaced(m))
    <2>1. /\ Good(proposer_receive_prepare_ack(inst, m))
          /\ proposer_receive_prepare_ack(inst, m).ballot = inst.ballot
      BY <1>1, <1>2, PromisedIsGood
    <2>2. displaced(m) \in Seq(Value)
      BY <1>1 DEF displaced, Good, InstanceType
    <2>3. values \o displaced(m) \in Seq(Value)
      BY <1>1, <2>2
    <2>4. QED
      BY <1>1, <1>2, <2>1, <2>3, TryAcceptAdvances, Zenon
  <1>3. CASE inst.list = "prepare" /\ m.record.ballot > inst.ballot /\ Preempted
    BY <1>1, <1>3, PreemptedAdvances
  <1>4. CASE TryAccept(inst, values)
    BY <1>1, <1>4, TryAcceptAdvances
  <1>5. QED
    BY <1>2, <1>3, <1>4 DEF HandlePrepareAck

\* Handling an accept_ack advances the proposer: the assertion of proposer.c holds.
LEMMA AcceptAckAdvances ==
  ASSUME LinkInv, NEW a \in AcceptorId, NEW m, GoodAnswer(a, m), m.type = "accept_acks",
         UNCHANGED record, HandleAcceptAck(m)
  PROVE  Advances
  <1>1. Good(inst) /\ TypeOK /\ values \in Seq(Value)
    BY InstIsGood DEF LinkInv, TypeOK
  <1>2. CASE /\ inst.list = "accept" /\ m.record.ballot = inst.ballot
             /\ IF m.record.value_ballot # inst.ballot
                  THEN Keep([inst EXCEPT !.list = "aborted"], values)
                  ELSE TryAccept(proposer_receive_accept_ack(inst, m), values)
    <2>1. m.record.value_ballot = inst.ballot
      BY <1>1, <1>2 DEF Good, GoodAnswer
    <2>2. /\ Good(proposer_receive_accept_ack(inst, m))
          /\ proposer_receive_accept_ack(inst, m).ballot = inst.ballot
      BY <1>1, <1>2, <2>1, AckedIsGood
    <2>3. QED
      BY <1>1, <1>2, <2>1, <2>2, TryAcceptAdvances
  <1>3. CASE inst.list = "accept" /\ m.record.ballot # inst.ballot /\ Preempted
    BY <1>1, <1>3, PreemptedAdvances
  <1>4. CASE TryAccept(inst, values)
    BY <1>1, <1>4, TryAcceptAdvances
  <1>5. QED
    BY <1>2, <1>3, <1>4 DEF HandleAcceptAck

\* The timer sends what is pending again.
LEMMA TimeoutAdvances ==
  ASSUME LinkInv, NEW d \in 0 .. period, CheckTimeouts(d)
  PROVE  Advances
  <1> DEFINE now == IF age + d < MaxAge THEN age + d ELSE MaxAge
  <1>1. /\ Good(inst) /\ values \in Seq(Value) /\ age \in 0 .. MaxAge /\ MaxAge \in Nat
        /\ period \in Nat /\ inst.ballot \in Nat
    <2>1. Good(inst) /\ values \in Seq(Value) /\ age \in 0 .. MaxAge /\ inst.ballot \in Ballot
      BY InstIsGood DEF LinkInv, TypeOK, InstanceType
    <2>2. MaxAge \in Nat /\ period \in Nat /\ Ballot \subseteq Nat
      BY TimeoutsAssumption, ValueAssumption DEF MaxAge, period, Ballot
    <2>3. QED
      BY <2>1, <2>2, Zenon
  <1>2. now \in 0 .. MaxAge /\ 0 \in 0 .. MaxAge
    BY <1>1
  <1> HIDE DEF now
  <1>3. PICK timedout \in instance_has_timedout(now) :
          IF Pending(inst) /\ timedout
            THEN /\ send(IF inst.list = "prepare" THEN prepare_req(inst) ELSE accept_req(inst))
                 /\ age' = 0
            ELSE /\ UNCHANGED requests
                 /\ age' = now
    BY DEF CheckTimeouts, now
  <1>4. renewed' = FALSE /\ UNCHANGED <<inst, values, record>>
    BY DEF CheckTimeouts
  <1>5. Good(inst)' /\ inst'.ballot >= inst.ballot
    BY <1>1, <1>4 DEF Good
  <1>6. \/ UNCHANGED requests
        \/ \E r \in Request : r.ballot = inst'.ballot /\ Own(r.ballot) /\ send(<<r>>)
    <2>1. CASE ~(Pending(inst) /\ timedout)
      BY <1>3, <2>1
    <2>2. CASE Pending(inst) /\ timedout /\ inst.list = "prepare"
      BY <1>1, <1>3, <1>4, <2>2, PrepareSent, Zenon
    <2>3. CASE Pending(inst) /\ timedout /\ inst.list = "accept"
      BY <1>1, <1>3, <1>4, <2>3, AcceptSent, Zenon
    <2>4. QED
      BY <2>1, <2>2, <2>3 DEF Pending
  <1>7. QED
    BY <1>1, <1>2, <1>3, <1>4, <1>5, <1>6, Zenon DEF Advances
-----------------------------------------------------------------------------
(* The invariant after a step of the proposer *)

\* The end of every queue is the only part of it that a step of the proposer adds.
LEMMA SentRequests ==
  ASSUME TypeOK, NEW r \in Request, send(<<r>>), UNCHANGED peer,
         NEW a \in AcceptorId, NEW c \in Conn
  PROVE  requests'[a][c] = IF c = peer[a].bev THEN Append(requests[a][c], r) ELSE requests[a][c]
  <1>1. requests[a] \in [Conn -> Seq(Request)] /\ peer[a].bev \in Conn
    BY DEF TypeOK
  <1>2. requests'[a] = [requests[a] EXCEPT ![peer[a].bev] = @ \o <<r>>]
    BY DEF send
  <1>3. requests'[a][c] = IF c = peer[a].bev THEN requests[a][c] \o <<r>> ELSE requests[a][c]
    BY <1>1, <1>2
  <1>4. requests[a][c] \in Seq(Request) /\ requests[a][c] \o <<r>> = Append(requests[a][c], r)
    BY <1>1
  <1>5. QED
    BY <1>3, <1>4, Zenon

\* An advance of the proposer keeps the types.
LEMMA AdvancesTypes ==
  ASSUME TypeOK, Advances, UNCHANGED <<peer, server, record>>,
         answers' \in [AcceptorId -> [Conn -> Seq(Answer)]]
  PROVE  TypeOK'
  <1>1. requests' \in [AcceptorId -> [Conn -> Seq(Request)]]
    <2>1. CASE UNCHANGED requests
      BY <2>1 DEF TypeOK
    <2>2. ASSUME NEW r \in Request, send(<<r>>)
          PROVE  requests' \in [AcceptorId -> [Conn -> Seq(Request)]]
      BY <2>2 DEF TypeOK, send
    <2>3. QED
      BY <2>1, <2>2, Zenon DEF Advances
  <1>2. QED
    BY <1>1 DEF TypeOK, Advances, Good

\* A request that is under way after the step was under way before, at the same
\* place, or is the last one of the present connection and has the present ballot.
LEMMA SentOrOld ==
  ASSUME LinkInv, Advances, UNCHANGED peer,
         NEW a \in AcceptorId, NEW c \in Conn, NEW k \in 1 .. Len(requests'[a][c])
  PROVE  /\ requests'[a][c][k].ballot \in Nat
         /\ requests'[a][c][k].ballot <= inst'.ballot
         /\ Own(requests'[a][c][k].ballot)
         /\ \/ /\ k \in 1 .. Len(requests[a][c])
               /\ requests'[a][c][k].ballot = requests[a][c][k].ballot
            \/ /\ c = peer[a].bev
               /\ k = Len(requests'[a][c])
               /\ requests'[a][c][k].ballot = inst'.ballot
  <1>1. /\ requests[a][c] \in Seq(Request) /\ inst.ballot \in Nat /\ inst'.ballot \in Nat
        /\ inst.ballot <= inst'.ballot /\ TypeOK
    <2>1. requests[a][c] \in Seq(Request) /\ inst \in InstanceType /\ TypeOK
      BY DEF LinkInv, TypeOK
    <2>2. inst' \in InstanceType /\ inst'.ballot >= inst.ballot
      BY Zenon DEF Advances, Good
    <2>3. QED
      BY <2>1, <2>2, ValueAssumption DEF InstanceType, Ballot
  <1>2. \A j \in 1 .. Len(requests[a][c]) :
          /\ requests[a][c][j].ballot \in Nat
          /\ Own(requests[a][c][j].ballot)
          /\ requests[a][c][j].ballot <= inst.ballot
    BY <1>1, ValueAssumption DEF LinkInv, RequestsInv, Request, Ballot
  <1>3. CASE UNCHANGED requests
    BY <1>1, <1>2, <1>3
  <1>4. CASE \E r \in Request : r.ballot = inst'.ballot /\ Own(r.ballot) /\ send(<<r>>)
    <2>1. PICK r \in Request : r.ballot = inst'.ballot /\ Own(r.ballot) /\ send(<<r>>)
      BY <1>4
    <2>2. requests'[a][c] = IF c = peer[a].bev THEN Append(requests[a][c], r) ELSE requests[a][c]
      BY <1>1, <2>1, SentRequests
    <2>3. CASE c = peer[a].bev
      <3>1. requests'[a][c] = Append(requests[a][c], r)
        BY <2>2, <2>3
      <3>2. /\ Len(requests'[a][c]) = Len(requests[a][c]) + 1
            /\ requests'[a][c][k] = IF k \in 1 .. Len(requests[a][c]) THEN requests[a][c][k] ELSE r
            /\ k \in 1 .. Len(requests[a][c]) \/ k = Len(requests[a][c]) + 1
        BY <1>1, <3>1
      <3>3. CASE k \in 1 .. Len(requests[a][c])
        BY <1>1, <1>2, <3>2, <3>3
      <3>4. CASE k = Len(requests[a][c]) + 1
        <4>1. requests'[a][c][k] = r
          BY <1>1, <3>2, <3>4
        <4>2. requests'[a][c][k].ballot = inst'.ballot /\ Own(inst'.ballot)
          BY <2>1, <4>1, Zenon
        <4>3. k = Len(requests'[a][c]) /\ inst'.ballot <= inst'.ballot
          BY <1>1, <3>2, <3>4
        <4>4. QED
          BY <1>1, <2>3, <4>2, <4>3, Zenon
      <3>5. QED
        BY <3>2, <3>3, <3>4
    <2>4. CASE c # peer[a].bev
      BY <1>1, <1>2, <2>2, <2>4
    <2>5. QED
      BY <2>3, <2>4
  <1>5. QED
    BY <1>3, <1>4, Zenon DEF Advances

\* An advance keeps the requests in order, since what it sends has the highest ballot.
LEMMA AdvancesRequests ==
  ASSUME LinkInv, Advances, UNCHANGED peer
  PROVE  RequestsInv'
  <1> SUFFICES ASSUME NEW a \in AcceptorId, NEW c \in Conn,
                      NEW j \in 1 .. Len(requests'[a][c])
               PROVE  LET b == requests'[a][c][j].ballot
                      IN /\ Own(b) /\ b <= inst'.ballot
                         /\ c <= peer[a].bev
                         /\ \A k \in j .. Len(requests'[a][c]) : b <= requests'[a][c][k].ballot
                         /\ \A d \in Conn : d > c =>
                              \A k \in 1 .. Len(requests'[a][d]) : b <= requests'[a][d][k].ballot
    BY DEF RequestsInv
  <1> DEFINE b == requests'[a][c][j].ballot
  <1>1. /\ b \in Nat /\ Own(b) /\ b <= inst'.ballot
        /\ \/ j \in 1 .. Len(requests[a][c]) /\ b = requests[a][c][j].ballot
           \/ c = peer[a].bev /\ j = Len(requests'[a][c]) /\ b = inst'.ballot
    BY SentOrOld
  <1>2. peer[a].bev \in Conn /\ peer[a].bev \in Nat /\ c \in Nat /\ inst'.ballot \in Nat
    BY LinkAssumption, ValueAssumption, SMTT(20)
    DEF LinkInv, TypeOK, Conn, Advances, Good, InstanceType, Ballot
  <1>3. \A i \in 1 .. Len(requests[a][c]) :
          /\ c <= peer[a].bev
          /\ \A k \in i .. Len(requests[a][c]) :
               requests[a][c][i].ballot <= requests[a][c][k].ballot
          /\ \A d \in Conn : d > c => \A k \in 1 .. Len(requests[a][d]) :
               requests[a][c][i].ballot <= requests[a][d][k].ballot
    BY Zenon DEF LinkInv, RequestsInv
  <1>4. c <= peer[a].bev
    BY <1>1, <1>2, <1>3
  <1>5. ASSUME NEW k \in j .. Len(requests'[a][c])
        PROVE  b <= requests'[a][c][k].ballot
    <2>1. k \in 1 .. Len(requests'[a][c]) /\ j \in Nat /\ k \in Nat /\ j <= k
      OBVIOUS
    <2>2. \/ /\ k \in 1 .. Len(requests[a][c])
             /\ requests'[a][c][k].ballot = requests[a][c][k].ballot
          \/ requests'[a][c][k].ballot = inst'.ballot
      BY <2>1, SentOrOld
    <2>3. CASE requests'[a][c][k].ballot = inst'.ballot
      BY <1>1, <2>3
    <2>4. CASE /\ k \in 1 .. Len(requests[a][c])
               /\ requests'[a][c][k].ballot = requests[a][c][k].ballot
      <3>1. CASE j \in 1 .. Len(requests[a][c]) /\ b = requests[a][c][j].ballot
        BY <1>3, <2>1, <2>4, <3>1
      <3>2. CASE c = peer[a].bev /\ j = Len(requests'[a][c]) /\ b = inst'.ballot
        <4>1. k = j
          BY <2>1, <3>2
        <4>2. QED
          BY <1>1, <4>1
      <3>3. QED
        BY <1>1, <3>1, <3>2
    <2>5. QED
      BY <2>2, <2>3, <2>4
  <1>6. ASSUME NEW d \in Conn, d > c, NEW k \in 1 .. Len(requests'[a][d])
        PROVE  b <= requests'[a][d][k].ballot
    <2>1. \/ /\ k \in 1 .. Len(requests[a][d])
             /\ requests'[a][d][k].ballot = requests[a][d][k].ballot
          \/ requests'[a][d][k].ballot = inst'.ballot
      BY SentOrOld
    <2>2. CASE requests'[a][d][k].ballot = inst'.ballot
      BY <1>1, <2>2
    <2>3. CASE /\ k \in 1 .. Len(requests[a][d])
               /\ requests'[a][d][k].ballot = requests[a][d][k].ballot
      <3>1. d <= peer[a].bev
        BY <2>3 DEF LinkInv, RequestsInv
      <3>2. c # peer[a].bev
        BY <1>2, <1>6, <3>1 DEF Conn
      <3>3. QED
        BY <1>1, <1>3, <1>6, <2>3, <3>2
    <2>4. QED
      BY <2>1, <2>2, <2>3
  <1>7. QED
    BY <1>1, <1>4, <1>5, <1>6

\* What is left to read of the answers is a part of what was there.
FewerAnswers ==
  /\ answers' \in [AcceptorId -> [Conn -> Seq(Answer)]]
  /\ \A a \in AcceptorId : \A c \in Conn : \A k \in 1 .. Len(answers'[a][c]) :
       \E j \in 1 .. Len(answers[a][c]) : answers'[a][c][k] = answers[a][c][j]

\* Answers that were good stay good when some are read or lost.
LEMMA FewerKeepAnswers ==
  ASSUME AnswersInv, FewerAnswers, UNCHANGED record
  PROVE  AnswersInv'
  <1>1. ASSUME NEW a \in AcceptorId, NEW c \in Conn, NEW k \in 1 .. Len(answers'[a][c])
        PROVE  GoodAnswer(a, answers[a][c][k])'
    <2>1. PICK j \in 1 .. Len(answers[a][c]) : answers'[a][c][k] = answers[a][c][j]
      BY DEF FewerAnswers
    <2>2. GoodAnswer(a, answers'[a][c][k])
      BY <2>1 DEF AnswersInv
    <2>3. QED
      BY <2>2, Zenon DEF GoodAnswer
  <1>2. QED
    BY <1>1, Zenon DEF AnswersInv

\* Answers left alone are an instance of that.
LEMMA SameAnswers ==
  ASSUME TypeOK, UNCHANGED answers
  PROVE  FewerAnswers
  BY DEF TypeOK, FewerAnswers

\* An advance of the proposer keeps the invariant.
LEMMA AdvancesInv ==
  ASSUME LinkInv, Advances, UNCHANGED <<peer, server, record>>, FewerAnswers
  PROVE  LinkInv'
  <1>1. TypeOK'
    BY AdvancesTypes DEF LinkInv, FewerAnswers
  <1>2. InstInv' /\ CountedAnswered'
    BY DEF Advances, Good, InstInv, CountedAnswered
  <1>3. RequestsInv'
    BY AdvancesRequests
  <1>4. RecordInv'
    <2> SUFFICES ASSUME NEW a \in AcceptorId
                 PROVE  /\ record[a].value_ballot <= record[a].ballot
                        /\ Own(record[a].ballot) =>
                             /\ record[a].ballot <= inst'.ballot
                             /\ \A k \in 1 .. Len(requests'[a][peer[a].bev]) :
                                  record[a].ballot <= requests'[a][peer[a].bev][k].ballot
      BY DEF RecordInv
    <2>1. /\ record[a].ballot \in Nat /\ inst.ballot \in Nat /\ inst'.ballot \in Nat
          /\ inst.ballot <= inst'.ballot /\ peer[a].bev \in Conn
      BY ValueAssumption DEF LinkInv, TypeOK, RecordType, Advances, Good, InstanceType, Ballot
    <2>2. /\ record[a].value_ballot <= record[a].ballot
          /\ Own(record[a].ballot) =>
               /\ record[a].ballot <= inst.ballot
               /\ \A k \in 1 .. Len(requests[a][peer[a].bev]) :
                    record[a].ballot <= requests[a][peer[a].bev][k].ballot
      BY DEF LinkInv, RecordInv
    <2>3. ASSUME Own(record[a].ballot), NEW k \in 1 .. Len(requests'[a][peer[a].bev])
          PROVE  record[a].ballot <= requests'[a][peer[a].bev][k].ballot
      <3>1. \/ /\ k \in 1 .. Len(requests[a][peer[a].bev])
               /\ requests'[a][peer[a].bev][k].ballot = requests[a][peer[a].bev][k].ballot
            \/ requests'[a][peer[a].bev][k].ballot = inst'.ballot
        BY <2>1, SentOrOld, Zenon
      <3>2. /\ record[a].ballot <= inst.ballot
            /\ \A i \in 1 .. Len(requests[a][peer[a].bev]) :
                 record[a].ballot <= requests[a][peer[a].bev][i].ballot
        BY <2>2, <2>3, Zenon
      <3>3. record[a].ballot <= inst'.ballot
        BY <2>1, <3>2
      <3>4. QED
        BY <3>1, <3>2, <3>3, Zenon
    <2>4. QED
      BY <2>1, <2>2, <2>3
  <1>5. AnswersInv'
    BY FewerKeepAnswers DEF LinkInv
  <1>6. QED
    BY <1>1, <1>2, <1>3, <1>4, <1>5 DEF LinkInv

\* Reading an answer keeps the invariant.
LEMMA ProposerReadInv ==
  ASSUME LinkInv, NEW a \in AcceptorId, ProposerRead(a)
  PROVE  LinkInv'
  <1> DEFINE c == peer[a].bev
             m == Head(answers[a][c])
  <1>1. c \in Conn /\ answers[a][c] \in Seq(Answer) /\ answers[a][c] # <<>> /\ TypeOK
    BY DEF ProposerRead, LinkInv, TypeOK
  <1>2. answers' = [answers EXCEPT ![a][c] = Tail(@)]
    BY DEF ProposerRead
  <1>3. FewerAnswers
    <2>1. answers' \in [AcceptorId -> [Conn -> Seq(Answer)]]
      BY <1>1, <1>2 DEF TypeOK
    <2>2. ASSUME NEW a2 \in AcceptorId, NEW c2 \in Conn, NEW k \in 1 .. Len(answers'[a2][c2])
          PROVE  \E j \in 1 .. Len(answers[a2][c2]) : answers'[a2][c2][k] = answers[a2][c2][j]
      <3>1. CASE a2 = a /\ c2 = c
        <4>1. answers'[a2][c2] = Tail(answers[a][c])
          BY <1>1, <1>2, <3>1 DEF TypeOK
        <4>2. k + 1 \in 1 .. Len(answers[a][c]) /\ Tail(answers[a][c])[k] = answers[a][c][k + 1]
          BY <1>1, <4>1
        <4>3. QED
          BY <3>1, <4>1, <4>2
      <3>2. CASE ~(a2 = a /\ c2 = c)
        <4>1. answers'[a2][c2] = answers[a2][c2]
          BY <1>1, <1>2, <3>2 DEF TypeOK
        <4>2. QED
          BY <4>1
      <3>3. QED
        BY <3>1, <3>2
    <2>3. QED
      BY <2>1, <2>2, Zenon DEF FewerAnswers
  <1>4. GoodAnswer(a, m)
    <2>1. 1 \in 1 .. Len(answers[a][c]) /\ m = answers[a][c][1] /\ m \in Answer
      BY <1>1
    <2>2. QED
      BY <1>1, <2>1, Zenon DEF LinkInv, AnswersInv
  <1>5. IF m.type = "prepare_acks" THEN HandlePrepareAck(m) ELSE HandleAcceptAck(m)
    BY DEF ProposerRead
  <1>6. UNCHANGED <<peer, server, record>>
    BY DEF ProposerRead
  <1> HIDE DEF m, c
  <1>7. Advances
    <2>1. CASE m.type = "prepare_acks"
      BY <1>4, <1>5, <1>6, <2>1, PrepareAckAdvances
    <2>2. CASE m.type = "accept_acks"
      BY <1>4, <1>5, <1>6, <2>2, AcceptAckAdvances
    <2>3. QED
      BY <1>4, <2>1, <2>2 DEF GoodAnswer, Answer
  <1>8. QED
    BY <1>3, <1>6, <1>7, AdvancesInv

\* So does a value from a client.
LEMMA SubmitInv ==
  ASSUME LinkInv, NEW vals \in Seq(Value), Submit(vals)
  PROVE  LinkInv'
  <1>1. Good(inst) /\ TypeOK /\ values \o vals \in Seq(Value)
    BY InstIsGood DEF LinkInv, TypeOK
  <1>2. TryAccept(inst, values \o vals) /\ UNCHANGED <<peer, server, answers, record>>
    BY DEF Submit
  <1>3. Advances
    BY <1>1, <1>2, TryAcceptAdvances, Zenon
  <1>4. QED
    BY <1>1, <1>2, <1>3, SameAnswers, AdvancesInv

\* So does the timer of evproposer.c, which sends requests again.
LEMMA TimerInv ==
  ASSUME LinkInv, Timer
  PROVE  LinkInv'
  <1>1. PICK d \in 0 .. period : CheckTimeouts(d)
    BY TimeoutsAssumption DEF Timer, period
  <1>2. Advances /\ UNCHANGED <<peer, server, answers, record>> /\ TypeOK
    BY <1>1, TimeoutAdvances, Zenon DEF CheckTimeouts, LinkInv
  <1>3. QED
    BY <1>2, SameAnswers, AdvancesInv

(* The invariant after a step of a connection or of an acceptor *)

\* What is left to read of a queue of requests is a part of what was there.
FewerRequests ==
  /\ requests' \in [AcceptorId -> [Conn -> Seq(Request)]]
  /\ \A a \in AcceptorId : \A c \in Conn : \E o \in Nat :
       \A k \in 1 .. Len(requests'[a][c]) :
         k + o \in 1 .. Len(requests[a][c]) /\ requests'[a][c][k] = requests[a][c][k + o]

\* A peer goes on to later connections only.
LaterConnections ==
  /\ peer' \in [AcceptorId -> [bev : Conn, state : {"waiting", "connecting", "connected"}]]
  /\ \A a \in AcceptorId : peer'[a].bev >= peer[a].bev

\* An acceptor takes nothing back.
Grows ==
  /\ record' \in [AcceptorId -> RecordType]
  /\ \A a \in AcceptorId :
       /\ record'[a].ballot >= record[a].ballot
       /\ record'[a].value_ballot >= record[a].value_ballot
       /\ record'[a].value_ballot <= record'[a].ballot

\* Requests left alone are a case of fewer requests.
LEMMA SameRequests ==
  ASSUME TypeOK, UNCHANGED requests
  PROVE  FewerRequests
  <1>1. ASSUME NEW a \in AcceptorId, NEW c \in Conn
        PROVE  \E o \in Nat : \A k \in 1 .. Len(requests'[a][c]) :
                 k + o \in 1 .. Len(requests[a][c]) /\ requests'[a][c][k] = requests[a][c][k + o]
    <2>1. \A k \in 1 .. Len(requests[a][c]) : k + 0 = k
      BY DEF TypeOK
    <2>2. QED
      BY <2>1, Zenon
  <1>2. QED
    BY <1>1 DEF TypeOK, FewerRequests

\* Connections left alone are a case of later connections.
LEMMA SamePeers ==
  ASSUME TypeOK, UNCHANGED peer
  PROVE  LaterConnections
  BY LinkAssumption DEF TypeOK, LaterConnections, Conn

\* Records left alone are a case of records that grow.
LEMMA SameRecords ==
  ASSUME LinkInv, UNCHANGED record
  PROVE  Grows
  BY ValueAssumption DEF LinkInv, TypeOK, RecordInv, RecordType, Ballot, Grows

\* What is under way on the connections stays in order.
LEMMA FewerKeepRequests ==
  ASSUME LinkInv, UNCHANGED inst, FewerRequests, LaterConnections
  PROVE  RequestsInv'
  <1> SUFFICES ASSUME NEW a \in AcceptorId, NEW c \in Conn,
                      NEW j \in 1 .. Len(requests'[a][c])
               PROVE  LET b == requests'[a][c][j].ballot
                      IN /\ Own(b) /\ b <= inst.ballot
                         /\ c <= peer'[a].bev
                         /\ \A k \in j .. Len(requests'[a][c]) : b <= requests'[a][c][k].ballot
                         /\ \A d \in Conn : d > c =>
                              \A k \in 1 .. Len(requests'[a][d]) : b <= requests'[a][d][k].ballot
    BY DEF RequestsInv
  <1> DEFINE b == requests'[a][c][j].ballot
  <1>1. PICK o \in Nat : \A k \in 1 .. Len(requests'[a][c]) :
          k + o \in 1 .. Len(requests[a][c]) /\ requests'[a][c][k] = requests[a][c][k + o]
    BY Zenon DEF FewerRequests
  <1>2. j + o \in 1 .. Len(requests[a][c]) /\ b = requests[a][c][j + o].ballot
    BY <1>1, SMTT(20)
  <1>3. /\ Own(b) /\ b <= inst.ballot
        /\ c <= peer[a].bev
        /\ \A k \in j + o .. Len(requests[a][c]) : b <= requests[a][c][k].ballot
        /\ \A d \in Conn : d > c =>
             \A k \in 1 .. Len(requests[a][d]) : b <= requests[a][d][k].ballot
    BY <1>2, Zenon DEF LinkInv, RequestsInv
  <1> HIDE DEF b
  <1>4. c <= peer'[a].bev
    <2>1. c \in Nat /\ peer[a].bev \in Nat /\ peer'[a].bev \in Nat /\ peer'[a].bev >= peer[a].bev
      <3>1. peer[a].bev \in Conn /\ peer'[a].bev \in Conn /\ peer'[a].bev >= peer[a].bev
        BY DEF LinkInv, TypeOK, LaterConnections
      <3>2. Conn \subseteq Nat
        BY LinkAssumption DEF Conn
      <3>3. QED
        BY <3>1, <3>2
    <2>2. QED
      BY <1>3, <2>1
  <1>5. ASSUME NEW k \in j .. Len(requests'[a][c])
        PROVE  b <= requests'[a][c][k].ballot
    <2>1. k \in 1 .. Len(requests'[a][c]) /\ k + o >= j + o
      OBVIOUS
    <2>2. k + o \in j + o .. Len(requests[a][c]) /\ requests'[a][c][k] = requests[a][c][k + o]
      BY <1>1, <1>2, <2>1
    <2>3. QED
      BY <1>3, <2>2, Zenon
  <1>6. ASSUME NEW d \in Conn, d > c, NEW k \in 1 .. Len(requests'[a][d])
        PROVE  b <= requests'[a][d][k].ballot
    <2>1. PICK p \in 1 .. Len(requests[a][d]) : requests'[a][d][k] = requests[a][d][p]
      BY Zenon DEF FewerRequests
    <2>2. QED
      BY <1>3, <1>6, <2>1, Zenon
  <1>7. QED
    BY <1>3, <1>4, <1>5, <1>6, Zenon DEF b

\* An answer that was good stays good.
LEMMA GrowsKeepAnswer ==
  ASSUME LinkInv, Grows, NEW a \in AcceptorId, NEW m, GoodAnswer(a, m)
  PROVE  GoodAnswer(a, m)'
  <1>1. /\ record[a].ballot \in Nat /\ record'[a].ballot \in Nat
        /\ record[a].value_ballot \in Nat /\ record'[a].value_ballot \in Nat
        /\ m.record.ballot \in Nat /\ m.record.value_ballot \in Nat
    BY ValueAssumption DEF LinkInv, TypeOK, Grows, GoodAnswer, Answer, RecordType, Ballot
  <1>2. /\ m.record.ballot <= record'[a].ballot
        /\ m.record.value_ballot <= record'[a].value_ballot
    BY <1>1 DEF Grows, GoodAnswer
  <1>3. QED
    BY <1>2, Zenon DEF GoodAnswer

\* Who is counted has answered, still, when the records grow.
LEMMA GrowsKeepCounted ==
  ASSUME LinkInv, Grows, UNCHANGED inst
  PROVE  CountedAnswered'
  <1> SUFFICES ASSUME NEW a \in inst.quorum.counted
               PROVE  /\ record'[a].ballot >= inst.ballot
                      /\ inst.list \in {"accept", "freed"} => record'[a].value_ballot >= inst.ballot
    BY DEF CountedAnswered
  <1>1. a \in AcceptorId /\ inst.ballot \in Nat
    BY ValueAssumption DEF LinkInv, TypeOK, InstanceType, QuorumType, Ballot
  <1>2. /\ record[a].ballot \in Nat /\ record'[a].ballot \in Nat
        /\ record[a].value_ballot \in Nat /\ record'[a].value_ballot \in Nat
    BY <1>1, ValueAssumption DEF LinkInv, TypeOK, Grows, RecordType, Ballot
  <1>3. /\ record[a].ballot >= inst.ballot
        /\ inst.list \in {"accept", "freed"} => record[a].value_ballot >= inst.ballot
    BY DEF LinkInv, CountedAnswered
  <1>4. record'[a].ballot >= record[a].ballot /\ record'[a].value_ballot >= record[a].value_ballot
    BY <1>1 DEF Grows
  <1>5. QED
    BY <1>1, <1>2, <1>3, <1>4

\* A step of a connection or of an acceptor.
LEMMA ConnectionInv ==
  ASSUME LinkInv, UNCHANGED proposer_vars,
         server' \in [AcceptorId -> [Conn -> {"none", "backlog", "open", "dead", "freed"}]],
         LaterConnections, FewerRequests, Grows, RecordInv',
         answers' \in [AcceptorId -> [Conn -> Seq(Answer)]], AnswersInv'
  PROVE  LinkInv'
  <1>1. UNCHANGED inst /\ UNCHANGED <<values, age, renewed>>
    BY DEF proposer_vars
  <1>2. TypeOK'
    BY <1>1 DEF LinkInv, TypeOK, LaterConnections, FewerRequests, Grows
  <1>3. InstInv'
    BY <1>1 DEF LinkInv, InstInv
  <1>4. RequestsInv' /\ CountedAnswered'
    BY <1>1, FewerKeepRequests, GrowsKeepCounted
  <1>5. QED
    BY <1>2, <1>3, <1>4 DEF LinkInv

\* The record of an acceptor that does nothing, when requests are read or lost and
\* a peer makes a new connection.
LEMMA RecordKept ==
  ASSUME LinkInv, UNCHANGED inst, LaterConnections, FewerRequests,
         NEW a \in AcceptorId, record'[a] = record[a]
  PROVE  /\ record'[a].value_ballot <= record'[a].ballot
         /\ Own(record'[a].ballot) =>
              /\ record'[a].ballot <= inst'.ballot
              /\ \A k \in 1 .. Len(requests'[a][peer'[a].bev]) :
                   record'[a].ballot <= requests'[a][peer'[a].bev][k].ballot
  <1>1. /\ record[a].value_ballot <= record[a].ballot
        /\ Own(record[a].ballot) =>
             /\ record[a].ballot <= inst.ballot
             /\ \A k \in 1 .. Len(requests[a][peer[a].bev]) :
                  record[a].ballot <= requests[a][peer[a].bev][k].ballot
    BY DEF LinkInv, RecordInv
  <1>2. ASSUME Own(record[a].ballot), NEW k \in 1 .. Len(requests'[a][peer'[a].bev])
        PROVE  record[a].ballot <= requests'[a][peer'[a].bev][k].ballot
    <2> DEFINE c == peer'[a].bev
    <2>1. c \in Conn /\ peer[a].bev \in Nat /\ c \in Nat /\ c >= peer[a].bev
      BY LinkAssumption DEF LaterConnections, LinkInv, TypeOK, Conn
    <2>2. PICK p \in 1 .. Len(requests[a][c]) : requests'[a][c][k] = requests[a][c][p]
      BY <2>1, Zenon DEF FewerRequests
    <2>3. c <= peer[a].bev
      BY <2>1, <2>2, Zenon DEF LinkInv, RequestsInv
    <2>4. c = peer[a].bev
      BY <2>1, <2>3
    <2> HIDE DEF c
    <2>5. requests'[a][c][k] = requests[a][peer[a].bev][p] /\ p \in 1 .. Len(requests[a][peer[a].bev])
      BY <2>2, <2>4
    <2>6. QED
      BY <1>1, <1>2, <2>5, Zenon DEF c
  <1>3. QED
    BY <1>1, <1>2, Zenon

\* Records left alone stay in order with what is under way.
LEMMA RecordsKept ==
  ASSUME LinkInv, UNCHANGED <<inst, record>>, LaterConnections, FewerRequests
  PROVE  RecordInv'
  <1>1. \A a \in AcceptorId :
          /\ record'[a].value_ballot <= record'[a].ballot
          /\ Own(record'[a].ballot) =>
               /\ record'[a].ballot <= inst'.ballot
               /\ \A k \in 1 .. Len(requests'[a][peer'[a].bev]) :
                    record'[a].ballot <= requests'[a][peer'[a].bev][k].ballot
    BY RecordKept
  <1>2. QED
    BY <1>1, Zenon DEF RecordInv

\* When no acceptor does anything.
LEMMA QuietInv ==
  ASSUME LinkInv, UNCHANGED proposer_vars, UNCHANGED record,
         server' \in [AcceptorId -> [Conn -> {"none", "backlog", "open", "dead", "freed"}]],
         LaterConnections, FewerRequests, FewerAnswers
  PROVE  LinkInv'
  <1>1. Grows /\ UNCHANGED inst
    BY SameRecords DEF proposer_vars
  <1>2. RecordInv'
    BY <1>1, RecordsKept
  <1>3. AnswersInv' /\ answers' \in [AcceptorId -> [Conn -> Seq(Answer)]]
    BY FewerKeepAnswers DEF LinkInv, FewerAnswers
  <1>4. QED
    BY <1>1, <1>2, <1>3, ConnectionInv

\* A queue that loses its end, or all of it.
LEMMA TruncatedRequests ==
  ASSUME TypeOK, NEW a \in AcceptorId, NEW c \in Conn, NEW n \in 0 .. Len(requests[a][c]),
         requests' = [requests EXCEPT ![a][c] = SubSeq(@, 1, n)]
  PROVE  FewerRequests
  <1>1. requests[a][c] \in Seq(Request)
    BY DEF TypeOK
  <1>2. /\ SubSeq(requests[a][c], 1, n) \in Seq(Request)
        /\ Len(SubSeq(requests[a][c], 1, n)) = n
        /\ \A k \in 1 .. n : SubSeq(requests[a][c], 1, n)[k] = requests[a][c][k]
    BY <1>1
  <1>3. requests' \in [AcceptorId -> [Conn -> Seq(Request)]]
    BY <1>2 DEF TypeOK
  <1>4. ASSUME NEW a2 \in AcceptorId, NEW c2 \in Conn
        PROVE  \E o \in Nat : \A k \in 1 .. Len(requests'[a2][c2]) :
                 /\ k + o \in 1 .. Len(requests[a2][c2])
                 /\ requests'[a2][c2][k] = requests[a2][c2][k + o]
    <2>1. requests'[a2][c2] = IF a2 = a /\ c2 = c THEN SubSeq(requests[a][c], 1, n)
                                                  ELSE requests[a2][c2]
      BY Zenon DEF TypeOK
    <2>2. \A k \in 1 .. Len(requests'[a2][c2]) :
            k \in 1 .. Len(requests[a2][c2]) /\ requests'[a2][c2][k] = requests[a2][c2][k]
      BY <1>1, <1>2, <2>1
    <2>3. requests'[a2][c2] \in Seq(Request)
      BY <1>3
    <2>4. \A k \in 1 .. Len(requests'[a2][c2]) : k + 0 = k
      BY <2>3
    <2>5. \A k \in 1 .. Len(requests'[a2][c2]) :
            /\ k + 0 \in 1 .. Len(requests[a2][c2])
            /\ requests'[a2][c2][k] = requests[a2][c2][k + 0]
      BY <2>2, <2>4, Zenon
    <2>6. 0 \in Nat
      OBVIOUS
    <2>7. QED
      BY <2>5, <2>6, Zenon
  <1>5. QED
    BY <1>3, <1>4, Zenon DEF FewerRequests

\* Losing the last answers of a connection leaves a part of the answers.
LEMMA TruncatedAnswers ==
  ASSUME TypeOK, NEW a \in AcceptorId, NEW c \in Conn, NEW n \in 0 .. Len(answers[a][c]),
         answers' = [answers EXCEPT ![a][c] = SubSeq(@, 1, n)]
  PROVE  FewerAnswers
  <1>1. answers[a][c] \in Seq(Answer)
    BY DEF TypeOK
  <1>2. /\ SubSeq(answers[a][c], 1, n) \in Seq(Answer)
        /\ Len(SubSeq(answers[a][c], 1, n)) = n
        /\ \A k \in 1 .. n : SubSeq(answers[a][c], 1, n)[k] = answers[a][c][k]
    BY <1>1
  <1>3. answers' \in [AcceptorId -> [Conn -> Seq(Answer)]]
    BY <1>2 DEF TypeOK
  <1>4. ASSUME NEW a2 \in AcceptorId, NEW c2 \in Conn, NEW k \in 1 .. Len(answers'[a2][c2])
        PROVE  k \in 1 .. Len(answers[a2][c2]) /\ answers'[a2][c2][k] = answers[a2][c2][k]
    <2>1. answers'[a2][c2] = IF a2 = a /\ c2 = c THEN SubSeq(answers[a][c], 1, n)
                                                 ELSE answers[a2][c2]
      BY Zenon DEF TypeOK
    <2>2. QED
      BY <1>1, <1>2, <2>1
  <1>5. QED
    BY <1>3, <1>4 DEF FewerAnswers

\* The callbacks that only make, accept or drop a connection.
LEMMA HandshakeInv ==
  ASSUME LinkInv, NEW a \in AcceptorId,
         \/ OnConnected(a)
         \/ OnConnectionTimeout(a)
         \/ \E c \in Conn : OnAccept(a, c) \/ OnEof(a, c)
  PROVE  LinkInv'
  <1>1. UNCHANGED proposer_vars /\ UNCHANGED <<requests, answers, record>>
    BY DEF OnConnected, OnConnectionTimeout, OnAccept, OnEof
  <1>2. /\ server' \in [AcceptorId -> [Conn -> {"none", "backlog", "open", "dead", "freed"}]]
        /\ peer' \in [AcceptorId -> [bev : Conn, state : {"waiting", "connecting", "connected"}]]
        /\ \A b \in AcceptorId : peer'[b].bev = peer[b].bev
    <2>1. TypeOK /\ peer[a].bev \in Conn
      BY DEF LinkInv, TypeOK
    <2>2. CASE OnConnected(a)
      BY <2>1, <2>2, Zenon DEF TypeOK, OnConnected
    <2>3. CASE OnConnectionTimeout(a)
      BY <2>1, <2>3, Zenon DEF TypeOK, OnConnectionTimeout
    <2>4. ASSUME NEW c \in Conn, OnAccept(a, c) \/ OnEof(a, c)
          PROVE  /\ UNCHANGED peer
                 /\ server' \in [AcceptorId -> [Conn -> {"none", "backlog", "open", "dead", "freed"}]]
      <3>1. UNCHANGED peer /\ \E s \in {"open", "freed"} : server' = [server EXCEPT ![a][c] = s]
        BY <2>4 DEF OnAccept, OnEof
      <3>2. QED
        BY <2>1, <3>1 DEF TypeOK
    <2>5. QED
      BY <2>1, <2>2, <2>3, <2>4 DEF TypeOK
  <1>3. LaterConnections
    BY <1>2, LinkAssumption DEF LinkInv, TypeOK, LaterConnections, Conn
  <1>4. FewerRequests /\ FewerAnswers
    BY <1>1, SameRequests, SameAnswers DEF LinkInv
  <1>5. QED
    BY <1>1, <1>2, <1>3, <1>4, QuietInv

\* A connection the proposer gives up keeps the invariant.
LEMMA OnSocketErrorInv ==
  ASSUME LinkInv, NEW a \in AcceptorId, OnSocketError(a)
  PROVE  LinkInv'
  <1> DEFINE c == peer[a].bev
  <1>1. TypeOK /\ c \in Conn /\ c + 1 \in Conn /\ c \in Nat
    <2>1. TypeOK /\ c \in Conn /\ c < MaxConns
      BY DEF LinkInv, TypeOK, OnSocketError
    <2>2. MaxConns \in Nat
      BY LinkAssumption
    <2>3. QED
      BY <2>1, <2>2 DEF Conn
  <1>2. /\ UNCHANGED proposer_vars /\ UNCHANGED <<server, record>>
        /\ answers' = [answers EXCEPT ![a][c] = <<>>]
        /\ peer' = [peer EXCEPT ![a] = after_error(@)]
    BY DEF OnSocketError
  <1>3. PICK n \in 0 .. (IF server[a][c] = "none" THEN 0 ELSE Len(requests[a][c])) :
          requests' = [requests EXCEPT ![a][c] = SubSeq(@, 1, n)]
    BY Zenon DEF OnSocketError
  <1>4. requests[a][c] \in Seq(Request) /\ answers[a][c] \in Seq(Answer)
    BY <1>1 DEF TypeOK
  <1>5. LaterConnections
    <2>1. after_error(peer[a]) \in [bev : Conn, state : {"waiting", "connecting", "connected"}]
      BY <1>1 DEF after_error
    <2>2. after_error(peer[a]).bev = c + 1
      BY DEF after_error
    <2> HIDE DEF c
    <2>3. peer' \in [AcceptorId -> [bev : Conn, state : {"waiting", "connecting", "connected"}]]
      BY <1>1, <1>2, <2>1 DEF TypeOK
    <2>4. ASSUME NEW b \in AcceptorId
          PROVE  peer'[b].bev >= peer[b].bev
      <3>1. peer[b].bev \in Nat
        BY <1>1, LinkAssumption DEF TypeOK, Conn
      <3>2. CASE b = a
        BY <1>1, <1>2, <2>2, <3>1, <3>2 DEF TypeOK, c
      <3>3. CASE b # a
        BY <1>1, <1>2, <3>1, <3>3 DEF TypeOK
      <3>4. QED
        BY <3>2, <3>3
    <2>5. QED
      BY <2>3, <2>4 DEF LaterConnections
  <1> HIDE DEF c
  <1>6. FewerRequests
    <2>1. n \in 0 .. Len(requests[a][c])
      BY <1>4
    <2>2. QED
      BY <1>1, <1>3, <2>1, TruncatedRequests, Zenon
  <1>7. FewerAnswers
    <2>1. 0 \in 0 .. Len(answers[a][c]) /\ SubSeq(answers[a][c], 1, 0) = <<>>
      BY <1>4
    <2>2. answers' = [answers EXCEPT ![a][c] = SubSeq(@, 1, 0)]
      BY <1>2, <2>1, Zenon
    <2>3. QED
      BY <1>1, <2>1, <2>2, TruncatedAnswers, Zenon
  <1>8. QED
    BY <1>1, <1>2, <1>5, <1>6, <1>7, QuietInv DEF TypeOK

\* A connection the acceptor gives up keeps the invariant.
LEMMA OnErrorInv ==
  ASSUME LinkInv, NEW a \in AcceptorId, NEW c \in Conn, OnError(a, c)
  PROVE  LinkInv'
  <1>1. TypeOK /\ requests[a][c] \in Seq(Request)
    BY DEF LinkInv, TypeOK
  <1>2. /\ UNCHANGED proposer_vars /\ UNCHANGED <<peer, record>>
        /\ requests' = [requests EXCEPT ![a][c] = <<>>]
        /\ server' = [server EXCEPT ![a][c] = "dead"]
    BY DEF OnError
  <1>3. FewerRequests
    <2>1. 0 \in 0 .. Len(requests[a][c]) /\ SubSeq(requests[a][c], 1, 0) = <<>>
      BY <1>1
    <2>2. requests' = [requests EXCEPT ![a][c] = SubSeq(@, 1, 0)]
      BY <1>2, <2>1, Zenon
    <2>3. QED
      BY <1>1, <2>1, <2>2, TruncatedRequests, Zenon
  <1>4. FewerAnswers
    BY <1>1, TruncatedAnswers, Zenon DEF OnError
  <1>5. server' \in [AcceptorId -> [Conn -> {"none", "backlog", "open", "dead", "freed"}]]
    BY <1>1, <1>2 DEF TypeOK
  <1>6. QED
    BY <1>1, <1>2, <1>3, <1>4, <1>5, SamePeers, QuietInv
-----------------------------------------------------------------------------
(* The acceptors *)

\* What acceptor a writes, when it reaches the present connection, is a good answer.
LEMMA WriteAnswers ==
  ASSUME LinkInv, Grows, NEW a \in AcceptorId, NEW conns, NEW m \in Answer,
         peer[a].bev \in conns => GoodAnswer(a, m)',
         write(a, conns, m)
  PROVE  AnswersInv' /\ answers' \in [AcceptorId -> [Conn -> Seq(Answer)]]
  <1>1. answers \in [AcceptorId -> [Conn -> Seq(Answer)]] /\ peer[a].bev \in Conn
    BY DEF LinkInv, TypeOK
  <1>2. ASSUME NEW b \in AcceptorId, NEW c \in Conn
        PROVE  \/ answers'[b][c] = answers[b][c]
               \/ /\ b = a /\ peer[a].bev \in conns
                  /\ answers'[b][c] = Append(answers[b][c], m)
    BY <1>1 DEF write
  <1>3. answers' \in [AcceptorId -> [Conn -> Seq(Answer)]]
    <2>1. [c \in Conn |-> IF c \in conns /\ server[a][c] = "open" /\ c = peer[a].bev
                            THEN Append(answers[a][c], m) ELSE answers[a][c]] \in [Conn -> Seq(Answer)]
      BY <1>1
    <2>2. QED
      BY <1>1, <2>1 DEF write
  <1>4. ASSUME NEW b \in AcceptorId, NEW c \in Conn, NEW k \in 1 .. Len(answers'[b][c])
        PROVE  GoodAnswer(b, answers[b][c][k])'
    <2>1. answers[b][c] \in Seq(Answer)
      BY <1>1
    <2>2. \/ /\ k \in 1 .. Len(answers[b][c])
             /\ answers'[b][c][k] = answers[b][c][k]
          \/ /\ b = a /\ peer[a].bev \in conns
             /\ answers'[b][c][k] = m
      <3>1. CASE answers'[b][c] = answers[b][c]
        BY <3>1
      <3>2. CASE /\ b = a /\ peer[a].bev \in conns
                 /\ answers'[b][c] = Append(answers[b][c], m)
        BY <2>1, <3>2
      <3>3. QED
        BY <1>2, <3>1, <3>2
    <2>3. CASE k \in 1 .. Len(answers[b][c]) /\ answers'[b][c][k] = answers[b][c][k]
      <3>1. GoodAnswer(b, answers'[b][c][k])
        BY <2>3, Zenon DEF LinkInv, AnswersInv
      <3>2. QED
        BY <3>1, GrowsKeepAnswer
    <2>4. CASE b = a /\ peer[a].bev \in conns /\ answers'[b][c][k] = m
      BY <2>4, Zenon
    <2>5. QED
      BY <2>2, <2>3, <2>4
  <1>5. QED
    BY <1>3, <1>4, Zenon DEF AnswersInv

\* Reading a request raises the record to its ballot at most.
LEMMA AppliedRecord ==
  ASSUME NEW r \in RecordType, r.value_ballot <= r.ballot, NEW m \in Request,
         NEW s, s = IF m.type = "prepare_reqs" THEN apply_prepare(r, m) ELSE apply_accept(r, m)
  PROVE  /\ s \in RecordType
         /\ s.ballot >= r.ballot /\ s.value_ballot >= r.value_ballot
         /\ s.value_ballot <= s.ballot
         /\ s = r \/ s.ballot = m.ballot
         /\ m.type # "prepare_reqs" => \/ s = r /\ r.ballot > m.ballot
                                       \/ s.ballot = m.ballot /\ s.value_ballot = m.ballot
  <1>1. /\ r.ballot \in Nat /\ r.value_ballot \in Nat /\ m.ballot \in Nat /\ m.ballot \in Ballot
        /\ m.type # "prepare_reqs" => m.value \in Value
    BY ValueAssumption DEF RecordType, Request, Ballot
  <1>2. CASE m.type = "prepare_reqs"
    BY <1>1, <1>2 DEF apply_prepare, RecordType
  <1>3. CASE m.type # "prepare_reqs" /\ r.ballot > m.ballot
    BY <1>1, <1>3 DEF apply_accept
  <1>4. CASE m.type # "prepare_reqs" /\ ~(r.ballot > m.ballot)
    <2>1. s = [ballot |-> m.ballot, value_ballot |-> m.ballot, value |-> m.value]
      BY <1>4 DEF apply_accept
    <2>2. s \in RecordType /\ s.ballot = m.ballot /\ s.value_ballot = m.ballot
      BY <1>1, <1>4, <2>1 DEF RecordType
    <2>3. QED
      BY <1>1, <1>4, <2>2
  <1>5. QED
    BY <1>2, <1>3, <1>4

\* A request the acceptor reads and answers keeps the invariant.
LEMMA AcceptorReadInv ==
  ASSUME LinkInv, NEW a \in AcceptorId, NEW c \in Conn, AcceptorRead(a, c)
  PROVE  LinkInv'
  <1> PICK m, r : /\ m = Head(requests[a][c])
                  /\ r = IF m.type = "prepare_reqs" THEN apply_prepare(record[a], m)
                                                    ELSE apply_accept(record[a], m)
    OBVIOUS
  <1>1. /\ TypeOK /\ record[a] \in RecordType /\ record[a].value_ballot <= record[a].ballot
        /\ requests[a][c] \in Seq(Request) /\ requests[a][c] # <<>>
        /\ c \in Nat /\ peer[a].bev \in Nat /\ peer[a].bev \in Conn
    <2>1. TypeOK /\ record[a] \in RecordType /\ record[a].value_ballot <= record[a].ballot
      BY Zenon DEF LinkInv, TypeOK, RecordInv
    <2>2. requests[a][c] \in Seq(Request) /\ requests[a][c] # <<>> /\ peer[a].bev \in Conn
      BY <2>1 DEF TypeOK, AcceptorRead
    <2>3. QED
      BY <2>1, <2>2, LinkAssumption DEF Conn
  <1>2. m \in Request /\ 1 \in 1 .. Len(requests[a][c]) /\ m = requests[a][c][1]
    BY <1>1
  <1>3. /\ UNCHANGED proposer_vars /\ UNCHANGED <<peer, server>> /\ UNCHANGED inst
        /\ requests' = [requests EXCEPT ![a][c] = Tail(@)]
        /\ record' = [record EXCEPT ![a] = r]
        /\ IF m.type = "prepare_reqs" THEN write(a, {c}, prepare_ack(a, r))
                                      ELSE write(a, receivers(m, r, c), accept_ack(a, r))
    BY DEF AcceptorRead, proposer_vars
  <1>4. /\ r \in RecordType
        /\ r.ballot >= record[a].ballot /\ r.value_ballot >= record[a].value_ballot
        /\ r.value_ballot <= r.ballot
        /\ r = record[a] \/ r.ballot = m.ballot
        /\ m.type # "prepare_reqs" => \/ r = record[a] /\ record[a].ballot > m.ballot
                                      \/ r.ballot = m.ballot /\ r.value_ballot = m.ballot
    BY <1>1, <1>2, AppliedRecord, Zenon
  <1>5. /\ Own(m.ballot) /\ m.ballot <= inst.ballot /\ c <= peer[a].bev
        /\ \A k \in 1 .. Len(requests[a][c]) : m.ballot <= requests[a][c][k].ballot
        /\ \A d \in Conn : d > c =>
             \A k \in 1 .. Len(requests[a][d]) : m.ballot <= requests[a][d][k].ballot
    BY <1>2, Zenon DEF LinkInv, RequestsInv
  <1>6. FewerRequests
    <2>1. requests' \in [AcceptorId -> [Conn -> Seq(Request)]]
      BY <1>1, <1>3 DEF TypeOK
    <2>2. ASSUME NEW b \in AcceptorId, NEW d \in Conn
          PROVE  \E o \in Nat : \A k \in 1 .. Len(requests'[b][d]) :
                   /\ k + o \in 1 .. Len(requests[b][d])
                   /\ requests'[b][d][k] = requests[b][d][k + o]
      <3>1. CASE b = a /\ d = c
        <4>1. requests'[b][d] = Tail(requests[b][d])
          BY <1>1, <1>3, <3>1 DEF TypeOK
        <4>2. \A k \in 1 .. Len(requests'[b][d]) :
                /\ k + 1 \in 1 .. Len(requests[b][d])
                /\ requests'[b][d][k] = requests[b][d][k + 1]
          BY <1>1, <3>1, <4>1
        <4>3. QED
          BY <4>2, Zenon
      <3>2. CASE ~(b = a /\ d = c)
        <4>1. requests'[b][d] = requests[b][d] /\ requests[b][d] \in Seq(Request)
          BY <1>1, <1>3, <3>2, SMTT(20) DEF TypeOK
        <4>2. \A k \in 1 .. Len(requests'[b][d]) :
                /\ k + 0 \in 1 .. Len(requests[b][d])
                /\ requests'[b][d][k] = requests[b][d][k + 0]
          BY <4>1
        <4>3. QED
          BY <4>2
      <3>3. QED
        BY <3>1, <3>2, Zenon
    <2>3. QED
      BY <2>1, <2>2, Zenon DEF FewerRequests
  <1>7. Grows
    <2>1. record' \in [AcceptorId -> RecordType]
      BY <1>1, <1>3, <1>4, SMTT(20) DEF TypeOK
    <2>2. ASSUME NEW b \in AcceptorId
          PROVE  /\ record'[b].ballot >= record[b].ballot
                 /\ record'[b].value_ballot >= record[b].value_ballot
                 /\ record'[b].value_ballot <= record'[b].ballot
      <3>1. CASE b = a
        BY <1>1, <1>3, <1>4, <3>1, Zenon DEF TypeOK
      <3>2. CASE b # a
        <4>1. record'[b] = record[b]
          BY <1>1, <1>3, <3>2, SMTT(20) DEF TypeOK
        <4>2. record[b].value_ballot <= record[b].ballot
          BY DEF LinkInv, RecordInv
        <4>3. record[b].ballot \in Nat /\ record[b].value_ballot \in Nat
          BY <1>1, RecordNat
        <4>4. QED
          BY <4>1, <4>2, <4>3
      <3>3. QED
        BY <3>1, <3>2
    <2>3. QED
      BY <2>1, <2>2, Zenon DEF Grows
  <1>8. LaterConnections
    BY <1>1, <1>3, SamePeers
  <1>9. RecordInv'
    <2> SUFFICES ASSUME NEW b \in AcceptorId
                 PROVE  /\ record'[b].value_ballot <= record'[b].ballot
                        /\ Own(record'[b].ballot) =>
                             /\ record'[b].ballot <= inst'.ballot
                             /\ \A k \in 1 .. Len(requests'[b][peer'[b].bev]) :
                                  record'[b].ballot <= requests'[b][peer'[b].bev][k].ballot
      BY Zenon DEF RecordInv
    <2>1. CASE record'[b] = record[b]
      BY <1>3, <1>6, <1>8, <2>1, RecordKept, Zenon
    <2>2. CASE b = a /\ record'[a].ballot = m.ballot
      <3>1. ASSUME NEW k \in 1 .. Len(requests'[a][peer[a].bev])
            PROVE  m.ballot <= requests'[a][peer[a].bev][k].ballot
        <4>1. PICK p \in 1 .. Len(requests[a][peer[a].bev]) :
                requests'[a][peer[a].bev][k] = requests[a][peer[a].bev][p]
          BY <1>1, <1>6, Zenon DEF FewerRequests
        <4>2. c = peer[a].bev \/ peer[a].bev > c
          BY <1>1, <1>5
        <4>3. QED
          BY <1>1, <1>5, <4>1, <4>2, Zenon
      <3>2. record'[a].value_ballot <= record'[a].ballot
        BY <1>7 DEF Grows
      <3>3. QED
        BY <1>3, <1>5, <2>2, <3>1, <3>2, Zenon
    <2>3. record'[b] = IF b = a THEN r ELSE record[b]
      BY <1>1, <1>3 DEF TypeOK
    <2>4. QED
      BY <1>4, <2>1, <2>2, <2>3, Zenon
  <1>10. AnswersInv' /\ answers' \in [AcceptorId -> [Conn -> Seq(Answer)]]
    <2>1. record'[a] = r
      BY <1>1, <1>3 DEF TypeOK
    <2>2. r.ballot <= r.ballot /\ r.value_ballot <= r.value_ballot
      <3>1. r \in RecordType
        BY <1>4, Zenon
      <3>2. r.ballot \in Nat /\ r.value_ballot \in Nat
        BY <3>1, ValueAssumption DEF RecordType, Ballot
      <3>3. QED
        BY <3>2
    <2>3. CASE m.type = "prepare_reqs"
      <3>1. prepare_ack(a, r) \in Answer /\ GoodAnswer(a, prepare_ack(a, r))'
        BY <1>4, <2>1, <2>2, Zenon DEF prepare_ack, Answer, GoodAnswer
      <3>2. QED
        BY <1>3, <1>7, <2>3, <3>1, WriteAnswers
    <2>4. CASE m.type # "prepare_reqs"
      <3>1. accept_ack(a, r) \in Answer
        BY <1>4, Zenon DEF accept_ack, Answer
      <3>2. ASSUME peer[a].bev \in receivers(m, r, c), Own(r.ballot)
            PROVE  r.value_ballot = r.ballot
        <4>1. CASE r = record[a] /\ record[a].ballot > m.ballot
          <5>1. record[a].ballot \in Nat /\ m.ballot \in Nat
            BY <1>1, <1>2, RecordNat, ValueAssumption, SMTT(20) DEF Request, Ballot
          <5>2. peer[a].bev = c
            BY <3>2, <4>1, <5>1 DEF receivers
          <5>3. record[a].ballot <= m.ballot
            BY <1>2, <3>2, <4>1, <5>2, Zenon DEF LinkInv, RecordInv
          <5>4. QED
            BY <4>1, <5>1, <5>3, SMTT(20)
        <4>2. QED
          BY <1>4, <2>4, <4>1, Zenon
      <3>3. ASSUME peer[a].bev \in receivers(m, r, c)
            PROVE  GoodAnswer(a, accept_ack(a, r))'
        BY <2>1, <2>2, <3>1, <3>2, <3>3, Zenon DEF accept_ack, GoodAnswer
      <3>4. QED
        BY <1>3, <1>7, <2>4, <3>1, <3>3, WriteAnswers
    <2>5. QED
      BY <2>3, <2>4
  <1>11. QED
    BY <1>1, <1>3, <1>6, <1>7, <1>8, <1>9, <1>10, ConnectionInv, Zenon DEF TypeOK

\* Another proposer's request raises the record to a ballot that is not our own.
LEMMA OthersRecord ==
  ASSUME LinkInv, NEW a \in AcceptorId, NEW b \in OtherBallots, NEW r \in RecordType,
         r.ballot = b, b >= record[a].ballot,
         r.value_ballot >= record[a].value_ballot, r.value_ballot <= b,
         record' = [record EXCEPT ![a] = r],
         UNCHANGED proposer_vars, UNCHANGED <<peer, requests>>
  PROVE  Grows /\ RecordInv' /\ ~Own(b)
  <1>1. TypeOK /\ record'[a] = r /\ \A d \in AcceptorId : d # a => record'[d] = record[d]
    BY DEF LinkInv, TypeOK
  <1>2. ~Own(b)
    BY LinkAssumption DEF Own
  <1>3. Grows
    <2>1. record' \in [AcceptorId -> RecordType]
      BY <1>1 DEF TypeOK
    <2>2. ASSUME NEW d \in AcceptorId, d # a
          PROVE  /\ record'[d].ballot >= record[d].ballot
                 /\ record'[d].value_ballot >= record[d].value_ballot
                 /\ record'[d].value_ballot <= record'[d].ballot
      <3>1. record[d].value_ballot <= record[d].ballot
        BY DEF LinkInv, RecordInv
      <3>2. record[d].ballot \in Nat /\ record[d].value_ballot \in Nat
        BY <1>1, RecordNat
      <3>3. QED
        BY <1>1, <2>2, <3>1, <3>2
    <2>3. QED
      BY <1>1, <2>1, <2>2 DEF Grows
  <1>4. RecordInv'
    <2> SUFFICES ASSUME NEW d \in AcceptorId
                 PROVE  /\ record'[d].value_ballot <= record'[d].ballot
                        /\ Own(record'[d].ballot) =>
                             /\ record'[d].ballot <= inst'.ballot
                             /\ \A k \in 1 .. Len(requests'[d][peer'[d].bev]) :
                                  record'[d].ballot <= requests'[d][peer'[d].bev][k].ballot
      BY Zenon DEF RecordInv
    <2>1. UNCHANGED inst /\ LaterConnections /\ FewerRequests
      BY <1>1, SamePeers, SameRequests DEF proposer_vars
    <2>2. CASE d = a
      BY <1>1, <1>2, <2>2, Zenon
    <2>3. CASE d # a
      BY <1>1, <2>1, <2>3, RecordKept, Zenon
    <2>4. QED
      BY <2>2, <2>3, Zenon
  <1>5. QED
    BY <1>2, <1>3, <1>4

\* Another proposer's prepare keeps the invariant.
LEMMA OtherPrepareInv ==
  ASSUME LinkInv, NEW a \in AcceptorId, NEW b \in OtherBallots, OtherPrepare(a, b)
  PROVE  LinkInv'
  <1> DEFINE r == [record[a] EXCEPT !.ballot = b]
  <1>1. /\ TypeOK /\ record[a] \in RecordType /\ b \in Ballot
        /\ record[a].value_ballot <= record[a].ballot
    BY LinkAssumption DEF LinkInv, TypeOK, RecordInv
  <1>2. /\ record[a].ballot \in Nat /\ record[a].value_ballot \in Nat /\ b \in Nat
        /\ record[a].ballot < b
    BY <1>1, ValueAssumption DEF RecordType, Ballot, OtherPrepare
  <1>3. r \in RecordType /\ r.ballot = b /\ r.value_ballot = record[a].value_ballot
    BY <1>1 DEF RecordType
  <1>4. /\ UNCHANGED proposer_vars /\ UNCHANGED <<peer, server, requests, answers>>
        /\ record' = [record EXCEPT ![a] = r]
    BY DEF OtherPrepare
  <1> HIDE DEF r
  <1>5. Grows /\ RecordInv'
    <2>1. /\ b >= record[a].ballot /\ r.value_ballot <= b
          /\ r.value_ballot >= record[a].value_ballot
      BY <1>1, <1>2, <1>3
    <2>2. QED
      BY <1>3, <1>4, <2>1, OthersRecord, Zenon
  <1>6. AnswersInv'
    <2>1. ASSUME NEW d \in AcceptorId, NEW c \in Conn, NEW k \in 1 .. Len(answers'[d][c])
          PROVE  GoodAnswer(d, answers[d][c][k])'
      <3>1. GoodAnswer(d, answers'[d][c][k])
        BY <1>4, Zenon DEF LinkInv, AnswersInv
      <3>2. QED
        BY <1>5, <3>1, GrowsKeepAnswer
    <2>2. QED
      BY <2>1, Zenon DEF AnswersInv
  <1>7. QED
    BY <1>1, <1>4, <1>5, <1>6, SamePeers, SameRequests, ConnectionInv, SMTT(20) DEF TypeOK

\* Another proposer's accept keeps the invariant.
LEMMA OtherAcceptInv ==
  ASSUME LinkInv, NEW a \in AcceptorId, NEW b \in OtherBallots, NEW v \in Value,
         OtherAccept(a, [ballot |-> b, value |-> v])
  PROVE  LinkInv'
  <1> PICK r : r = [ballot |-> b, value_ballot |-> b, value |-> v]
    BY Zenon
  <1>1. TypeOK /\ record[a] \in RecordType /\ b \in Ballot /\ b \in Nat
    BY LinkAssumption, ValueAssumption DEF LinkInv, TypeOK, Ballot
  <1>2. r \in RecordType /\ r.ballot = b /\ r.value_ballot = b
    BY <1>1, Zenon DEF RecordType
  <1>3. record[a].ballot = b /\ record[a].value_ballot < b
    BY DEF OtherAccept
  <1>4. /\ UNCHANGED proposer_vars /\ UNCHANGED <<peer, server, requests>>
        /\ record' = [record EXCEPT ![a] = r]
        /\ write(a, Conn, accept_ack(a, r))
    <2>1. apply_accept(record[a], [ballot |-> b, value |-> v]) = r
      <3>1. ~(record[a].ballot > b)
        BY <1>1, <1>3
      <3>2. QED
        BY <3>1 DEF apply_accept
    <2>2. /\ UNCHANGED proposer_vars /\ UNCHANGED <<peer, server, requests>>
          /\ record' = [record EXCEPT ![a] = r]
      BY <2>1, Zenon DEF OtherAccept
    <2>3. record'[a] = r
      BY <1>1, <2>2 DEF TypeOK
    <2>4. QED
      BY <2>2, <2>3, Zenon DEF OtherAccept
  <1>5. Grows /\ RecordInv' /\ ~Own(b)
    <2>1. /\ record[a].value_ballot \in Nat /\ b >= record[a].ballot /\ r.value_ballot <= b
          /\ r.value_ballot >= record[a].value_ballot
      BY <1>1, <1>2, <1>3, RecordNat, SMTT(20)
    <2>2. QED
      BY <1>2, <1>4, <2>1, OthersRecord, Zenon
  <1>6. accept_ack(a, r) \in Answer /\ GoodAnswer(a, accept_ack(a, r))'
    <2>1. record'[a] = r /\ b <= b
      BY <1>1, <1>4 DEF TypeOK
    <2>2. accept_ack(a, r) \in Answer
      BY <1>2 DEF accept_ack, Answer
    <2>3. QED
      BY <1>2, <2>1, <2>2 DEF accept_ack, GoodAnswer
  <1>7. AnswersInv' /\ answers' \in [AcceptorId -> [Conn -> Seq(Answer)]]
    BY <1>4, <1>5, <1>6, WriteAnswers
  <1>8. QED
    BY <1>1, <1>4, <1>5, <1>7, SamePeers, SameRequests, ConnectionInv, Zenon DEF TypeOK
-----------------------------------------------------------------------------
\* The invariant holds at the start.
LEMMA InitInv ==
  Init => LinkInv
  <1> SUFFICES ASSUME Init PROVE LinkInv
    OBVIOUS
  <1>1. TypeOK
    <2>1. 1 \in Conn
      BY LinkAssumption DEF Conn
    <2>2. 0 \in Ballot /\ 0 \in 0 .. MaxAge
      BY ValueAssumption, TimeoutsAssumption DEF Ballot, MaxAge
    <2>3. inst \in InstanceType
      BY <2>2, AcceptorsAssumption, Zenon DEF Init, InstanceType, QuorumType
    <2>4. /\ peer \in [AcceptorId -> [bev : Conn, state : {"waiting", "connecting", "connected"}]]
          /\ record \in [AcceptorId -> RecordType]
      BY <2>1, <2>2 DEF Init, make_peer, RecordType
    <2>5. /\ requests \in [AcceptorId -> [Conn -> Seq(Request)]]
          /\ answers \in [AcceptorId -> [Conn -> Seq(Answer)]]
          /\ values \in Seq(Value)
      BY DEF Init
    <2>6. QED
      BY <2>2, <2>3, <2>4, <2>5, Zenon DEF Init, TypeOK
  <1>2. InstInv /\ CountedAnswered
    BY DEF Init, InstInv, CountedAnswered
  <1>3. RequestsInv /\ AnswersInv
    <2>1. \A a \in AcceptorId : \A c \in Conn :
            /\ Len(requests[a][c]) = 0 /\ Len(answers[a][c]) = 0
      BY DEF Init
    <2>2. \A a \in AcceptorId : \A c \in Conn :
            1 .. Len(requests[a][c]) = {} /\ 1 .. Len(answers[a][c]) = {}
      BY <2>1
    <2>3. QED
      BY <2>2, Zenon DEF RequestsInv, AnswersInv
  <1>4. RecordInv
    <2>1. \A a \in AcceptorId : record[a].ballot = 0 /\ record[a].value_ballot = 0
      BY DEF Init
    <2>2. 0 <= 0 /\ ~Own(0)
      BY DEF Own
    <2>3. QED
      BY <2>1, <2>2, Zenon DEF RecordInv
  <1>5. QED
    BY <1>1, <1>2, <1>3, <1>4 DEF LinkInv

\* Every step keeps the invariant.
LEMMA NextInv ==
  LinkInv /\ [Next]_vars => LinkInv'
  <1> SUFFICES ASSUME LinkInv, [Next]_vars PROVE LinkInv'
    OBVIOUS
  <1>1. ASSUME NEW v \in Value, Submit(<<v>>) PROVE LinkInv'
    <2>1. <<v>> \in Seq(Value)
      OBVIOUS
    <2>2. QED
      BY <1>1, <2>1, SubmitInv, Zenon
  <1>2. CASE Submit(<<>>)
    <2>1. <<>> \in Seq(Value)
      OBVIOUS
    <2>2. QED
      BY <1>2, <2>1, SubmitInv, Zenon
  <1>3. CASE Timer
    BY <1>3, TimerInv
  <1>4. ASSUME NEW a \in AcceptorId, ProposerRead(a) PROVE LinkInv'
    BY <1>4, ProposerReadInv
  <1>5. ASSUME NEW a \in AcceptorId, OnSocketError(a) PROVE LinkInv'
    BY <1>5, OnSocketErrorInv
  <1>6. ASSUME NEW a \in AcceptorId, OnConnected(a) \/ OnConnectionTimeout(a) PROVE LinkInv'
    BY <1>6, HandshakeInv
  <1>7. ASSUME NEW a \in AcceptorId, NEW c \in Conn, OnAccept(a, c) \/ OnEof(a, c) PROVE LinkInv'
    BY <1>7, HandshakeInv
  <1>8. ASSUME NEW a \in AcceptorId, NEW c \in Conn, OnError(a, c) PROVE LinkInv'
    BY <1>8, OnErrorInv
  <1>9. ASSUME NEW a \in AcceptorId, NEW c \in Conn, AcceptorRead(a, c) PROVE LinkInv'
    BY <1>9, AcceptorReadInv
  <1>10. ASSUME NEW a \in AcceptorId, NEW b \in OtherBallots, OtherPrepare(a, b) PROVE LinkInv'
    BY <1>10, OtherPrepareInv
  <1>11. ASSUME NEW a \in AcceptorId, NEW b \in OtherBallots, NEW v \in Value,
                OtherAccept(a, [ballot |-> b, value |-> v])
         PROVE  LinkInv'
    BY <1>11, OtherAcceptInv, Zenon
  <1>12. CASE UNCHANGED vars
    <2>1. UNCHANGED proposer_vars /\ UNCHANGED <<peer, server, requests, answers, record>>
      BY <1>12 DEF vars, proposer_vars
    <2>2. QED
      BY <2>1, SamePeers, SameRequests, SameAnswers, QuietInv DEF LinkInv, TypeOK
  <1>13. QED
    BY <1>1, <1>2, <1>3, <1>4, <1>5, <1>6, <1>7, <1>8, <1>9, <1>10, <1>11, <1>12, Zenon DEF Next

(***************************************************************************)
(* The inductive invariant of a proposer and its connections.              *)
(***************************************************************************)
THEOREM LinkInvariant ==
  Spec => []LinkInv
  BY InitInv, NextInv, PTL DEF Spec

(***************************************************************************)
(* assert(ack->value_ballot == inst->ballot) of                            *)
(* proposer_receive_accept_ack never fails, whatever connections break and *)
(* whatever other proposers do.                                            *)
(***************************************************************************)
THEOREM AssertionNeverFails ==
  Spec => []AssertionHolds
  <1>1. LinkInv => AssertionHolds
    BY DEF LinkInv, InstInv, AssertionHolds
  <1>2. QED
    BY <1>1, LinkInvariant, PTL

(***************************************************************************)
(* The acceptors that quorum_add has counted have promised, or accepted,   *)
(* the ballot of the instance.                                             *)
(***************************************************************************)
THEOREM CountedHaveAnswered ==
  Spec => []CountedAnswered
  <1>1. LinkInv => CountedAnswered
    BY DEF LinkInv
  <1>2. QED
    BY <1>1, LinkInvariant, PTL

\* Types: every message that is read is one that is sent.
THEOREM LinkTypes ==
  Spec => []TypeOK
  <1>1. LinkInv => TypeOK
    BY DEF LinkInv
  <1>2. QED
    BY <1>1, LinkInvariant, PTL
=============================================================================
