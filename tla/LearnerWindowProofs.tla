------------------------ MODULE LearnerWindowProofs ------------------------
(***************************************************************************)
(* Proofs about LearnerWindow, for every number of acceptors, every window *)
(* and every number of instances and ballots.                              *)
(***************************************************************************)
EXTENDS LearnerWindow, QuorumTheorems

\* Two iids of one window with the same slot are the same iid.
LEMMA SlotUnique ==
  ASSUME NEW c \in Nat,
         NEW i \in c .. c + learner_instances - 1,
         NEW j \in c .. c + learner_instances - 1,
         slot(i) = slot(j)
  PROVE  i = j
  <1> DEFINE n == learner_instances
  <1> DEFINE qi == i \div n
  <1> DEFINE qj == j \div n
  <1>1. n \in Nat /\ n > 0 /\ i \in Nat /\ j \in Nat
    BY LearnerAssumption
  <1>2. qi \in Int /\ i = n * qi + (i % n)
    BY <1>1
  <1>3. qj \in Int /\ j = n * qj + (j % n)
    BY <1>1
  <1>4. i % n = j % n /\ i % n \in Nat
    BY <1>1 DEF slot
  <1> HIDE DEF n, qi, qj
  <1>5. i - j = n * (qi - qj)
    BY <1>1, <1>2, <1>3, <1>4
  <1>6. i - j < n /\ j - i < n
    BY <1>1 DEF n
  <1>7. qi = qj
    <2>1. CASE qi - qj >= 1
      <3>1. n * (qi - qj) >= n
        BY <1>1, <1>2, <1>3, <2>1
      <3>2. QED
        BY <1>1, <1>5, <1>6, <3>1
    <2>2. CASE qj - qi >= 1
      <3>1. n * (qj - qi) >= n
        BY <1>1, <1>2, <1>3, <2>2
      <3>2. j - i = n * (qj - qi)
        BY <1>1, <1>2, <1>3, <1>5
      <3>3. QED
        BY <1>1, <1>6, <3>1, <3>2
    <2>3. QED
      BY <1>2, <1>3, <2>1, <2>2
  <1>8. QED
    BY <1>2, <1>3, <1>4, <1>7

\* Every iid has a slot.
LEMMA SlotType ==
  ASSUME NEW i \in Nat
  PROVE  slot(i) \in Slot
  BY LearnerAssumption DEF slot, Slot
-----------------------------------------------------------------------------
(* One instance *)

\* The acceptors whose stored ack has ballot b.
Holders(inst, b) ==
  {a \in AcceptorId : inst.acks[a] # NULL /\ inst.acks[a].ballot = b}

\* The acks are those of the instance, each in the place of its acceptor.
OwnAcks(inst) ==
  \A a \in AcceptorId : inst.acks[a] # NULL =>
    inst.acks[a].iid = inst.iid /\ inst.acks[a].acceptor_id = a

\* What holds of an instance between two calls.
InstInv(inst) ==
  /\ inst \in InstanceType
  /\ OwnAcks(inst)
  /\ inst.final_value = NULL => \A b \in Ballots : Holders(inst, b) \notin Majority
  /\ inst.final_value # NULL =>
       /\ inst.final_value.iid = inst.iid
       /\ Holders(inst, inst.final_value.ballot) \in Majority

\* A set of acceptors is a majority when it has paxos_quorum members.
LEMMA MajoritySize ==
  ASSUME NEW S \in SUBSET AcceptorId
  PROVE  Cardinality(S) >= paxos_quorum(acceptors) <=> S \in Majority
  <1>1. Cardinality(S) \in Nat
    BY AcceptorIdFinite, FS_Subset, FS_CardinalityType
  <1>2. QED
    BY <1>1, AcceptorsAssumption DEF Majority, paxos_quorum

\* instance_has_quorum, in terms of majorities.
LEMMA QuorumMeaning ==
  ASSUME NEW i
  PROVE  instance_has_quorum(i) <=>
           i.final_value # NULL \/ Holders(i, i.last_update_ballot) \in Majority
  <1>1. Agreeing(i) = Holders(i, i.last_update_ballot)
    BY DEF Agreeing, Holders
  <1>2. Agreeing(i) \in SUBSET AcceptorId
    BY DEF Agreeing
  <1>3. QED
    BY <1>1, <1>2, MajoritySize DEF instance_has_quorum

\* Between two calls, a quorum is there exactly when the instance is closed.
LEMMA QuorumIsClosed ==
  ASSUME NEW i, InstInv(i)
  PROVE  /\ instance_has_quorum(i) <=> i.final_value # NULL
         /\ instance_close(i) = i
  <1>1. CASE i.final_value # NULL
    BY <1>1 DEF instance_has_quorum, instance_close
  <1>2. CASE i.final_value = NULL
    <2>1. Holders(i, i.last_update_ballot) \notin Majority
      <3>1. CASE i.last_update_ballot \in Ballots
        BY <1>2, <3>1 DEF InstInv
      <3>2. CASE i.last_update_ballot \notin Ballots
        <4>1. Holders(i, i.last_update_ballot) = {}
          BY <3>2 DEF Holders, InstInv, InstanceType, Ack
        <4>2. QED
          BY <4>1, MajorityNonEmpty
      <3>3. QED
        BY <3>1, <3>2
    <2>2. ~instance_has_quorum(i)
      BY <1>2, <2>1, QuorumMeaning
    <2>3. QED
      BY <1>2, <2>2 DEF instance_close
  <1>3. QED
    BY <1>1, <1>2

\* Closing an instance in which only the last ballot may have a quorum.
LEMMA CloseKeeps ==
  ASSUME NEW i \in InstanceType, OwnAcks(i), i.final_value = NULL,
         \A b \in Ballots : b # i.last_update_ballot => Holders(i, b) \notin Majority
  PROVE  InstInv(instance_close(i)) /\ instance_close(i).iid = i.iid
  <1> DEFINE A == Agreeing(i)
  <1>1. A = Holders(i, i.last_update_ballot) /\ A \in SUBSET AcceptorId
    BY DEF Agreeing, Holders
  <1>2. CASE A \notin Majority
    <2>1. instance_close(i) = i
      BY <1>1, <1>2, QuorumMeaning DEF instance_close
    <2>2. QED
      BY <1>1, <1>2, <2>1 DEF InstInv
  <1>3. CASE A \in Majority
    <2>1. \E a \in A : \A b \in A : b <= a
      <3>1. A # {} /\ A \in SUBSET (0 .. acceptors - 1) /\ acceptors \in Nat
        BY <1>1, <1>3, MajorityNonEmpty, AcceptorsAssumption DEF AcceptorId
      <3> HIDE DEF A
      <3>2. QED
        BY <3>1, LargestExists, Zenon
    <2> DEFINE top == CHOOSE a \in A : \A b \in A : b <= a
    <2>2. top \in A
      BY <2>1
    <2>3. instance_close(i) = [i EXCEPT !.final_value = i.acks[top]]
      BY <1>1, <1>3, QuorumMeaning DEF instance_close
    <2> HIDE DEF top
    <2>4. /\ top \in AcceptorId
          /\ i.acks[top] # NULL
          /\ i.acks[top].ballot = i.last_update_ballot
      BY <2>2 DEF Agreeing
    <2> DEFINE c == instance_close(i)
    <2>5. c.final_value = i.acks[top] /\ c.acks = i.acks /\ c.iid = i.iid
      BY <2>3 DEF InstanceType
    <2>6. c \in InstanceType
      BY <2>3, <2>4 DEF InstanceType
    <2>7. OwnAcks(c)
      BY <2>5 DEF OwnAcks
    <2>8. Holders(c, c.final_value.ballot) = A
      BY <1>1, <2>4, <2>5 DEF Holders
    <2>9. c.final_value # NULL /\ c.final_value.iid = c.iid
      BY <2>4, <2>5 DEF OwnAcks
    <2> HIDE DEF c
    <2>10. QED
      BY <1>3, <2>5, <2>6, <2>7, <2>8, <2>9 DEF InstInv, c
  <1>4. QED
    BY <1>2, <1>3

\* A superset of a majority is a majority.
LEMMA MajorityGrows ==
  ASSUME NEW S \in Majority, NEW T \in SUBSET AcceptorId, S \subseteq T
  PROVE  T \in Majority
  <1>1. IsFiniteSet(T)
    BY AcceptorIdFinite, FS_Subset
  <1>2. Cardinality(S) <= Cardinality(T) /\ IsFiniteSet(S)
    BY <1>1, FS_Subset
  <1>3. Cardinality(S) \in Nat /\ Cardinality(T) \in Nat
    BY <1>1, <1>2, FS_CardinalityType
  <1>4. 2 * Cardinality(S) > acceptors
    BY DEF Majority
  <1>5. QED
    BY <1>2, <1>3, <1>4, AcceptorsAssumption DEF Majority

\* An ack of the instance that its slot holds, or of any instance when the slot is
\* empty, keeps the instance as it should be.
LEMMA UpdateKeeps ==
  ASSUME NEW i, InstInv(i), NEW m \in Ack, i.iid = 0 \/ i.iid = m.iid
  PROVE  /\ InstInv(instance_close(learner_update_instance(i, m.acceptor_id, m)))
         /\ instance_close(learner_update_instance(i, m.acceptor_id, m)).iid = m.iid
  <1> DEFINE named == IF i.iid = 0
                        THEN [i EXCEPT !.iid = m.iid, !.last_update_ballot = m.ballot]
                        ELSE i
  <1> DEFINE a == m.acceptor_id
  <1>1. m.iid \in 1 .. MaxIid /\ a \in AcceptorId /\ m.ballot \in Ballots /\ MaxIid \in Nat
    BY WindowAssumption DEF Ack
  <1>2. InstInv(named) /\ named.iid = m.iid
    <2>1. CASE i.iid = 0
      <3>1. i \in InstanceType /\ named = [i EXCEPT !.iid = m.iid, !.last_update_ballot = m.ballot]
        BY <2>1 DEF InstInv
      <3>2. \A b \in AcceptorId : i.acks[b] = NULL
        BY <2>1, <3>1 DEF InstInv, OwnAcks, InstanceType, Ack
      <3>3. i.final_value = NULL
        BY <2>1, <3>1 DEF InstInv, InstanceType, Ack
      <3>4. named \in InstanceType
        <4>1. m.iid \in 0 .. MaxIid /\ m.ballot \in Ballots \cup {0}
          BY <1>1
        <4> HIDE DEF named
        <4>2. QED
          BY <3>1, <4>1, Zenon DEF InstanceType
      <3>5. named.acks = i.acks /\ named.final_value = NULL /\ named.iid = m.iid
        BY <3>1, <3>3 DEF InstanceType
      <3>6. \A b \in Ballots : Holders(named, b) = {}
        BY <3>2, <3>5 DEF Holders
      <3>7. QED
        BY <3>2, <3>4, <3>5, <3>6, MajorityNonEmpty DEF InstInv, OwnAcks
    <2>2. CASE i.iid # 0
      BY <2>2
    <2>3. QED
      BY <2>1, <2>2
  <1> HIDE DEF named
  <1>3. instance_close(named) = named
    BY <1>2, QuorumIsClosed
  <1> DEFINE kept == \/ named.final_value # NULL
                     \/ named.acks[a] # NULL /\ named.acks[a].ballot >= m.ballot
  <1>4. learner_update_instance(i, a, m) = IF kept THEN named ELSE instance_add_accept(named, a, m)
    BY <1>3, Zenon DEF learner_update_instance, named
  <1>5. CASE kept
    BY <1>2, <1>3, <1>4, <1>5
  <1>6. CASE ~kept
    <2> DEFINE u == instance_add_accept(named, a, m)
    <2>1. named \in InstanceType /\ OwnAcks(named) /\ named.final_value = NULL
      BY <1>2, <1>6 DEF InstInv
    <2>2. /\ u \in InstanceType
          /\ u.iid = m.iid /\ u.final_value = NULL /\ u.last_update_ballot = m.ballot
          /\ u.acks = [named.acks EXCEPT ![a] = m]
      BY <1>1, <1>2, <2>1, Zenon DEF instance_add_accept, InstanceType
    <2>3. named.acks \in [AcceptorId -> Ack \cup {NULL}]
      BY <2>1 DEF InstanceType
    <2> HIDE DEF u
    <2>4. OwnAcks(u)
      BY <1>1, <1>2, <2>1, <2>2, <2>3 DEF OwnAcks
    <2>5. ASSUME NEW b \in Ballots, b # m.ballot PROVE Holders(u, b) \notin Majority
      <3>1. Holders(u, b) \subseteq Holders(named, b)
        BY <1>1, <2>2, <2>3, <2>5 DEF Holders
      <3>2. Holders(named, b) \notin Majority /\ Holders(named, b) \in SUBSET AcceptorId
        BY <1>2, <2>1 DEF InstInv, Holders
      <3>3. QED
        BY <3>1, <3>2, MajorityGrows
    <2>6. InstInv(instance_close(u)) /\ instance_close(u).iid = m.iid
      BY <2>2, <2>4, <2>5, CloseKeeps
    <2>7. QED
      BY <1>4, <1>6, <2>6 DEF u
  <1>7. QED
    BY <1>5, <1>6
-----------------------------------------------------------------------------
(* The window *)

\* What holds of the slots between two calls, when the window begins at cur.
WindowInv(cur, insts) ==
  /\ insts \in [Slot -> InstanceType]
  /\ \A s \in Slot : InstInv(insts[s])
  /\ \A s \in Slot : insts[s].iid # 0 =>
       insts[s].iid \in cur .. cur + learner_instances - 1 /\ slot(insts[s].iid) = s

\* An instance of the window that has a quorum is the one its slot is for.
LEMMA QuorumInPlace ==
  ASSUME NEW cur \in Nat, NEW insts, WindowInv(cur, insts),
         NEW j \in 0 .. learner_instances - 1,
         instance_has_quorum(insts[slot(cur + j)])
  PROVE  /\ slot(cur + j) \in Slot
         /\ insts[slot(cur + j)].iid = cur + j
         /\ insts[slot(cur + j)].final_value \in Ack
         /\ insts[slot(cur + j)].final_value.iid = cur + j
         /\ cur + j \in 1 .. MaxIid
  <1> DEFINE s == slot(cur + j)
  <1>1. cur + j \in Nat /\ cur + j \in cur .. cur + learner_instances - 1
    BY LearnerAssumption
  <1>2. s \in Slot
    BY <1>1, SlotType
  <1> HIDE DEF s
  <1>3. InstInv(insts[s]) /\ insts[s] \in InstanceType
    BY <1>2 DEF WindowInv
  <1>4. insts[s].final_value # NULL
    BY <1>3, QuorumIsClosed DEF s
  <1>5. insts[s].final_value \in Ack /\ insts[s].final_value.iid = insts[s].iid
    BY <1>3, <1>4 DEF InstInv, InstanceType
  <1>6. insts[s].iid \in 1 .. MaxIid
    BY <1>5 DEF Ack
  <1>7. insts[s].iid \in cur .. cur + learner_instances - 1 /\ slot(insts[s].iid) = s
    BY <1>2, <1>6 DEF WindowInv
  <1>8. insts[s].iid = cur + j
    BY <1>1, <1>7, SlotUnique DEF s
  <1>9. QED
    BY <1>2, <1>5, <1>6, <1>8 DEF s

\* learner_receive_accept keeps the window as it should be.
LEMMA ReceiveKeeps ==
  ASSUME NEW cur \in Nat, NEW insts, WindowInv(cur, insts),
         NEW m \in Ack, in_window(cur, m.iid)
  PROVE  WindowInv(cur, [insts EXCEPT ![slot(m.iid)] =
           instance_close(learner_update_instance(insts[slot(m.iid)], m.acceptor_id, m))])
  <1> DEFINE s == slot(m.iid)
  <1> DEFINE i == insts[s]
  <1> DEFINE c == instance_close(learner_update_instance(i, m.acceptor_id, m))
  <1>1. m.iid \in Nat /\ m.iid \in cur .. cur + learner_instances - 1
    BY WindowAssumption, LearnerAssumption DEF Ack, in_window
  <1>2. s \in Slot
    BY <1>1, SlotType
  <1>3. i.iid = 0 \/ i.iid = m.iid
    BY <1>1, <1>2, SlotUnique DEF WindowInv
  <1>4. InstInv(i)
    BY <1>2 DEF WindowInv
  <1>5. InstInv(c) /\ c.iid = m.iid
    BY <1>3, <1>4, UpdateKeeps
  <1>6. c \in InstanceType
    BY <1>5 DEF InstInv
  <1>7. slot(c.iid) = s /\ c.iid \in cur .. cur + learner_instances - 1
    BY <1>1, <1>5
  <1> HIDE DEF s, c
  <1>8. WindowInv(cur, [insts EXCEPT ![s] = c])
    BY <1>2, <1>5, <1>6, <1>7 DEF WindowInv
  <1>9. QED
    BY <1>8 DEF s, c

\* The loop of learner_deliver_next_closed stops: deliver_count is what it says.
LEMMA CountExists ==
  ASSUME NEW cur \in Nat, NEW insts
  PROVE  /\ deliver_count(cur, insts) \in 0 .. learner_instances
         /\ \A j \in 0 .. deliver_count(cur, insts) - 1 :
              instance_has_quorum(insts[slot(cur + j)])
         /\ deliver_count(cur, insts) < learner_instances =>
              ~instance_has_quorum(insts[slot(cur + deliver_count(cur, insts))])
  <1> DEFINE n == learner_instances
  <1> DEFINE full(j) == instance_has_quorum(insts[slot(cur + j)])
  <1> DEFINE Stops(k) == /\ \A j \in 0 .. k - 1 : full(j)
                         /\ k < n => ~full(k)
  <1> HIDE DEF full
  <1>1. n \in Nat
    BY LearnerAssumption
  <1>2. \E k \in 0 .. n : Stops(k)
    <2> DEFINE S == {j \in 0 .. n - 1 : ~full(j)}
    <2>1. CASE S = {}
      <3>1. Stops(n) /\ n \in 0 .. n
        BY <1>1, <2>1
      <3>2. QED
        BY <3>1
    <2>2. CASE S # {}
      <3>1. S \in SUBSET Nat
        BY <1>1
      <3>2. PICK k \in S : \A j \in S : k <= j
        <4> HIDE DEF S
        <4>1. QED
          BY <2>2, <3>1, SmallestExists
      <3>3. Stops(k) /\ k \in 0 .. n
        BY <1>1, <3>2
      <3>4. QED
        BY <3>3
    <2>3. QED
      BY <2>1, <2>2
  <1>3. deliver_count(cur, insts) = CHOOSE k \in 0 .. n : Stops(k)
    BY DEF deliver_count, full
  <1> HIDE DEF Stops
  <1>4. Stops(deliver_count(cur, insts)) /\ deliver_count(cur, insts) \in 0 .. n
    BY <1>2, <1>3
  <1>5. QED
    BY <1>4 DEF Stops, full

\* A cleared slot is as instance_new made it.
LEMMA ClearedInv ==
  ASSUME NEW i \in InstanceType
  PROVE  /\ instance_clear(i) = new_instance
         /\ InstInv(new_instance)
         /\ new_instance.iid = 0
         /\ new_instance.final_value = NULL
  <1>1. instance_clear(i) = new_instance
    <2>1. instance_clear(i) \in InstanceType
      <3>1. /\ 0 \in 0 .. MaxIid /\ 0 \in Ballots \cup {0} /\ NULL \in Ack \cup {NULL}
            /\ [a \in AcceptorId |-> NULL] \in [AcceptorId -> Ack \cup {NULL}]
        BY WindowAssumption
      <3>2. QED
        BY <3>1, Zenon DEF instance_clear, InstanceType
    <2>2. /\ instance_clear(i).iid = 0
          /\ instance_clear(i).last_update_ballot = 0
          /\ instance_clear(i).acks = [a \in AcceptorId |-> NULL]
          /\ instance_clear(i).final_value = NULL
      BY DEF instance_clear, InstanceType
    <2> DEFINE c == instance_clear(i)
    <2> HIDE DEF c
    <2>3. c = [iid                |-> c.iid,
               last_update_ballot |-> c.last_update_ballot,
               acks               |-> c.acks,
               final_value        |-> c.final_value]
      BY <2>1 DEF c, InstanceType
    <2>4. QED
      BY <2>2, <2>3 DEF c, new_instance
  <1>2. /\ new_instance.iid = 0 /\ new_instance.final_value = NULL
        /\ \A a \in AcceptorId : new_instance.acks[a] = NULL
    BY DEF new_instance
  <1>3. new_instance \in InstanceType
    BY WindowAssumption DEF new_instance, InstanceType
  <1>4. \A b : Holders(new_instance, b) = {}
    BY <1>2 DEF Holders
  <1>5. QED
    BY <1>1, <1>2, <1>3, <1>4, MajorityNonEmpty DEF InstInv, OwnAcks

\* The slots after k deliveries.
Moved(cur, insts, k) ==
  [s \in Slot |->
     IF \E j \in 0 .. k - 1 : s = slot(cur + j) THEN instance_clear(insts[s]) ELSE insts[s]]

\* The window after k deliveries: none of the instances that are left is one that
\* was delivered, and the closed ones are behind a hole.
LEMMA MoveKeeps ==
  ASSUME NEW cur \in Nat, NEW insts, WindowInv(cur, insts),
         NEW k \in 0 .. learner_instances,
         k < learner_instances => ~instance_has_quorum(insts[slot(cur + k)])
  PROVE  /\ WindowInv(cur + k, Moved(cur, insts, k))
         /\ \A s \in Slot : Moved(cur, insts, k)[s].final_value # NULL =>
              /\ Moved(cur, insts, k)[s] = insts[s]
              /\ Moved(cur, insts, k)[s].iid > cur + k
  <1> DEFINE moved == Moved(cur, insts, k)
  <1>1. learner_instances \in Nat /\ k \in Nat
    BY LearnerAssumption
  <1>2. ASSUME NEW s \in Slot
        PROVE  /\ moved[s] \in InstanceType
               /\ InstInv(moved[s])
               /\ moved[s].iid # 0 =>
                    /\ moved[s].iid \in cur + k .. cur + k + learner_instances - 1
                    /\ slot(moved[s].iid) = s
               /\ moved[s].final_value # NULL =>
                    moved[s] = insts[s] /\ moved[s].iid > cur + k
    <2> DEFINE i == insts[s]
    <2>1. i \in InstanceType /\ InstInv(i)
      BY DEF WindowInv
    <2>2. CASE \E j \in 0 .. k - 1 : s = slot(cur + j)
      <3>1. moved[s] = new_instance
        BY <2>1, <2>2, ClearedInv DEF Moved
      <3>2. QED
        BY <2>1, <3>1, ClearedInv DEF InstInv
    <2>3. CASE ~\E j \in 0 .. k - 1 : s = slot(cur + j)
      <3>1. moved[s] = i
        BY <2>3 DEF Moved
      <3>2. ASSUME i.iid # 0
            PROVE  i.iid \in cur + k .. cur + learner_instances - 1 /\ slot(i.iid) = s
        <4>1. i.iid \in cur .. cur + learner_instances - 1 /\ slot(i.iid) = s
          BY <3>2 DEF WindowInv
        <4>2. ~(i.iid < cur + k)
          <5> SUFFICES ASSUME i.iid < cur + k PROVE FALSE
            OBVIOUS
          <5>1. i.iid - cur \in 0 .. k - 1 /\ cur + (i.iid - cur) = i.iid
            BY <1>1, <4>1
          <5>2. QED
            BY <2>3, <4>1, <5>1
        <4>3. QED
          BY <1>1, <4>1, <4>2
      <3>3. ASSUME i.final_value # NULL PROVE i.iid > cur + k
        <4>1. i.iid # 0 /\ instance_has_quorum(i)
          BY <2>1, <3>3, QuorumIsClosed DEF InstInv, InstanceType, Ack
        <4>2. i.iid \in cur + k .. cur + learner_instances - 1 /\ slot(i.iid) = s
          BY <3>2, <4>1
        <4>3. i.iid # cur + k
          BY <1>1, <4>1, <4>2
        <4>4. QED
          BY <1>1, <4>2, <4>3
      <3> HIDE DEF i
      <3>4. i.iid # 0 => /\ i.iid \in cur + k .. cur + k + learner_instances - 1
                         /\ slot(i.iid) = s
        BY <1>1, <3>2
      <3>5. QED
        BY <2>1, <3>1, <3>3, <3>4 DEF i
    <2>4. QED
      BY <2>2, <2>3
  <1>3. moved \in [Slot -> InstanceType]
    BY <1>2 DEF Moved
  <1>4. QED
    BY <1>2, <1>3 DEF WindowInv

\* What the callback gets is the instance whose turn it is, with a majority.
LEMMA DeliveryKeeps ==
  ASSUME NEW cur \in Nat, NEW insts, WindowInv(cur, insts),
         NEW j \in 0 .. learner_instances - 1,
         instance_has_quorum(insts[slot(cur + j)])
  PROVE  /\ delivery(insts[slot(cur + j)]) \in [ack : Ack, from : SUBSET AcceptorId]
         /\ delivery(insts[slot(cur + j)]).ack.iid = cur + j
         /\ delivery(insts[slot(cur + j)]).from \in Majority
  <1> DEFINE i == insts[slot(cur + j)]
  <1>1. /\ i.iid = cur + j /\ i.final_value \in Ack /\ i.final_value.iid = cur + j
        /\ slot(cur + j) \in Slot
    BY QuorumInPlace
  <1>2. InstInv(i)
    BY <1>1 DEF WindowInv
  <1> HIDE DEF i
  <1>3. instance_close(i) = i /\ i.final_value # NULL
    BY <1>2, QuorumIsClosed DEF i
  <1> DEFINE f == {a \in AcceptorId : /\ i.acks[a] # NULL
                                      /\ i.acks[a].acceptor_id = a
                                      /\ i.acks[a].iid = i.final_value.iid
                                      /\ i.acks[a].ballot = i.final_value.ballot}
  <1>4. delivery(i) = [ack |-> i.final_value, from |-> f]
    BY <1>3 DEF delivery
  <1>5. f = Holders(i, i.final_value.ballot)
    BY <1>1, <1>2 DEF Holders, InstInv, OwnAcks
  <1>6. f \in Majority /\ f \in SUBSET AcceptorId
    BY <1>2, <1>3, <1>5, Zenon DEF InstInv
  <1> HIDE DEF f
  <1>7. QED
    BY <1>1, <1>4, <1>6 DEF i
-----------------------------------------------------------------------------
(* The learner *)

Delivery == [ack : Ack, from : SUBSET AcceptorId]

\* What was delivered up to the beginning of the window, cur.
DeliveredInv(cur, d) ==
  /\ d \in Seq(Delivery)
  /\ \A n \in 1 .. Len(d) : d[n].ack.iid = cur - Len(d) + n - 1
  /\ \A n \in 1 .. Len(d) : d[n].from \in Majority

\* Deliveries of consecutive instances continue what was delivered.
LEMMA AppendKeeps ==
  ASSUME NEW cur \in Nat, NEW d, DeliveredInv(cur, d), NEW k \in Nat, NEW more,
         more = [j \in 1 .. k |-> more[j]],
         \A j \in 1 .. k : /\ more[j] \in Delivery
                            /\ more[j].ack.iid = cur + (j - 1)
                            /\ more[j].from \in Majority
  PROVE  DeliveredInv(cur + k, d \o more)
  <1>1. more \in Seq(Delivery) /\ Len(more) = k
    <2>1. more \in [1 .. k -> Delivery]
      OBVIOUS
    <2>2. QED
      BY <2>1
  <1>2. d \in Seq(Delivery) /\ Len(d) \in Nat
    BY DEF DeliveredInv
  <1>3. d \o more \in Seq(Delivery) /\ Len(d \o more) = Len(d) + k
    BY <1>1, <1>2
  <1>4. ASSUME NEW n \in 1 .. Len(d) + k
        PROVE  /\ (d \o more)[n].ack.iid = (cur + k) - (Len(d) + k) + n - 1
               /\ (d \o more)[n].from \in Majority
    <2>1. CASE n <= Len(d)
      <3>1. (d \o more)[n] = d[n] /\ n \in 1 .. Len(d)
        BY <1>1, <1>2, <2>1
      <3>2. (cur + k) - (Len(d) + k) + n - 1 = cur - Len(d) + n - 1
        BY <1>2
      <3>3. QED
        BY <3>1, <3>2 DEF DeliveredInv
    <2>2. CASE n > Len(d)
      <3> DEFINE j == n - Len(d)
      <3>1. (d \o more)[n] = more[j] /\ j \in 1 .. k
        BY <1>1, <1>2, <2>2
      <3>2. (cur + k) - (Len(d) + k) + n - 1 = cur + (j - 1)
        BY <1>2
      <3> HIDE DEF j
      <3>3. QED
        BY <3>1, <3>2
    <2>3. QED
      BY <1>2, <2>1, <2>2
  <1>5. QED
    BY <1>3, <1>4, Zenon DEF DeliveredInv

\* learner_deliver_next_closed, from a window at cur.
LEMMA DeliverKeeps ==
  ASSUME NEW cur \in 1 .. MaxIid + 1, NEW insts, WindowInv(cur, insts),
         DeliveredInv(cur, delivered),
         deliver_next_closed(cur, insts)
  PROVE  /\ current_iid' \in 1 .. MaxIid + 1
         /\ WindowInv(current_iid', instances')
         /\ DeliveredInv(current_iid', delivered')
         /\ \A s \in Slot : instances'[s].final_value # NULL =>
              instances'[s] = insts[s] /\ instances'[s].iid > current_iid'
  <1> DEFINE k == deliver_count(cur, insts)
  <1> DEFINE more == [j \in 1 .. k |-> delivery(insts[slot(cur + j - 1)])]
  <1>1. cur \in Nat /\ MaxIid \in Nat /\ learner_instances \in Nat
    BY WindowAssumption, LearnerAssumption
  <1>2. /\ k \in 0 .. learner_instances
        /\ \A j \in 0 .. k - 1 : instance_has_quorum(insts[slot(cur + j)])
        /\ k < learner_instances => ~instance_has_quorum(insts[slot(cur + k)])
    BY <1>1, CountExists
  <1>3. /\ current_iid' = cur + k
        /\ instances' = [s \in Slot |->
             IF \E j \in 0 .. k - 1 : s = slot(cur + j)
               THEN instance_clear(insts[s])
               ELSE insts[s]]
        /\ delivered' = delivered \o more
    BY DEF deliver_next_closed
  <1> HIDE DEF k
  <1>4. WindowInv(cur + k, instances')
        /\ \A s \in Slot : instances'[s].final_value # NULL =>
             instances'[s] = insts[s] /\ instances'[s].iid > cur + k
    <2>1. instances' = Moved(cur, insts, k)
      BY <1>3 DEF Moved
    <2>2. k \in 0 .. learner_instances
          /\ (k < learner_instances => ~instance_has_quorum(insts[slot(cur + k)]))
      BY <1>2
    <2>3. QED
      BY <1>1, <2>1, <2>2, MoveKeeps
  <1>5. ASSUME NEW j \in 1 .. k
        PROVE  /\ more[j] \in Delivery
               /\ more[j].ack.iid = cur + (j - 1)
               /\ more[j].from \in Majority
    <2>1. j - 1 \in 0 .. learner_instances - 1 /\ j - 1 \in 0 .. k - 1
          /\ cur + j - 1 = cur + (j - 1)
      BY <1>1, <1>2
    <2>2. more[j] = delivery(insts[slot(cur + (j - 1))])
      BY <2>1
    <2> HIDE DEF more
    <2>3. instance_has_quorum(insts[slot(cur + (j - 1))])
      BY <1>2, <2>1
    <2>4. QED
      BY <1>1, <2>1, <2>2, <2>3, DeliveryKeeps DEF Delivery
  <1>6. DeliveredInv(cur + k, delivered')
    <2>1. more = [j \in 1 .. k |-> more[j]]
      OBVIOUS
    <2>2. k \in Nat
      BY <1>1, <1>2
    <2> HIDE DEF more
    <2>3. QED
      BY <1>1, <1>3, <1>5, <2>1, <2>2, AppendKeeps, Zenon
  <1>7. cur + k \in 1 .. MaxIid + 1
    <2>1. CASE k = 0
      BY <1>1, <2>1
    <2>2. CASE k # 0
      <3>1. k - 1 \in 0 .. learner_instances - 1 /\ k - 1 \in 0 .. k - 1
        BY <1>1, <1>2, <2>2
      <3>2. cur + (k - 1) \in 1 .. MaxIid
        BY <1>1, <1>2, <3>1, QuorumInPlace, Zenon
      <3>3. QED
        BY <1>1, <1>2, <3>2
    <2>3. QED
      BY <2>1, <2>2
  <1>8. QED
    BY <1>3, <1>4, <1>6, <1>7

\* The inductive invariant.  The last conjunct is what HoleIsFound rests on.
LInv ==
  /\ late_start \in BOOLEAN
  /\ current_iid \in 1 .. MaxIid + 1
  /\ highest_iid_seen \in 1 .. MaxIid
  /\ highest_iid_closed \in 1 .. MaxIid
  /\ WindowInv(current_iid, instances)
  /\ DeliveredInv(current_iid, delivered)
  /\ late_start => delivered = <<>> /\ instances = [s \in Slot |-> new_instance]
  /\ \A s \in Slot : instances[s].final_value # NULL =>
       instances[s].iid > current_iid /\ instances[s].iid <= highest_iid_closed

\* An empty window is as it should be, wherever it begins.
LEMMA EmptyWindow ==
  ASSUME NEW cur
  PROVE  /\ WindowInv(cur, [s \in Slot |-> new_instance])
         /\ DeliveredInv(cur, <<>>)
  <1>1. new_instance \in InstanceType
    <2>1. /\ 0 \in 0 .. MaxIid /\ 0 \in Ballots \cup {0} /\ NULL \in Ack \cup {NULL}
          /\ [a \in AcceptorId |-> NULL] \in [AcceptorId -> Ack \cup {NULL}]
      BY WindowAssumption
    <2>2. QED
      BY <2>1 DEF new_instance, InstanceType
  <1>2. WindowInv(cur, [s \in Slot |-> new_instance])
    BY <1>1, ClearedInv DEF WindowInv
  <1>3. DeliveredInv(cur, <<>>)
    BY DEF DeliveredInv
  <1>4. QED
    BY <1>2, <1>3

\* An ack keeps the invariant.
LEMMA AckKeeps ==
  ASSUME LInv, NEW m \in Ack, HandleAcceptAck(m)
  PROVE  LInv'
  <1> DEFINE cur == IF late_start THEN m.iid ELSE current_iid
  <1> DEFINE c == instance_close(
                    learner_update_instance(instances[slot(m.iid)], m.acceptor_id, m))
  <1> DEFINE insts == IF in_window(cur, m.iid)
                        THEN [instances EXCEPT ![slot(m.iid)] = c]
                        ELSE instances
  <1>1. m.iid \in 1 .. MaxIid /\ MaxIid \in Nat /\ slot(m.iid) \in Slot
    BY WindowAssumption, SlotType DEF Ack
  <1>2. cur \in 1 .. MaxIid + 1 /\ cur \in Nat
    BY <1>1 DEF LInv
  <1>3. WindowInv(cur, instances) /\ DeliveredInv(cur, delivered)
    BY EmptyWindow DEF LInv
  <1> HIDE DEF cur
  <1>4. WindowInv(cur, insts)
    BY <1>2, <1>3, ReceiveKeeps
  <1>5. /\ late_start' = FALSE
        /\ highest_iid_seen' = IF m.iid > highest_iid_seen THEN m.iid ELSE highest_iid_seen
        /\ highest_iid_closed' = IF in_window(cur, m.iid)
                                   THEN closed_iid(highest_iid_closed, c)
                                   ELSE highest_iid_closed
        /\ deliver_next_closed(cur, insts)
    BY DEF HandleAcceptAck, cur
  <1> HIDE DEF c
  <1>6. /\ current_iid' \in 1 .. MaxIid + 1
        /\ WindowInv(current_iid', instances')
        /\ DeliveredInv(current_iid', delivered')
        /\ \A s \in Slot : instances'[s].final_value # NULL =>
             instances'[s] = insts[s] /\ instances'[s].iid > current_iid'
    <2> HIDE DEF insts
    <2>1. QED
      BY <1>2, <1>3, <1>4, <1>5, DeliverKeeps
  <1>7. ASSUME in_window(cur, m.iid) PROVE InstInv(c) /\ c.iid \in 0 .. MaxIid
    <2>1. insts[slot(m.iid)] = c
      BY <1>1, <1>3, <1>7 DEF WindowInv
    <2>2. QED
      BY <1>1, <1>4, <2>1 DEF WindowInv, InstInv, InstanceType
  <1>8. /\ highest_iid_seen' \in 1 .. MaxIid
        /\ highest_iid_closed' \in 1 .. MaxIid
        /\ highest_iid_closed' >= highest_iid_closed
    BY <1>1, <1>5, <1>7 DEF LInv, closed_iid
  <1>9. ASSUME NEW s \in Slot, insts[s].final_value # NULL
        PROVE  insts[s].iid <= highest_iid_closed'
    <2>1. highest_iid_closed \in Int /\ highest_iid_closed' \in Int
      BY <1>8 DEF LInv
    <2>2. CASE in_window(cur, m.iid) /\ s = slot(m.iid)
      <3>1. insts[s] = c /\ highest_iid_closed' = closed_iid(highest_iid_closed, c)
        BY <1>1, <1>3, <1>5, <2>2 DEF WindowInv
      <3>2. instance_has_quorum(c) /\ c.iid \in Int
        BY <1>7, <1>9, <2>2, <3>1, QuorumIsClosed
      <3>3. QED
        BY <2>1, <3>1, <3>2 DEF closed_iid
    <2>3. CASE ~(in_window(cur, m.iid) /\ s = slot(m.iid))
      <3>1. insts[s] = instances[s]
        BY <1>1, <1>3, <2>3 DEF WindowInv
      <3>2. instances[s].iid <= highest_iid_closed /\ instances[s].iid \in Int
        BY <1>9, <3>1 DEF LInv, WindowInv, InstanceType
      <3>3. QED
        BY <1>8, <2>1, <3>1, <3>2
    <2>4. QED
      BY <2>2, <2>3
  <1> HIDE DEF insts
  <1>10. QED
    BY <1>5, <1>6, <1>8, <1>9, Zenon DEF LInv

\* The invariant holds in every state of every behaviour.
THEOREM LearnerInvariance == Spec => []LInv
  <1>1. Init => LInv
    <2> SUFFICES ASSUME Init PROVE LInv
      OBVIOUS
    <2>1. 1 \in 1 .. MaxIid /\ 1 \in 1 .. MaxIid + 1
      BY WindowAssumption
    <2>2. \A s \in Slot : instances[s].final_value = NULL
      BY DEF Init, new_instance
    <2>3. QED
      BY <2>1, <2>2, EmptyWindow DEF Init, LInv
  <1>2. LInv /\ [Next]_vars => LInv'
    <2> SUFFICES ASSUME LInv, [Next]_vars PROVE LInv'
      OBVIOUS
    <2>1. CASE Next
      BY <2>1, AckKeeps DEF Next
    <2>2. CASE UNCHANGED vars
      BY <2>2 DEF vars, LInv
    <2>3. QED
      BY <2>1, <2>2
  <1>3. QED
    BY <1>1, <1>2, PTL DEF Spec

\* Types: in particular the window never passes the instances that got acks.
THEOREM LearnerTypes == Spec => []TypeOK
  <1>1. LInv => TypeOK
    BY DEF LInv, TypeOK, WindowInv, DeliveredInv, Delivery
  <1>2. QED
    BY <1>1, LearnerInvariance, PTL

\* A slot holds the one instance of the window that belongs there, and its acks.
THEOREM SlotsAreKept == Spec => []SlotsHoldTheWindow
  <1>1. LInv => SlotsHoldTheWindow
    BY DEF LInv, SlotsHoldTheWindow, WindowInv, InstInv, OwnAcks
  <1>2. QED
    BY <1>1, LearnerInvariance, PTL

\* The callback gets consecutive instances, each of them once.
THEOREM InOrder == Spec => []DeliveredInOrder
  <1>1. LInv => DeliveredInOrder
    BY DEF LInv, DeliveredInOrder, DeliveredInv
  <1>2. QED
    BY <1>1, LearnerInvariance, PTL

\* What is delivered was acknowledged by a majority, with one ballot.
THEOREM WithQuorum == Spec => []DeliveredHasQuorum
  <1>1. LInv => DeliveredHasQuorum
    BY DEF LInv, DeliveredHasQuorum, DeliveredInv
  <1>2. QED
    BY <1>1, LearnerInvariance, PTL

\* An open instance has no ballot with a majority of acks.
THEOREM NoneOverlooked == Spec => []NoQuorumOverlooked
  <1>1. LInv => NoQuorumOverlooked
    BY Zenon DEF LInv, NoQuorumOverlooked, WindowInv, InstInv, Holders
  <1>2. QED
    BY <1>1, LearnerInvariance, PTL

\* A learner that waits while a later instance is closed asks for its current one.
THEOREM HolesAreFound == Spec => []HoleIsFound
  <1>1. LInv => HoleIsFound
    <2> SUFFICES ASSUME LInv, NEW s \in Slot, instances[s].final_value # NULL
                 PROVE  current_iid \in learner_check_holes
      BY DEF HoleIsFound
    <2>1. instances[s].iid > current_iid /\ instances[s].iid <= highest_iid_closed
          /\ instances[s].iid \in Int
      BY DEF LInv, WindowInv, InstanceType
    <2>2. /\ current_iid \in Int /\ highest_iid_closed \in Int /\ highest_iid_seen \in Int
          /\ chunks \in Nat /\ chunks > 0 /\ learner_instances \in Nat
      BY LearnerAssumption, WindowAssumption DEF LInv
    <2>3. current_iid \in learner_has_holes(counters)
      BY <2>1, <2>2 DEF learner_has_holes, counters
    <2>4. QED
      BY <2>2, <2>3 DEF learner_check_holes
  <1>2. QED
    BY <1>1, LearnerInvariance, PTL
=============================================================================
