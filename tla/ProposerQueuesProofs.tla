------------------------ MODULE ProposerQueuesProofs ------------------------
(***************************************************************************)
(* Proofs about ProposerQueues, for any window, any values and any number  *)
(* of instances.                                                           *)
(***************************************************************************)
EXTENDS ProposerQueues, QuorumTheorems

\* The instances of two lists and those that are done are those opened, each once.
Arranged(prepares, accepts, done, opened) ==
  /\ Distinct(prepares)
  /\ Distinct(accepts)
  /\ iids(prepares) \cap iids(accepts) = {}
  /\ iids(prepares) \cap {f.iid : f \in done} = {}
  /\ iids(accepts) \cap {f.iid : f \in done} = {}
  /\ iids(prepares) \cup iids(accepts) \cup {f.iid : f \in done} = 1 .. opened

\* What a list in the accept phase holds: an instance with a value.
HoldsValues(list) == \A k \in 1 .. Len(list) : list[k].inst.value \in Value

\* The values that wait in a queue.
waiting(vals) == {vals[k] : k \in 1 .. Len(vals)}

\* The inductive invariant: what the properties say, and where every instance is.
QueuesInv ==
  /\ TypeOK
  /\ Arranged(prepare_instances, accept_instances, freed, next_prepare_iid)
  /\ HoldsValues(accept_instances)
  /\ NoValueLost
  /\ FrontIsNotStuck
  /\ WindowIsFull
-----------------------------------------------------------------------------
(* The loop of try_accept *)

\* The positions of the instances without a value.
empties(list) == {k \in 1 .. Len(list) : list[k].inst.value = None}

\* They are positions of the list.
LEMMA EmptiesAre ==
  ASSUME NEW list \in Seq(Entry)
  PROVE  Len(list) \in Nat /\ empties(list) \in SUBSET (1 .. Len(list))
  BY DEF empties

\* The values taken are counted by those positions.
LEMMA TakesIsRank ==
  ASSUME NEW list, NEW n
  PROVE  takes(list, n) = rank(empties(list), n)
  BY DEF takes, empties

\* How many values the first n instances take.
LEMMA TakesStep ==
  ASSUME NEW list \in Seq(Entry), NEW n \in 0 .. Len(list) - 1
  PROVE  /\ takes(list, 0) = 0
         /\ takes(list, n) \in Nat
         /\ list[n + 1].inst.value = None => takes(list, n + 1) = takes(list, n) + 1
         /\ list[n + 1].inst.value # None => takes(list, n + 1) = takes(list, n)
  <1>1. n \in Nat /\ n + 1 \in 1 .. Len(list)
    OBVIOUS
  <1>2. n + 1 \in empties(list) <=> list[n + 1].inst.value = None
    BY <1>1 DEF empties
  <1>3. rank(empties(list), 0) = 0 /\ rank(empties(list), n) \in Nat
    BY <1>1, EmptiesAre, RankZero, RankType, Zenon
  <1>4. /\ n + 1 \in empties(list)
             => rank(empties(list), n + 1) = rank(empties(list), n) + 1
        /\ n + 1 \notin empties(list) => rank(empties(list), n + 1) = rank(empties(list), n)
    BY <1>1, EmptiesAre, RankStep, Zenon
  <1>5. QED
    BY <1>2, <1>3, <1>4, TakesIsRank, Zenon

\* The number of values taken is a natural number.
LEMMA TakesType ==
  ASSUME NEW list \in Seq(Entry), NEW n \in 0 .. Len(list)
  PROVE  takes(list, n) \in Nat /\ takes(list, 0) = 0
  <1>1. n \in Nat
    OBVIOUS
  <1>2. QED
    BY <1>1, EmptiesAre, RankType, RankZero, TakesIsRank, Zenon

\* The k-th of the first n instances, when it has no value, takes one of them.
LEMMA TakesBetween ==
  ASSUME NEW list \in Seq(Entry), NEW n \in 0 .. Len(list), NEW k \in 1 .. n,
         list[k].inst.value = None
  PROVE  takes(list, k) \in 1 .. takes(list, n)
  <1>1. k \in Nat /\ n \in Nat /\ k <= n /\ k - 1 \in 0 .. Len(list) - 1 /\ (k - 1) + 1 = k
    OBVIOUS
  <1>2. takes(list, (k - 1) + 1) = takes(list, k - 1) + 1 /\ takes(list, k - 1) \in Nat
    BY <1>1, TakesStep
  <1>3. takes(list, k) <= takes(list, n)
    BY <1>1, EmptiesAre, RankMonotone, TakesIsRank, Zenon
  <1>4. takes(list, n) \in Nat
    BY TakesType
  <1>5. QED
    BY <1>1, <1>2, <1>3, <1>4

\* Every value taken goes to one of the first n instances.
LEMMA TakesReached ==
  ASSUME NEW list \in Seq(Entry), NEW n \in 0 .. Len(list), NEW j \in 1 .. takes(list, n)
  PROVE  \E k \in 1 .. n : list[k].inst.value = None /\ takes(list, k) = j
  <1>1. n \in Nat /\ j \in 1 .. rank(empties(list), n)
    BY TakesIsRank
  <1>2. PICK k \in empties(list) : k <= n /\ rank(empties(list), k) = j
    BY <1>1, EmptiesAre, RankReached, Zenon
  <1>3. k \in 1 .. n /\ list[k].inst.value = None
    BY <1>1, <1>2 DEF empties
  <1>4. QED
    BY <1>2, <1>3, TakesIsRank, Zenon

\* What the loop leaves behind.
Stops(list, vals, n) ==
  /\ n \in 0 .. Len(list)
  /\ \A k \in 1 .. n : quorum_reached(list[k].inst.quorum)
  /\ takes(list, n) <= Len(vals)
  /\ n < Len(list) => \/ ~quorum_reached(list[n + 1].inst.quorum)
                      \/ takes(list, n + 1) > Len(vals)

\* The loop stops: there is a first instance at which proposer_accept returns NULL.
LEMMA AcceptCountStops ==
  ASSUME NEW list \in Seq(Entry), NEW vals \in Seq(Value)
  PROVE  Stops(list, vals, accept_count(list, vals))
  <1> DEFINE halts(n) == n < Len(list) => \/ ~quorum_reached(list[n + 1].inst.quorum)
                                          \/ takes(list, n + 1) > Len(vals)
             T == {n \in 0 .. Len(list) : halts(n)}
  <1>1. Len(list) \in Nat /\ Len(vals) \in Nat
    OBVIOUS
  <1>2. T \in SUBSET Nat /\ Len(list) \in T
    BY <1>1
  <1>3. PICK n \in T : \A m \in T : n <= m
    <2> HIDE DEF T
    <2>1. QED
      BY <1>2, SmallestExists, Zenon
  <1>4. n \in 0 .. Len(list) /\ halts(n)
    OBVIOUS
  <1>5. ASSUME NEW k \in 1 .. n
        PROVE  quorum_reached(list[k].inst.quorum) /\ takes(list, k) <= Len(vals)
    <2>1. k - 1 \in 0 .. Len(list) /\ k - 1 < Len(list) /\ ~(n <= k - 1) /\ (k - 1) + 1 = k
      BY <1>1, <1>4
    <2>2. ~(k - 1 \in T)
      BY <1>3, <2>1
    <2>3. ~halts(k - 1)
      BY <2>1, <2>2
    <2>4. takes(list, k) \in Nat
      BY <1>4, TakesType
    <2>5. QED
      BY <1>1, <2>1, <2>3, <2>4
  <1>6. takes(list, n) <= Len(vals)
    <2>1. CASE n = 0
      BY <1>1, <1>4, <2>1, TakesType
    <2>2. CASE n # 0
      BY <1>4, <1>5, <2>2
    <2>3. QED
      BY <2>1, <2>2
  <1>7. QED
    <2>1. \E m \in 0 .. Len(list) :
            /\ \A k \in 1 .. m : quorum_reached(list[k].inst.quorum)
            /\ takes(list, m) <= Len(vals)
            /\ halts(m)
      BY <1>4, <1>5, <1>6, Zenon
    <2>2. QED
      BY <2>1, Zenon DEF accept_count, Stops
-----------------------------------------------------------------------------
(* Lists of instances *)

\* What a list holds depends on its entries only.
LEMMA OfEntries ==
  ASSUME NEW s
  PROVE  /\ held(s) = {e.inst.value : e \in entries(s)} \ {None}
         /\ HoldsValues(s) <=> \A e \in entries(s) : e.inst.value \in Value
  <1>1. held(s) = {e.inst.value : e \in entries(s)} \ {None}
    BY Zenon DEF held, entries
  <1>2. HoldsValues(s) <=> \A e \in entries(s) : e.inst.value \in Value
    BY Zenon DEF HoldsValues, entries
  <1>3. QED
    BY <1>1, <1>2, Zenon

\* Joining two lists joins what they hold.
LEMMA Joined ==
  ASSUME NEW s \in Seq(Entry), NEW t \in Seq(Entry)
  PROVE  /\ iids(s \o t) = iids(s) \cup iids(t)
         /\ held(s \o t) = held(s) \cup held(t)
         /\ HoldsValues(s) /\ HoldsValues(t) => HoldsValues(s \o t)
  <1>1. entries(s \o t) = entries(s) \cup entries(t) /\ iids(s \o t) = iids(s) \cup iids(t)
    BY ConcatEntries
  <1>2. /\ held(s) = {e.inst.value : e \in entries(s)} \ {None}
        /\ held(t) = {e.inst.value : e \in entries(t)} \ {None}
        /\ held(s \o t) = {e.inst.value : e \in entries(s) \cup entries(t)} \ {None}
    BY <1>1, OfEntries, Zenon
  <1>3. held(s \o t) = held(s) \cup held(t)
    BY <1>2, Zenon
  <1>4. HoldsValues(s) /\ HoldsValues(t) => HoldsValues(s \o t)
    BY <1>1, OfEntries, Zenon
  <1>5. QED
    BY <1>1, <1>3, <1>4, Zenon

\* Replacing what is known of the instance at position k.
replaced(s, k, i) == [s EXCEPT ![k].inst = i]

\* The list keeps its iids, and all values but the one replaced.
LEMMA Replaced ==
  ASSUME NEW s \in Seq(Entry), NEW k \in 1 .. Len(s), NEW i \in InstanceType
  PROVE  \E t \in Seq(Entry) :
           /\ t = replaced(s, k, i)
           /\ iids(t) = iids(s)
           /\ Distinct(s) => Distinct(t)
           /\ held(s) \subseteq held(t) \cup {s[k].inst.value}
           /\ i.value # None => i.value \in held(t)
           /\ HoldsValues(s) /\ i.value \in Value => HoldsValues(t)
  <1> DEFINE t == replaced(s, k, i)
  <1>1. t \in Seq(Entry) /\ Len(t) = Len(s)
    <2>1. [s[k] EXCEPT !.inst = i] \in Entry
      <3>1. s[k] \in Entry
        OBVIOUS
      <3>2. QED
        BY <3>1, Zenon DEF Entry
    <2>2. t = [s EXCEPT ![k] = [s[k] EXCEPT !.inst = i]]
      BY DEF replaced
    <2>3. QED
      BY <2>1, <2>2
  <1>2. \A l \in 1 .. Len(s) : t[l].iid = s[l].iid /\ (l # k => t[l] = s[l])
    BY DEF Entry, replaced
  <1>3. t[k].inst = i
    BY DEF Entry, replaced
  <1> HIDE DEF t
  <1>4. iids(t) = iids(s)
    BY <1>1, <1>2, Zenon DEF iids
  <1>5. Distinct(s) => Distinct(t)
    BY <1>1, <1>2, Zenon DEF Distinct
  <1>6. held(s) \subseteq held(t) \cup {s[k].inst.value}
    BY <1>1, <1>2, Zenon DEF held
  <1>7. i.value # None => i.value \in held(t)
    BY <1>1, <1>3, Zenon DEF held
  <1>8. HoldsValues(s) /\ i.value \in Value => HoldsValues(t)
    BY <1>1, <1>2, <1>3, Zenon DEF HoldsValues
  <1>9. QED
    BY <1>1, <1>4, <1>5, <1>6, <1>7, <1>8, Zenon DEF t

\* instance_remove takes the instance at position k, and no other, out of the list.
LEMMA Removed ==
  ASSUME NEW s \in Seq(Entry), Distinct(s), NEW k \in 1 .. Len(s)
  PROVE  LET t == instance_remove(s, s[k].iid)
         IN /\ t \in Seq(Entry)
            /\ Distinct(t)
            /\ iids(t) = iids(s) \ {s[k].iid}
            /\ held(s) \subseteq held(t) \cup {s[k].inst.value}
            /\ HoldsValues(s) => HoldsValues(t)
  <1>1. PICK t : t = instance_remove(s, s[k].iid)
    OBVIOUS
  <1>2. /\ t \in Seq(Entry) /\ Distinct(t) /\ iids(t) = iids(s) \ {s[k].iid}
        /\ \A e \in entries(t) : e \in entries(s)
        /\ \A e \in entries(s) : e = s[k] \/ e \in entries(t)
    <2>1. t = sublist(s, {l \in 1 .. Len(s) : s[l].iid # s[k].iid})
      BY <1>1, Zenon DEF instance_remove
    <2>2. QED
      BY <2>1, RemovedItem
  <1>3. held(s) \subseteq held(t) \cup {s[k].inst.value}
    <2>1. /\ held(t) = {e.inst.value : e \in entries(t)} \ {None}
          /\ held(s) = {e.inst.value : e \in entries(s)} \ {None}
      BY OfEntries, Zenon
    <2>2. QED
      BY <1>2, <2>1, Zenon
  <1>4. HoldsValues(s) => HoldsValues(t)
    BY <1>2, OfEntries, Zenon
  <1>5. QED
    BY <1>1, <1>2, <1>3, <1>4, Zenon

-----------------------------------------------------------------------------
(* One instance *)

\* A new instance has no value, and no promise is counted for it.
LEMMA NewInstance ==
  ASSUME NEW i \in instance_new(id)
  PROVE  i \in InstanceType /\ i.value = None /\ ~quorum_reached(i.quorum)
  <1>1. PICK q \in quorum_init :
          i = [list         |-> "prepare",
               ballot       |-> proposer_next_ballot(id, 0),
               value_ballot |-> 0,
               value        |-> None,
               quorum       |-> q]
    BY Zenon DEF instance_new
  <1>2. q \in QuorumType /\ TallyInv(q) /\ q.counted = {}
    BY InitialTally, Zenon
  <1>3. q.count = 0
    BY <1>2, FS_EmptySet, Zenon DEF TallyInv
  <1>4. ~quorum_reached(q)
    BY <1>3, AcceptorsAssumption DEF quorum_reached, paxos_quorum
  <1>5. proposer_next_ballot(id, 0) \in Ballot /\ 0 \in Ballot
    BY QueuesAssumption, ValueAssumption DEF Ballot, proposer_next_ballot, MAX_N_OF_PROPOSERS
  <1>6. QED
    BY <1>1, <1>2, <1>4, <1>5, Zenon DEF InstanceType

\* prepare_preempt keeps the value.
LEMMA Preempted ==
  ASSUME NEW i \in InstanceType, proposer_next_ballot(id, i.ballot) <= MaxBallot
  PROVE  prepare_preempt(id, i) \in InstanceType /\ prepare_preempt(id, i).value = i.value
  <1> DEFINE b == proposer_next_ballot(id, i.ballot)
  <1>1. i.quorum \in QuorumType /\ i.ballot \in Nat
    BY ValueAssumption DEF InstanceType, Ballot
  <1>2. b \in Ballot
    BY <1>1, QueuesAssumption, ValueAssumption DEF Ballot, proposer_next_ballot, MAX_N_OF_PROPOSERS
  <1>3. quorum_clear(i.quorum) \in QuorumType
    BY <1>1, ClearedTally, Zenon
  <1>4. prepare_preempt(id, i) =
          [i EXCEPT !.list = "prepare", !.ballot = b, !.quorum = quorum_clear(i.quorum)]
    BY DEF prepare_preempt
  <1> HIDE DEF b
  <1>5. QED
    BY <1>2, <1>3, <1>4, Zenon DEF InstanceType

\* proposer_accept gives the instance its value.
LEMMA Accepted ==
  ASSUME NEW i \in InstanceType, NEW v \in Value
  PROVE  /\ proposer_accept(i, v) \in InstanceType
         /\ proposer_accept(i, v).value = v
  <1>1. quorum_clear(i.quorum) \in QuorumType
    BY ClearedTally, Zenon DEF InstanceType
  <1>2. QED
    BY <1>1, Zenon DEF proposer_accept, InstanceType

\* What a promise does to the value of an instance: it keeps it, or takes the one
\* reported, and then the value it had is in the queue.
LEMMA Promised ==
  ASSUME TypeOK, NEW i \in InstanceType, NEW m \in [acceptor_id : AcceptorId, record : RecordType]
  PROVE  /\ proposer_receive_prepare_ack(i, m) \in InstanceType
         /\ after_promise(i, m) \in Seq(Value)
         /\ waiting(values) \subseteq waiting(after_promise(i, m))
         /\ \/ i.value = None
            \/ proposer_receive_prepare_ack(i, m).value = i.value
            \/ i.value \in waiting(after_promise(i, m))
  <1>1. i.quorum \in QuorumType /\ m.acceptor_id \in AcceptorId /\ m.record \in RecordType
    BY Zenon DEF InstanceType
  <1>2. quorum_add(i.quorum, m.acceptor_id) \in QuorumType
    BY <1>1, AddedType, Zenon
  <1>3. /\ proposer_receive_prepare_ack(i, m) \in InstanceType
        /\ \/ i.value = None
           \/ m.record.value # None /\ m.record.value_ballot > i.value_ballot
           \/ proposer_receive_prepare_ack(i, m).value = i.value
    BY <1>1, <1>2, Zenon DEF proposer_receive_prepare_ack, InstanceType, RecordType
  <1>4. values \in Seq(Value) /\ i.value \in Value \cup {None}
    BY DEF TypeOK, InstanceType
  <1>5. CASE m.record.value # None /\ i.value # None /\ m.record.value_ballot > i.value_ballot
    <2>1. after_promise(i, m) = Append(values, i.value)
      BY <1>5, Zenon DEF after_promise
    <2>2. i.value \in Value
      BY <1>4, <1>5, Zenon
    <2>3. /\ Append(values, i.value) \in Seq(Value)
          /\ waiting(values) \subseteq waiting(Append(values, i.value))
          /\ i.value \in waiting(Append(values, i.value))
      BY <1>4, <2>2 DEF waiting
    <2>4. QED
      BY <1>3, <2>1, <2>3, Zenon
  <1>6. CASE ~(m.record.value # None /\ i.value # None /\ m.record.value_ballot > i.value_ballot)
    <2>1. after_promise(i, m) = values
      BY <1>6, Zenon DEF after_promise
    <2>2. QED
      BY <1>3, <1>4, <1>6, <2>1, Zenon
  <1>7. QED
    BY <1>5, <1>6, Zenon

\* An acceptance leaves the value as it is.
LEMMA Acked ==
  ASSUME NEW i \in InstanceType, NEW m, m.acceptor_id \in AcceptorId
  PROVE  /\ proposer_receive_accept_ack(i, m) \in InstanceType
         /\ proposer_receive_accept_ack(i, m).value = i.value
  <1>1. i.quorum \in QuorumType
    BY Zenon DEF InstanceType
  <1>2. quorum_add(i.quorum, m.acceptor_id) \in QuorumType
    BY <1>1, AddedType, Zenon
  <1>3. QED
    BY <1>2, Zenon DEF proposer_receive_accept_ack, InstanceType
-----------------------------------------------------------------------------
(* try_accept *)

\* An instance the loop moves gets the value it has, or the next one of the queue.
LEMMA Moved ==
  ASSUME NEW P \in Seq(Entry), NEW V \in Seq(Value), NEW n, Stops(P, V, n), NEW k \in 1 .. n
  PROVE  /\ accepted(P, V, k) \in Entry
         /\ accepted(P, V, k).iid = P[k].iid
         /\ accepted(P, V, k).inst.value \in Value
         /\ P[k].inst.value # None => accepted(P, V, k).inst.value = P[k].inst.value
         /\ P[k].inst.value = None => accepted(P, V, k).inst.value = V[takes(P, k)]
  <1> DEFINE v == IF P[k].inst.value = None THEN V[takes(P, k)] ELSE P[k].inst.value
  <1>1. n \in 0 .. Len(P) /\ takes(P, n) <= Len(V)
    BY DEF Stops
  <1>2. P[k] \in Entry
    BY <1>1
  <1>3. P[k].iid \in Iid /\ P[k].inst \in InstanceType /\ P[k].inst.value \in Value \cup {None}
    BY <1>2, Zenon DEF Entry, InstanceType
  <1>4. P[k].inst.value = None => V[takes(P, k)] \in Value
    <2>1. takes(P, n) \in Nat
      BY <1>1, TakesType
    <2>2. P[k].inst.value = None => takes(P, k) \in 1 .. takes(P, n)
      BY <1>1, TakesBetween
    <2>3. P[k].inst.value = None => takes(P, k) \in 1 .. Len(V)
      BY <1>1, <2>1, <2>2
    <2>4. QED
      BY <2>3
  <1>5. v \in Value
    BY <1>3, <1>4, Zenon
  <1>6. accepted(P, V, k) = [iid |-> P[k].iid, inst |-> proposer_accept(P[k].inst, v)]
    BY Zenon DEF accepted
  <1>7. proposer_accept(P[k].inst, v) \in InstanceType /\ proposer_accept(P[k].inst, v).value = v
    <2> HIDE DEF v
    <2>1. QED
      BY <1>3, <1>5, Accepted, Zenon
  <1>8. /\ accepted(P, V, k) \in Entry
        /\ accepted(P, V, k).iid = P[k].iid
        /\ accepted(P, V, k).inst.value = v
    <2> HIDE DEF v
    <2>1. QED
      BY <1>3, <1>6, <1>7 DEF Entry
  <1>9. QED
    BY <1>5, <1>8, Zenon

\* The instances proposer_preexecute opens: the next ones, with nothing counted.
opened(next, o, new) == [k \in 1 .. o |-> [iid |-> next + k, inst |-> new[k]]]

\* They are instances of the next iids, and none is prepared.
LEMMA Opened ==
  ASSUME NEW next \in Nat, NEW o \in Nat, next + o <= MaxIid,
         NEW new \in [1 .. o -> instance_new(id)]
  PROVE  /\ opened(next, o, new) \in Seq(Entry)
         /\ Len(opened(next, o, new)) = o
         /\ iids(opened(next, o, new)) = (next + 1) .. (next + o)
         /\ Distinct(opened(next, o, new))
         /\ \A k \in 1 .. o : ~quorum_reached(opened(next, o, new)[k].inst.quorum)
  <1> DEFINE F == opened(next, o, new)
  <1>1. \A k \in 1 .. o : next + k \in Iid /\ new[k] \in instance_new(id)
    BY QueuesAssumption DEF Iid
  <1>2. \A k \in 1 .. o : new[k] \in InstanceType /\ ~quorum_reached(new[k].quorum)
    BY <1>1, NewInstance, Zenon
  <1>3. F \in Seq(Entry) /\ Len(F) = o
    BY <1>1, <1>2 DEF Entry, opened
  <1>4. \A k \in 1 .. o : F[k].iid = next + k /\ F[k].inst = new[k]
    BY DEF opened
  <1> HIDE DEF F
  <1>5. iids(F) = (next + 1) .. (next + o)
    <2>1. \A k \in 1 .. o : F[k].iid \in (next + 1) .. (next + o)
      BY <1>4
    <2>2. \A x \in (next + 1) .. (next + o) : x - next \in 1 .. o /\ F[x - next].iid = x
      BY <1>4
    <2>3. \A x \in (next + 1) .. (next + o) : \E k \in 1 .. o : F[k].iid = x
      BY <2>2, Zenon
    <2>4. iids(F) = {F[k].iid : k \in 1 .. o}
      BY <1>3, Zenon DEF iids
    <2>5. QED
      BY <2>1, <2>3, <2>4, Zenon
  <1>6. Distinct(F)
    BY <1>3, <1>4 DEF Distinct
  <1>7. QED
    <2>1. \A k \in 1 .. o : ~quorum_reached(F[k].inst.quorum)
      BY <1>2, <1>4, Zenon
    <2>2. QED
      BY <1>3, <1>5, <1>6, <2>1, Zenon DEF F

\* No value is lost on the way from the queue to the accept phase.
LEMMA ValuesKept ==
  ASSUME NEW P \in Seq(Entry), NEW V \in Seq(Value), NEW n, Stops(P, V, n),
         NEW M \in Seq(Entry), Len(M) = n, \A k \in 1 .. n : M[k] = accepted(P, V, k)
  PROVE  LET R    == SubSeq(P, n + 1, Len(P))
             left == SubSeq(V, takes(P, n) + 1, Len(V))
         IN waiting(V) \cup held(P) \subseteq waiting(left) \cup held(M) \cup held(R)
  <1> DEFINE R    == SubSeq(P, n + 1, Len(P))
             left == SubSeq(V, takes(P, n) + 1, Len(V))
  <1>1. n \in 0 .. Len(P) /\ takes(P, n) <= Len(V)
    BY DEF Stops
  <1>2. takes(P, n) \in Nat /\ Len(V) \in Nat /\ Len(P) \in Nat /\ n \in Nat
    BY <1>1, TakesType
  <1>3. \A k \in 1 .. n : M[k].inst.value \in held(M)
    <2>1. \A k \in 1 .. n : M[k].inst.value \in Value
      BY Moved
    <2>2. QED
      BY <2>1, ValueAssumption, Zenon DEF held
  <1>4. ASSUME NEW j \in 1 .. Len(V)
        PROVE  V[j] \in waiting(left) \cup held(M)
    <2>1. CASE j <= takes(P, n)
      <3>1. j \in 1 .. takes(P, n)
        BY <1>2, <2>1
      <3>2. PICK k \in 1 .. n : P[k].inst.value = None /\ takes(P, k) = j
        BY <1>1, <3>1, TakesReached
      <3>3. M[k].inst.value = V[j]
        BY <3>2, Moved
      <3>4. QED
        BY <1>3, <3>3, Zenon
    <2>2. CASE ~(j <= takes(P, n))
      <3>1. PICK t \in Nat : t = takes(P, n)
        BY <1>2, Zenon
      <3>2. left = SubSeq(V, t + 1, Len(V)) /\ t <= Len(V) /\ ~(j <= t)
        BY <1>1, <2>2, <3>1, Zenon
      <3> HIDE DEF left
      <3>3. j - t \in 1 .. Len(left) /\ left[j - t] = V[j]
        BY <3>2
      <3>4. QED
        BY <3>3, Zenon DEF waiting
    <2>3. QED
      BY <2>1, <2>2
  <1>5. ASSUME NEW k \in 1 .. Len(P), P[k].inst.value # None
        PROVE  P[k].inst.value \in held(M) \cup held(R)
    <2>1. CASE k <= n
      <3>1. k \in 1 .. n
        BY <1>2, <2>1
      <3>2. M[k].inst.value = P[k].inst.value
        BY <1>5, <3>1, Moved
      <3>3. QED
        BY <1>3, <3>1, <3>2, Zenon
    <2>2. CASE ~(k <= n)
      <3>1. k - n \in 1 .. Len(R) /\ R[k - n] = P[k]
        BY <1>1, <1>2, <2>2
      <3> HIDE DEF R
      <3>2. QED
        BY <1>5, <3>1, Zenon DEF held
    <2>3. QED
      BY <2>1, <2>2
  <1> HIDE DEF R, left
  <1>6. waiting(V) \subseteq waiting(left) \cup held(M)
    <2>1. \A v \in waiting(V) : \E j \in 1 .. Len(V) : v = V[j]
      BY Zenon DEF waiting
    <2>2. QED
      BY <1>4, <2>1, Zenon
  <1>7. held(P) \subseteq held(M) \cup held(R)
    <2>1. \A v \in held(P) : v # None /\ \E k \in 1 .. Len(P) : v = P[k].inst.value
      BY Zenon DEF held
    <2>2. QED
      BY <1>5, <2>1, Zenon
  <1>8. QED
    BY <1>6, <1>7, Zenon DEF R, left

\* The instances stay where they are, each once, as they move and are opened.
LEMMA StillArranged ==
  ASSUME NEW P \in Seq(Entry), NEW A \in Seq(Entry), NEW D, NEW next \in Nat, NEW o \in Nat,
         NEW M \in Seq(Entry), NEW R \in Seq(Entry), NEW F \in Seq(Entry),
         Arranged(P, A, D, next),
         iids(P) = iids(M) \cup iids(R), iids(M) \cap iids(R) = {},
         Distinct(M), Distinct(R), Distinct(F), iids(F) = (next + 1) .. (next + o)
  PROVE  Arranged(R \o F, A \o M, D, next + o)
  <1>1. /\ Distinct(A)
        /\ iids(P) \cap iids(A) = {}
        /\ iids(P) \cap {f.iid : f \in D} = {}
        /\ iids(A) \cap {f.iid : f \in D} = {}
        /\ iids(P) \cup iids(A) \cup {f.iid : f \in D} = 1 .. next
    BY Zenon DEF Arranged
  <1>2. /\ 1 .. (next + o) = (1 .. next) \cup ((next + 1) .. (next + o))
        /\ (1 .. next) \cap ((next + 1) .. (next + o)) = {}
    OBVIOUS
  <1>3. PICK p, a, m, r, x, d, now, later :
          /\ p = iids(P) /\ a = iids(A) /\ m = iids(M) /\ r = iids(R) /\ x = iids(F)
          /\ d = {f.iid : f \in D}
          /\ now = 1 .. next /\ later = 1 .. (next + o)
    BY Zenon
  <1>4. /\ p = m \cup r /\ m \cap r = {} /\ p \cap a = {} /\ p \cap d = {} /\ a \cap d = {}
        /\ p \cup a \cup d = now /\ later = now \cup x /\ now \cap x = {}
    BY <1>1, <1>2, <1>3, Zenon
  <1>5. /\ r \cap x = {} /\ a \cap m = {}
        /\ (r \cup x) \cap (a \cup m) = {}
        /\ (r \cup x) \cap d = {}
        /\ (a \cup m) \cap d = {}
        /\ (r \cup x) \cup (a \cup m) \cup d = later
    BY <1>4
  <1>6. iids(R \o F) = r \cup x /\ iids(A \o M) = a \cup m
    BY <1>3, Joined, Zenon
  <1>7. Distinct(R \o F)
    BY <1>3, <1>5, ConcatDistinct, Zenon
  <1>8. Distinct(A \o M)
    BY <1>1, <1>3, <1>5, ConcatDistinct, Zenon
  <1>9. QED
    BY <1>3, <1>5, <1>6, <1>7, <1>8, Zenon DEF Arranged

\* try_accept leaves no prepared instance at the front that could go on.
LEMMA FrontAfter ==
  ASSUME NEW P \in Seq(Entry), NEW V \in Seq(Value), NEW n, Stops(P, V, n),
         NEW F \in Seq(Entry), \A k \in 1 .. Len(F) : ~quorum_reached(F[k].inst.quorum),
         NEW T, T = SubSeq(P, n + 1, Len(P)) \o F, Len(T) > 0,
         quorum_reached(T[1].inst.quorum)
  PROVE  T[1].inst.value = None /\ SubSeq(V, takes(P, n) + 1, Len(V)) = <<>>
  <1>1. /\ n \in 0 .. Len(P) /\ takes(P, n) <= Len(V)
        /\ n < Len(P) => \/ ~quorum_reached(P[n + 1].inst.quorum)
                         \/ takes(P, n + 1) > Len(V)
    BY Zenon DEF Stops
  <1>2. n < Len(P)
    <2>1. CASE n = Len(P)
      <3>1. PICK R \in Seq(Entry) : R = SubSeq(P, n + 1, Len(P)) /\ Len(R) = 0
        BY <2>1
      <3>2. Len(T) = Len(F) /\ Len(F) \in Nat /\ (Len(F) > 0 => T[1] = F[1])
        <4>1. T = R \o F
          BY <3>1, Zenon
        <4>2. Len(R \o F) = Len(F) /\ Len(F) \in Nat
          BY <3>1
        <4>3. Len(F) > 0 => (R \o F)[1] = F[1]
          BY <3>1
        <4>4. QED
          BY <4>1, <4>2, <4>3, Zenon
      <3>3. Len(F) > 0
        BY <3>2, Zenon
      <3>4. 1 \in 1 .. Len(F)
        BY <3>2, <3>3
      <3>5. QED
        BY <3>2, <3>3, <3>4, Zenon
    <2>2. QED
      BY <1>1, <2>1
  <1>3. T[1] = P[n + 1]
    BY <1>1, <1>2
  <1>4. takes(P, n + 1) > Len(V)
    BY <1>1, <1>2, <1>3, Zenon
  <1>5. n \in 0 .. Len(P) - 1
    BY <1>1, <1>2
  <1>6. /\ takes(P, n) \in Nat
        /\ P[n + 1].inst.value = None => takes(P, n + 1) = takes(P, n) + 1
        /\ P[n + 1].inst.value # None => takes(P, n + 1) = takes(P, n)
    BY <1>5, TakesStep, Zenon
  <1>7. Len(V) \in Nat
    OBVIOUS
  <1>8. P[n + 1].inst.value = None
    <2>1. takes(P, n + 1) # takes(P, n)
      BY <1>1, <1>4, <1>6, <1>7
    <2>2. QED
      BY <1>6, <2>1, Zenon
  <1>9. takes(P, n + 1) = takes(P, n) + 1
    BY <1>6, <1>8, Zenon
  <1>10. takes(P, n) = Len(V)
    BY <1>1, <1>4, <1>6, <1>7, <1>9
  <1>11. SubSeq(V, takes(P, n) + 1, Len(V)) = <<>>
    BY <1>7, <1>10
  <1>12. QED
    BY <1>3, <1>8, <1>11, Zenon

\* try_accept restores the invariant, from what a handler leaves it.
LEMMA TryAcceptInv ==
  ASSUME TypeOK, NEW P \in Seq(Entry), NEW A \in Seq(Entry), NEW V \in Seq(Value),
         HoldsValues(A),
         NEW D \in SUBSET [iid : Iid, value : Value], freed' = D,
         NEW S \in SUBSET ClientValue, submitted' = S,
         Arranged(P, A, D, next_prepare_iid),
         S \subseteq waiting(V) \cup held(P) \cup held(A) \cup {f.value : f \in D},
         TryAccept(P, A, V)
  PROVE  QueuesInv'
  <1> DEFINE n == accept_count(P, V)
             M == [k \in 1 .. n |-> accepted(P, V, k)]
             R == SubSeq(P, n + 1, Len(P))
             L == SubSeq(V, takes(P, n) + 1, Len(V))
             o == open_count(R)
  <1>1. PICK next : next = next_prepare_iid
    OBVIOUS
  <1>2. next \in Nat /\ accept_reqs \subseteq [iid : Iid, ballot : Ballot, value : Value]
    BY <1>1, QueuesAssumption DEF TypeOK
  <1>3. PICK new \in [1 .. o -> instance_new(id)] :
          prepare_instances' = R \o [k \in 1 .. o |-> [iid |-> next + k, inst |-> new[k]]]
    BY <1>1, Zenon DEF TryAccept
  <1>4. /\ accept_instances' = A \o M
        /\ values' = L
        /\ accept_reqs' = accept_reqs \cup
             {[iid |-> M[k].iid, ballot |-> M[k].inst.ballot, value |-> M[k].inst.value] :
                k \in 1 .. n}
        /\ next + o <= MaxIid
        /\ next_prepare_iid' = next + o
    BY <1>1, Zenon DEF TryAccept
  <1>5. Stops(P, V, n)
    BY AcceptCountStops, Zenon
  <1>6. n \in 0 .. Len(P) /\ takes(P, n) \in Nat
    BY <1>5, TakesType DEF Stops
  <1>7. M \in Seq(Entry) /\ Len(M) = n /\ \A k \in 1 .. n : M[k] = accepted(P, V, k)
    <2> HIDE DEF n
    <2>1. \A k \in 1 .. n : accepted(P, V, k) \in Entry
      BY <1>5, Moved, Zenon
    <2>2. QED
      BY <1>6, <2>1
  <1> HIDE DEF n, M
  <1>8. \A k \in 1 .. n : M[k].iid = P[k].iid /\ M[k].inst.value \in Value
    BY <1>5, <1>7, Moved
  <1>9. /\ R \in Seq(Entry)
        /\ Len(R) \in Nat
        /\ iids(P) = iids(M) \cup iids(R)
        /\ Distinct(M) /\ Distinct(R) /\ iids(M) \cap iids(R) = {}
    <2>1. Distinct(P)
      BY Zenon DEF Arranged
    <2>2. /\ R \in Seq(Entry)
          /\ iids(P) = iids(M) \cup iids(R)
          /\ Distinct(M) /\ Distinct(R) /\ iids(M) \cap iids(R) = {}
      <3>1. \A k \in 1 .. n : M[k].iid = P[k].iid
        BY <1>8, Zenon
      <3>2. QED
        BY <1>6, <1>7, <2>1, <3>1, SplitList, Zenon
    <2>3. QED
      BY <2>2
  <1>10. L \in Seq(Value)
    BY <1>6
  <1>11. waiting(V) \cup held(P) \subseteq waiting(L) \cup held(M) \cup held(R)
    BY <1>5, <1>7, ValuesKept, Zenon
  <1> HIDE DEF R, L
  <1>12. o \in Nat /\ Len(R) + o >= preexec_window
    BY <1>9, QueuesAssumption DEF open_count
  <1> HIDE DEF o
  <1>13. next + o <= MaxIid
    BY <1>4, Zenon
  <1> DEFINE F == opened(next, o, new)
  <1>14. /\ F \in Seq(Entry) /\ Len(F) = o
         /\ iids(F) = (next + 1) .. (next + o) /\ Distinct(F)
         /\ \A k \in 1 .. o : ~quorum_reached(F[k].inst.quorum)
    BY <1>2, <1>12, <1>13, Opened, Zenon
  <1>15. prepare_instances' = R \o F
    BY <1>3, Zenon DEF opened
  <1> HIDE DEF F
  <1>16. R \o F \in Seq(Entry) /\ Len(R \o F) = Len(R) + o /\ A \o M \in Seq(Entry)
    BY <1>7, <1>9, <1>14
  <1>17. TypeOK'
    <2>1. accept_reqs' \subseteq [iid : Iid, ballot : Ballot, value : Value]
      <3>1. \A k \in 1 .. n : M[k] \in Entry
        BY <1>7
      <3>2. \A k \in 1 .. n : M[k].iid \in Iid /\ M[k].inst.ballot \in Ballot
        BY <3>1, Zenon DEF Entry, InstanceType
      <3>3. QED
        BY <1>2, <1>4, <1>8, <3>2
    <2>2. next + o \in 0 .. MaxIid
      BY <1>2, <1>4, <1>12, QueuesAssumption
    <2>3. QED
      BY <1>4, <1>10, <1>15, <1>16, <2>1, <2>2, Zenon DEF TypeOK
  <1>18. Arranged(R \o F, A \o M, D, next + o)
    BY <1>1, <1>2, <1>7, <1>9, <1>12, <1>14, StillArranged, Zenon
  <1>19. HoldsValues(A \o M)
    <2>1. HoldsValues(M)
      BY <1>7, <1>8, Zenon DEF HoldsValues
    <2>2. QED
      BY <1>7, <2>1, Joined, Zenon
  <1>20. NoValueLost'
    <2>1. held(R \o F) = held(R) \cup held(F) /\ held(A \o M) = held(A) \cup held(M)
      BY <1>7, <1>9, <1>14, Joined, Zenon
    <2>2. S \subseteq waiting(L) \cup held(R \o F) \cup held(A \o M) \cup {f.value : f \in D}
      BY <1>11, <2>1, Zenon
    <2>3. QED
      BY <1>4, <1>15, <2>2, Zenon DEF NoValueLost, waiting
  <1>21. FrontIsNotStuck'
    <2>1. Len(R \o F) > 0 /\ quorum_reached((R \o F)[1].inst.quorum)
            => (R \o F)[1].inst.value = None /\ L = <<>>
      BY <1>5, <1>14, FrontAfter, Zenon DEF R, L
    <2>2. QED
      BY <1>4, <1>15, <2>1, Zenon DEF FrontIsNotStuck
  <1>22. WindowIsFull'
    BY <1>12, <1>15, <1>16 DEF WindowIsFull
  <1>23. QED
    BY <1>4, <1>15, <1>17, <1>18, <1>19, <1>20, <1>21, <1>22, Zenon DEF QueuesInv
-----------------------------------------------------------------------------
(* The handlers *)

\* The invariant holds at the start.
LEMMA InitInv == Init => QueuesInv
  <1> SUFFICES ASSUME Init
               PROVE  QueuesInv
    OBVIOUS
  <1>1. TypeOK
    BY QueuesAssumption DEF Init, TypeOK
  <1>2. Arranged(prepare_instances, accept_instances, freed, next_prepare_iid)
    BY DEF Init, Arranged, Distinct, iids
  <1>3. HoldsValues(accept_instances) /\ NoValueLost /\ FrontIsNotStuck /\ WindowIsFull
    BY DEF Init, HoldsValues, NoValueLost, FrontIsNotStuck, WindowIsFull
  <1>4. QED
    BY <1>1, <1>2, <1>3, Zenon DEF QueuesInv

\* What a handler starts from.
LEMMA Before ==
  ASSUME QueuesInv
  PROVE  /\ TypeOK
         /\ prepare_instances \in Seq(Entry) /\ accept_instances \in Seq(Entry)
         /\ values \in Seq(Value)
         /\ freed \in SUBSET [iid : Iid, value : Value] /\ submitted \in SUBSET ClientValue
         /\ Arranged(prepare_instances, accept_instances, freed, next_prepare_iid)
         /\ HoldsValues(accept_instances)
         /\ submitted \subseteq waiting(values) \cup held(prepare_instances)
              \cup held(accept_instances) \cup {f.value : f \in freed}
  BY Zenon DEF QueuesInv, TypeOK, NoValueLost, waiting

\* A dropped ack keeps the invariant.
LEMMA DroppedInv ==
  ASSUME QueuesInv, HandleDropped
  PROVE  QueuesInv'
  <1>1. TryAccept(prepare_instances, accept_instances, values) /\ freed' = freed
          /\ submitted' = submitted
    BY Zenon DEF HandleDropped
  <1>2. QED
    BY <1>1, Before, TryAcceptInv, Zenon

\* A value from a client keeps the invariant.
LEMMA SubmitInv ==
  ASSUME QueuesInv, NEW v \in ClientValue, HandleSubmit(v)
  PROVE  QueuesInv'
  <1>1. /\ TryAccept(prepare_instances, accept_instances, Append(values, v))
        /\ freed' = freed
        /\ submitted' = submitted \cup {v}
    BY Zenon DEF HandleSubmit
  <1>2. v \in Value /\ values \in Seq(Value)
    BY QueuesAssumption, Before
  <1>3. /\ Append(values, v) \in Seq(Value)
        /\ waiting(values) \subseteq waiting(Append(values, v))
        /\ v \in waiting(Append(values, v))
    BY <1>2 DEF waiting
  <1>4. submitted \cup {v} \subseteq waiting(Append(values, v)) \cup held(prepare_instances)
          \cup held(accept_instances) \cup {f.value : f \in freed}
    BY <1>3, Before, Zenon
  <1>5. submitted \cup {v} \in SUBSET ClientValue
    BY Before, Zenon
  <1>6. QED
    BY <1>1, <1>3, <1>4, <1>5, Before, TryAcceptInv, Zenon

\* The answers of the acceptors are well formed.
LEMMA AckTypes ==
  ASSUME TypeOK, NEW e \in Entry
  PROVE  /\ PrepareAcks(e) \subseteq [acceptor_id : AcceptorId, record : RecordType]
         /\ \A m \in AcceptAcks(e) : m.acceptor_id \in AcceptorId
  <1>1. e.inst.ballot \in Ballot /\ 0 \in Ballot
    BY ValueAssumption DEF Entry, InstanceType, Ballot
  <1>2. /\ \A r \in accept_reqs : r.ballot \in Ballot /\ r.value \in Value
        /\ \A b \in OtherBallots : b \in Ballot
    BY QueuesAssumption DEF TypeOK
  <1>3. Reports(e.iid, e.inst.ballot) \subseteq RecordType
    <2>1. \A b, o \in Ballot : \A v \in Value \cup {None} :
            [ballot |-> b, value_ballot |-> o, value |-> v] \in RecordType
      BY Zenon DEF RecordType
    <2>2. PICK b : b = e.inst.ballot
      OBVIOUS
    <2>3. [ballot |-> b, value_ballot |-> 0, value |-> None] \in RecordType
      BY <1>1, <2>1, <2>2, Zenon
    <2>4. \A r \in accept_reqs :
            [ballot |-> b, value_ballot |-> r.ballot, value |-> r.value] \in RecordType
      BY <1>1, <1>2, <2>1, <2>2, Zenon
    <2>5. \A o \in OtherBallots : \A v \in Value :
            [ballot |-> b, value_ballot |-> o, value |-> v] \in RecordType
      BY <1>1, <1>2, <2>1, <2>2, Zenon
    <2>6. {[ballot |-> b, value_ballot |-> r.ballot, value |-> r.value] :
             r \in {q \in accept_reqs : q.iid = e.iid /\ q.ballot < b}} \subseteq RecordType
      BY <2>4, Zenon
    <2>7. {[ballot |-> b, value_ballot |-> o, value |-> v] :
             o \in {x \in OtherBallots : x < b}, v \in Value \ ClientValue} \subseteq RecordType
      BY <2>5
    <2>8. QED
      BY <2>2, <2>3, <2>6, <2>7 DEF Reports
  <1>4. {[ballot |-> b, value_ballot |-> 0, value |-> None] : b \in OtherBallots} \subseteq RecordType
    BY <1>1, <1>2 DEF RecordType
  <1>5. PrepareAcks(e) \subseteq [acceptor_id : AcceptorId, record : RecordType]
    BY <1>3, <1>4, Zenon DEF PrepareAcks
  <1>6. \A m \in AcceptAcks(e) : m.acceptor_id \in AcceptorId
    BY Zenon DEF AcceptAcks
  <1>7. QED
    BY <1>5, <1>6, Zenon

\* A promise keeps the invariant.
LEMMA PrepareAckInv ==
  ASSUME QueuesInv, NEW k \in 1 .. Len(prepare_instances),
         NEW m \in PrepareAcks(prepare_instances[k]), HandlePrepareAck(k, m)
  PROVE  QueuesInv'
  <1>1. PICK P, i : P = prepare_instances /\ i = prepare_instances[k].inst
    OBVIOUS
  <1>2. P \in Seq(Entry) /\ k \in 1 .. Len(P) /\ P[k] \in Entry /\ i = P[k].inst
    BY <1>1, Before
  <1>3. i \in InstanceType /\ freed' = freed /\ submitted' = submitted
    BY <1>1, <1>2, Zenon DEF Entry, HandlePrepareAck
  <1>4. m \in [acceptor_id : AcceptorId, record : RecordType]
    BY <1>1, <1>2, AckTypes, Before, Zenon
  \* The invariant follows once the instance has become j and the queue W.
  <1>5. ASSUME NEW j \in InstanceType, NEW W \in Seq(Value),
               waiting(values) \subseteq waiting(W),
               i.value = None \/ j.value = i.value \/ i.value \in waiting(W),
               TryAccept(replaced(P, k, j), accept_instances, W)
        PROVE  QueuesInv'
    <2>1. PICK Q \in Seq(Entry) :
            /\ Q = replaced(P, k, j)
            /\ iids(Q) = iids(P)
            /\ Distinct(P) => Distinct(Q)
            /\ held(P) \subseteq held(Q) \cup {P[k].inst.value}
            /\ j.value # None => j.value \in held(Q)
      BY <1>2, Replaced, Zenon
    <2>2. held(P) \subseteq held(Q) \cup {i.value}
      BY <1>2, <2>1, Zenon
    <2>3. Arranged(Q, accept_instances, freed, next_prepare_iid)
      BY <1>1, <2>1, Before, Zenon DEF Arranged
    <2>4. None \notin held(P)
      BY Zenon DEF held
    <2>5. held(P) \subseteq held(Q) \cup waiting(W)
      BY <1>5, <2>1, <2>2, <2>4, Zenon
    <2>6. submitted \subseteq waiting(W) \cup held(Q) \cup held(accept_instances)
            \cup {f.value : f \in freed}
      BY <1>1, <1>5, <2>5, Before, Zenon
    <2>7. QED
      BY <1>3, <1>5, <2>1, <2>3, <2>6, Before, TryAcceptInv, Zenon
  <1>6. CASE TryAccept(replaced(P, k, proposer_receive_prepare_ack(i, m)),
                       accept_instances, after_promise(i, m))
    <2>1. /\ proposer_receive_prepare_ack(i, m) \in InstanceType
          /\ after_promise(i, m) \in Seq(Value)
          /\ waiting(values) \subseteq waiting(after_promise(i, m))
          /\ \/ i.value = None
             \/ proposer_receive_prepare_ack(i, m).value = i.value
             \/ i.value \in waiting(after_promise(i, m))
      BY <1>3, <1>4, Before, Promised, Zenon
    <2>2. QED
      BY <1>5, <1>6, <2>1, Zenon
  <1>7. CASE /\ proposer_next_ballot(id, i.ballot) <= MaxBallot
             /\ TryAccept(replaced(P, k, prepare_preempt(id, i)),
                          accept_instances, values)
    <2>1. prepare_preempt(id, i) \in InstanceType /\ prepare_preempt(id, i).value = i.value
      BY <1>3, <1>7, Preempted, Zenon
    <2>2. QED
      BY <1>5, <1>7, <2>1, Before, Zenon
  <1>8. QED
    BY <1>1, <1>6, <1>7, Zenon DEF HandlePrepareAck, replaced

\* An accept_ack keeps the invariant.
LEMMA AcceptAckInv ==
  ASSUME QueuesInv, NEW k \in 1 .. Len(accept_instances),
         NEW m \in AcceptAcks(accept_instances[k]), HandleAcceptAck(k, m)
  PROVE  QueuesInv'
  <1>1. PICK P, A, e, i, R, next :
          /\ P = prepare_instances /\ A = accept_instances /\ e = accept_instances[k]
          /\ i = proposer_receive_accept_ack(e.inst, m)
          /\ R = instance_remove(A, e.iid)
          /\ next = next_prepare_iid
    BY Zenon
  <1>2. /\ P \in Seq(Entry) /\ A \in Seq(Entry) /\ k \in 1 .. Len(A) /\ e \in Entry /\ e = A[k]
        /\ Arranged(P, A, freed, next) /\ HoldsValues(A)
        /\ submitted \subseteq waiting(values) \cup held(P) \cup held(A) \cup {f.value : f \in freed}
    BY <1>1, Before
  <1>3. /\ e.iid \in Iid /\ e.inst \in InstanceType /\ e.inst.value \in Value
        /\ e.iid \in iids(A) /\ e = [iid |-> e.iid, inst |-> e.inst]
    BY <1>2 DEF Entry, HoldsValues, iids
  <1>4. i \in InstanceType /\ i.value = e.inst.value
    BY <1>1, <1>2, <1>3, AckTypes, Acked, Before, Zenon
  <1>5. /\ R \in Seq(Entry) /\ Distinct(R) /\ iids(R) = iids(A) \ {e.iid} /\ HoldsValues(R)
        /\ held(A) \subseteq held(R) \cup {e.inst.value}
    <2>1. Distinct(A)
      BY <1>2, Zenon DEF Arranged
    <2>2. /\ R \in Seq(Entry) /\ Distinct(R) /\ iids(R) = iids(A) \ {A[k].iid}
          /\ held(A) \subseteq held(R) \cup {A[k].inst.value}
          /\ HoldsValues(A) => HoldsValues(R)
      <3>1. R = instance_remove(A, A[k].iid)
        BY <1>1, <1>2, Zenon
      <3>2. QED
        BY <1>2, <2>1, <3>1, Removed, Zenon
    <2>3. QED
      BY <1>2, <2>2, Zenon
  \* The instance has its quorum.
  <1>6. CASE /\ freed' = freed \cup {[iid |-> e.iid, value |-> i.value]}
             /\ submitted' = submitted
             /\ TryAccept(P, R, values)
    <2>1. PICK D : D = freed \cup {[iid |-> e.iid, value |-> i.value]}
      BY Zenon
    <2>2. D \in SUBSET [iid : Iid, value : Value]
      BY <1>3, <1>4, <2>1, Before
    <2>3. PICK new : D = freed \cup {new} /\ new.iid = e.iid /\ new.value = e.inst.value
      <3>1. PICK new : new = [iid |-> e.iid, value |-> i.value]
        BY Zenon
      <3>2. new.iid = e.iid /\ new.value = e.inst.value
        BY <1>4, <3>1
      <3>3. QED
        BY <2>1, <3>1, <3>2, Zenon
    <2>4. /\ {f.iid : f \in D} = {f.iid : f \in freed} \cup {e.iid}
          /\ {f.value : f \in D} = {f.value : f \in freed} \cup {e.inst.value}
      BY <2>3, Zenon
    <2>5. Arranged(P, R, D, next)
      <3>1. PICK p, a, r, d, x :
              /\ p = iids(P) /\ a = iids(A) /\ r = iids(R) /\ d = {f.iid : f \in freed}
              /\ x = {f.iid : f \in D}
        BY Zenon
      <3>2. /\ p \cap a = {} /\ p \cap d = {} /\ a \cap d = {} /\ p \cup a \cup d = 1 .. next
            /\ Distinct(P) /\ r = a \ {e.iid} /\ x = d \cup {e.iid} /\ e.iid \in a
        BY <1>2, <1>3, <1>5, <2>4, <3>1, Zenon DEF Arranged
      <3>3. p \cap r = {} /\ p \cap x = {} /\ r \cap x = {} /\ p \cup r \cup x = p \cup a \cup d
        BY <3>2, Zenon
      <3>4. QED
        BY <1>5, <3>1, <3>2, <3>3, Zenon DEF Arranged
    <2>6. submitted \subseteq waiting(values) \cup held(P) \cup held(R) \cup {f.value : f \in D}
      BY <1>2, <1>5, <2>4, Zenon
    <2>7. QED
      BY <1>1, <1>2, <1>5, <1>6, <2>1, <2>2, <2>5, <2>6, Before, TryAcceptInv, Zenon
  \* It waits for more answers.
  <1>7. CASE /\ freed' = freed
             /\ submitted' = submitted
             /\ TryAccept(P, replaced(A, k, i), values)
    <2>1. PICK B \in Seq(Entry) :
            /\ B = replaced(A, k, i)
            /\ iids(B) = iids(A)
            /\ Distinct(A) => Distinct(B)
            /\ held(A) \subseteq held(B) \cup {A[k].inst.value}
            /\ i.value # None => i.value \in held(B)
            /\ HoldsValues(A) /\ i.value \in Value => HoldsValues(B)
      BY <1>2, <1>4, Replaced, Zenon
    <2>2. HoldsValues(B) /\ held(A) \subseteq held(B)
      BY <1>2, <1>3, <1>4, <2>1, ValueAssumption, Zenon
    <2>3. Arranged(P, B, freed, next)
      BY <1>2, <2>1, Zenon DEF Arranged
    <2>4. submitted \subseteq waiting(values) \cup held(P) \cup held(B) \cup {f.value : f \in freed}
      BY <1>2, <2>2, Zenon
    <2>5. QED
      BY <1>1, <1>2, <1>7, <2>1, <2>2, <2>3, <2>4, Before, TryAcceptInv, Zenon
  \* It goes back to the front of the prepare list.
  <1>8. CASE /\ freed' = freed
             /\ submitted' = submitted
             /\ proposer_next_ballot(id, e.inst.ballot) <= MaxBallot
             /\ TryAccept(<<[e EXCEPT !.inst = prepare_preempt(id, @)]>> \o P, R, values)
    <2>1. PICK j : j = prepare_preempt(id, e.inst)
      OBVIOUS
    <2>2. j \in InstanceType /\ j.value = e.inst.value
      BY <1>3, <1>8, <2>1, Preempted, Zenon
    <2>3. PICK g : g = [e EXCEPT !.inst = j]
      BY Zenon
    <2>4. g \in Entry /\ g.iid = e.iid /\ g.inst.value = e.inst.value
      BY <1>2, <2>2, <2>3 DEF Entry
    <2>5. PICK G \in Seq(Entry) : G = <<g>> /\ Len(G) = 1 /\ G[1] = g
      <3>1. <<g>> \in Seq(Entry) /\ Len(<<g>>) = 1 /\ <<g>>[1] = g
        BY <2>4
      <3>2. QED
        BY <3>1, Zenon
    <2>6. Distinct(G) /\ iids(G) = {e.iid} /\ e.inst.value \in held(G)
      <3>1. 1 .. 1 = {1} /\ 1 .. Len(G) = {1} /\ e.inst.value # None
        BY <1>3, <2>5, ValueAssumption
      <3>2. QED
        BY <2>4, <2>5, <3>1 DEF Distinct, iids, held
    <2>7. G \o P \in Seq(Entry)
      BY <1>2
    <2>8. iids(G \o P) = {e.iid} \cup iids(P) /\ held(G \o P) = held(G) \cup held(P)
      BY <1>2, <2>6, Joined, Zenon
    <2>9. Arranged(G \o P, R, freed, next)
      <3>1. PICK p, a, r, d, x :
              /\ p = iids(P) /\ a = iids(A) /\ r = iids(R) /\ d = {f.iid : f \in freed}
              /\ x = iids(G \o P)
        BY Zenon
      <3>2. /\ p \cap a = {} /\ p \cap d = {} /\ a \cap d = {} /\ p \cup a \cup d = 1 .. next
            /\ Distinct(P) /\ r = a \ {e.iid} /\ x = {e.iid} \cup p /\ e.iid \in a
        BY <1>2, <1>3, <1>5, <2>8, <3>1, Zenon DEF Arranged
      <3>3. x \cap r = {} /\ x \cap d = {} /\ r \cap d = {} /\ x \cup r \cup d = p \cup a \cup d
        BY <3>2, Zenon
      <3>4. iids(G) \cap iids(P) = {}
        <4>1. e.iid \notin iids(P)
          BY <3>1, <3>2, Zenon
        <4>2. QED
          BY <2>6, <4>1, Zenon
      <3>5. Distinct(G \o P)
        BY <1>2, <2>6, <3>2, <3>4, ConcatDistinct, Zenon
      <3>6. QED
        BY <1>5, <3>1, <3>2, <3>3, <3>5, Zenon DEF Arranged
    <2>10. submitted \subseteq waiting(values) \cup held(G \o P) \cup held(R)
             \cup {f.value : f \in freed}
      BY <1>2, <1>5, <2>6, <2>8, Zenon
    <2>11. TryAccept(G \o P, R, values)
      BY <1>8, <2>1, <2>3, <2>5, Zenon
    <2>12. QED
      BY <1>1, <1>5, <1>8, <2>7, <2>9, <2>10, <2>11, Before, TryAcceptInv, Zenon
  <1>9. QED
    BY <1>1, <1>6, <1>7, <1>8, Zenon DEF HandleAcceptAck, replaced

\* Every step keeps the invariant.
LEMMA NextInv ==
  ASSUME QueuesInv, [Next]_vars
  PROVE  QueuesInv'
  <1>1. CASE \E v \in ClientValue : HandleSubmit(v)
    BY <1>1, SubmitInv, Zenon
  <1>2. CASE HandleDropped
    BY <1>2, DroppedInv, Zenon
  <1>3. CASE \E k \in 1 .. Len(prepare_instances) :
               \E m \in PrepareAcks(prepare_instances[k]) : HandlePrepareAck(k, m)
    BY <1>3, PrepareAckInv, Zenon
  <1>4. CASE \E k \in 1 .. Len(accept_instances) :
               \E m \in AcceptAcks(accept_instances[k]) : HandleAcceptAck(k, m)
    BY <1>4, AcceptAckInv, Zenon
  <1>5. CASE UNCHANGED vars
    <2>1. /\ values' = values /\ next_prepare_iid' = next_prepare_iid
          /\ prepare_instances' = prepare_instances /\ accept_instances' = accept_instances
          /\ submitted' = submitted /\ accept_reqs' = accept_reqs /\ freed' = freed
      BY <1>5 DEF vars
    <2>2. TypeOK /\ NoValueLost /\ FrontIsNotStuck /\ WindowIsFull
      BY Zenon DEF QueuesInv
    <2>3. TypeOK'
      BY <2>1, <2>2, Zenon DEF TypeOK
    <2>4. NoValueLost'
      BY <2>1, <2>2, Zenon DEF NoValueLost
    <2>5. FrontIsNotStuck'
      BY <2>1, <2>2, Zenon DEF FrontIsNotStuck
    <2>6. WindowIsFull'
      BY <2>1, <2>2, Zenon DEF WindowIsFull
    <2>7. QED
      BY <2>1, <2>3, <2>4, <2>5, <2>6, Zenon DEF QueuesInv
  <1>6. QED
    BY <1>1, <1>2, <1>3, <1>4, <1>5, Zenon DEF Next
-----------------------------------------------------------------------------
(* The theorems *)

\* The invariant of the queues: what every handler leaves once try_accept has run.
THEOREM QueuesInvariant == Spec => []QueuesInv
  BY InitInv, NextInv, PTL DEF Spec

\* The state of the proposer has its type, whatever the acceptors answer.
THEOREM QueuesTypes == Spec => []TypeOK
  <1>1. QueuesInv => TypeOK
    BY DEF QueuesInv
  <1>2. QED
    BY <1>1, QueuesInvariant, PTL

\* Every instance opened is in exactly one position of one list, or freed: no
\* preemption, no quorum and no loop of try_accept loses one or makes a second copy.
THEOREM InstancesOnce == Spec => []EachInstanceOnce
  <1>1. QueuesInv => EachInstanceOnce
    <2> SUFFICES ASSUME QueuesInv
                 PROVE  EachInstanceOnce
      OBVIOUS
    <2>1. PICK P, A, D, next :
            /\ P = prepare_instances /\ A = accept_instances /\ D = freed
            /\ next = next_prepare_iid
      BY Zenon
    <2>2. P \in Seq(Entry) /\ A \in Seq(Entry) /\ Arranged(P, A, D, next)
      BY <2>1, Before, Zenon
    <2>3. P \o A \in Seq(Entry) /\ iids(P \o A) = iids(P) \cup iids(A)
      BY <2>2, Joined
    <2>4. Distinct(P \o A)
      BY <2>2, ConcatDistinct, Zenon DEF Arranged
    <2>5. Cardinality(iids(P \o A)) = Len(P \o A)
      BY <2>3, <2>4, DistinctCount, Zenon
    <2>6. /\ iids(P \o A) \cap {f.iid : f \in D} = {}
          /\ iids(P \o A) \cup {f.iid : f \in D} = 1 .. next
      BY <2>2, <2>3, Zenon DEF Arranged
    <2>7. QED
      BY <2>1, <2>5, <2>6, Zenon DEF EachInstanceOnce
  <1>2. QED
    BY <1>1, QueuesInvariant, PTL

\* No submitted value is lost: it waits, an instance holds it, or a quorum accepted it.
THEOREM ValuesNeverLost == Spec => []NoValueLost
  <1>1. QueuesInv => NoValueLost
    BY DEF QueuesInv
  <1>2. QED
    BY <1>1, QueuesInvariant, PTL

\* try_accept leaves no prepared instance at the front that has, or could get, a value.
THEOREM FrontNeverStuck == Spec => []FrontIsNotStuck
  <1>1. QueuesInv => FrontIsNotStuck
    BY DEF QueuesInv
  <1>2. QED
    BY <1>1, QueuesInvariant, PTL

\* The window of prepared instances is full from the first message on.
THEOREM WindowStaysFull == Spec => []WindowIsFull
  <1>1. QueuesInv => WindowIsFull
    BY DEF QueuesInv
  <1>2. QED
    BY <1>1, QueuesInvariant, PTL
=============================================================================
