--------------------------- MODULE LibraryProofs ---------------------------
(***************************************************************************)
(* Proofs about two parts of the library that stand alone: the tally of    *)
(* quorum.c, for any number of acceptors; and the acceptor with each of    *)
(* the two storages, for any number of slots, instances, ballots, values,  *)
(* requests, crashes, losses of power and restarts.                        *)
(***************************************************************************)
EXTENDS QuorumCounter, AcceptorStorages, QuorumTheorems
-----------------------------------------------------------------------------
(* quorum.c *)

CounterInv == CounterTypeOK /\ CountStandsForAnswers

\* Initialising, adding and clearing keep the count in step with the answers.
THEOREM CounterInvariance == CounterSpec => []CounterInv
  <1>1. CounterInit => CounterInv
    <2> SUFFICES ASSUME CounterInit PROVE CounterInv
      OBVIOUS
    <2>1. q \in QuorumType /\ TallyInv(q) /\ q.counted = {}
      BY InitialTally DEF CounterInit
    <2>2. \A id \in AcceptorId : id < paxos_quorum(acceptors) => q.acceptor_ids[id] = 0
      BY DEF CounterInit, quorum_init, quorum_clear
    <2>3. QED
      BY <2>1, <2>2 DEF CounterInit, CounterInv, CounterTypeOK, CountStandsForAnswers
  <1>2. CounterInv /\ [CounterNext]_counterVars => CounterInv'
    <2> SUFFICES ASSUME CounterInv, [CounterNext]_counterVars PROVE CounterInv'
      OBVIOUS
    <2>1. CASE Clear
      <3>1. q' \in QuorumType /\ TallyInv(q') /\ q'.counted = {}
        BY <2>1, ClearedTally DEF Clear, CounterInv, CounterTypeOK
      <3>2. \A id \in AcceptorId : id < paxos_quorum(acceptors) => q'.acceptor_ids[id] = 0
        BY <2>1 DEF Clear, quorum_clear
      <3>3. QED
        BY <2>1, <3>1, <3>2 DEF Clear, CounterInv, CounterTypeOK, CountStandsForAnswers
    <2>2. ASSUME NEW a \in AcceptorId, Add(a) PROVE CounterInv'
      <3>1. /\ q' \in QuorumType /\ TallyInv(q')
            /\ q'.counted \subseteq q.counted \cup {a}
        BY <2>2, AddedTally DEF Add, CounterInv, CounterTypeOK, CountStandsForAnswers
      <3>2. \A id \in AcceptorId : id < paxos_quorum(acceptors) =>
              /\ id \in added' => id \in q'.counted
              /\ q'.acceptor_ids[id] = 1 => id \in q'.counted
        BY <2>2 DEF Add, CounterInv, CounterTypeOK, CountStandsForAnswers, quorum_add, quorum_adds, QuorumType
      <3>3. QED
        BY <2>2, <3>1, <3>2 DEF Add, CounterInv, CounterTypeOK, CountStandsForAnswers
    <2>3. CASE UNCHANGED counterVars
      BY <2>3 DEF counterVars, CounterInv, CounterTypeOK, CountStandsForAnswers, TallyInv
    <2>4. QED
      BY <2>1, <2>2, <2>3 DEF CounterNext
  <1>3. QED
    BY <1>1, <1>2, PTL DEF CounterSpec

\* The tally has its type: an entry is set or not, and the count is a number.
THEOREM CounterTypes == CounterSpec => []CounterTypeOK
  BY CounterInvariance, PTL DEF CounterInv

\* The count stands for acceptors that answered since the last quorum_clear.
THEOREM CountIsSound == CounterSpec => []CountStandsForAnswers
  BY CounterInvariance, PTL DEF CounterInv

\* quorum_reached holds only when a majority of distinct acceptors answered.
THEOREM ReachedByMajority == CounterSpec => []ReachedNeedsMajority
  <1>1. CounterInv => ReachedNeedsMajority
    <2> SUFFICES ASSUME CounterInv, quorum_reached(q) PROVE added \in Majority
      BY DEF ReachedNeedsMajority
    <2>1. q.counted \in Majority
      BY ReachedTally DEF CounterInv, CounterTypeOK, CountStandsForAnswers
    <2>2. q.counted \subseteq added /\ added \subseteq AcceptorId
      BY DEF CounterInv, CounterTypeOK, CountStandsForAnswers
    <2>3. IsFiniteSet(added) /\ IsFiniteSet(q.counted)
      BY <2>2, AcceptorIdFinite, FS_Subset
    <2>4. Cardinality(q.counted) <= Cardinality(added)
      BY <2>2, <2>3, FS_Subset
    <2>5. Cardinality(q.counted) \in Nat /\ Cardinality(added) \in Nat
      BY <2>3, FS_CardinalityType
    <2>6. QED
      BY <2>1, <2>2, <2>4, <2>5, AcceptorsAssumption DEF Majority
  <1>2. QED
    BY <1>1, CounterInvariance, PTL

\* Whatever malloc returned, the acceptors with the lowest ids make a quorum.
THEOREM LowIdsSuffice == CounterSpec => []LowIdsReachQuorum
  <1>1. CounterInv => LowIdsReachQuorum
    <2> DEFINE Low == 0 .. paxos_quorum(acceptors) - 1
    <2> SUFFICES ASSUME CounterInv,
                        \A id \in AcceptorId : id < paxos_quorum(acceptors) => id \in added
                 PROVE  quorum_reached(q)
      BY DEF LowIdsReachQuorum
    <2>1. paxos_quorum(acceptors) \in Nat \ {0} /\ paxos_quorum(acceptors) <= acceptors
      BY AcceptorsAssumption DEF paxos_quorum
    <2>2. Low \subseteq q.counted
      BY <2>1, AcceptorsAssumption DEF AcceptorId, CounterInv, CountStandsForAnswers
    <2>3. IsFiniteSet(q.counted)
      BY AcceptorIdFinite, FS_Subset DEF CounterInv, CounterTypeOK, QuorumType
    <2>4. /\ IsFiniteSet(Low)
          /\ Cardinality(Low) = IF 0 > paxos_quorum(acceptors) - 1 THEN 0
                                ELSE paxos_quorum(acceptors) - 1 - 0 + 1
      <3>1. paxos_quorum(acceptors) - 1 \in Int /\ 0 \in Int
        BY <2>1
      <3>2. QED
        BY <3>1, FS_Interval, Zenon
    <2>5. Cardinality(Low) <= Cardinality(q.counted)
      BY <2>2, <2>3, FS_Subset, Zenon
    <2>6. Cardinality(q.counted) \in Nat
      BY <2>3, FS_CardinalityType
    <2>7. QED
      BY <2>1, <2>4, <2>5, <2>6 DEF quorum_reached, CounterInv, CountStandsForAnswers, TallyInv
  <1>2. QED
    BY <1>1, CounterInvariance, PTL
-----------------------------------------------------------------------------
(* Records *)

\* The decisions of acceptor.c yield records.
LEMMA ApplyType ==
  ASSUME NEW r \in RecordType
  PROVE  /\ \A m \in Prepares : apply_prepare(r, m) \in RecordType
         /\ \A m \in Accepts : apply_accept(r, m) \in RecordType
  BY DEF RecordType, Prepares, Accepts, apply_prepare, apply_accept, Ballot

\* A NULL record is a record.
LEMMA NoRecordType == NoRecord \in RecordType
  BY ValueAssumption DEF NoRecord, RecordType, Ballot
-----------------------------------------------------------------------------
(* storage_mem.c *)

\* The record in a slot is the last one sent about its instance.
StoredWasSent ==
  \A s \in 0 .. MAX_RECORDS - 1 :
    records[s].iid # 0 => records[s].record = answer[records[s].iid]

MemInv == TypeOK /\ StoredOrReplaced /\ StoredWasSent

\* Every instance has a slot.
LEMMA SlotType ==
  ASSUME NEW iid \in Iid
  PROVE  slot(iid) \in 0 .. MAX_RECORDS - 1 /\ slot(iid) = iid % MAX_RECORDS
  BY RecordsAssumption DEF Iid, slot

\* What storage_get_record returns, when it returns, is what was last said about
\* the instance.
LEMMA GetIsAnswer ==
  ASSUME MemInv, NEW iid \in Iid, ~too_old(iid)
  PROVE  storage_get_record(iid) = answer[iid] /\ answer[iid] \in RecordType
  <1> DEFINE s == slot(iid)
  <1>1. s \in 0 .. MAX_RECORDS - 1 /\ s = iid % MAX_RECORDS
    BY SlotType
  <1>2. records[s].iid \in 0 .. MaxIid /\ answer[iid] \in RecordType
    BY <1>1 DEF MemInv, TypeOK
  <1>3. iid \in Nat /\ iid # 0
    BY RecordsAssumption DEF Iid
  <1>4. CASE records[s].iid = iid
    BY <1>1, <1>2, <1>3, <1>4 DEF MemInv, StoredWasSent, storage_get_record
  <1>5. CASE records[s].iid # iid
    <2>1. ~(records[s].iid > iid)
      BY <1>2, <1>3, RecordsAssumption DEF too_old
    <2>2. records[s] # [iid |-> iid, record |-> answer[iid]]
      BY <1>5
    <2>3. answer[iid] = NoRecord
      BY <1>1, <2>1, <2>2 DEF MemInv, StoredOrReplaced
    <2>4. QED
      BY <1>2, <1>5, <2>3 DEF storage_get_record
  <1>6. QED
    BY <1>4, <1>5

\* Storing and sending a record keeps the invariant: the instance that loses its
\* slot is an older one.
LEMMA SaveKeeps ==
  ASSUME MemInv, NEW iid \in Iid, NEW r \in RecordType, SaveAndAnswer(iid, r)
  PROVE  MemInv'
  <1> DEFINE s == slot(iid)
  <1>1. s \in 0 .. MAX_RECORDS - 1 /\ s = iid % MAX_RECORDS
    BY SlotType
  <1>2. iid \in 1 .. MaxIid /\ MaxIid \in Nat
    BY RecordsAssumption DEF Iid
  <1>3. /\ records' = [records EXCEPT ![s] = [iid |-> iid, record |-> r]]
        /\ answer' = [answer EXCEPT ![iid] = r]
        /\ running' = running
        /\ ~(iid < records[s].iid)
    BY DEF SaveAndAnswer, too_old
  <1>4. TypeOK'
    BY <1>1, <1>2, <1>3 DEF MemInv, TypeOK, Iid
  <1>5. StoredOrReplaced'
    <2> SUFFICES ASSUME NEW j \in Iid, answer'[j] # NoRecord
                 PROVE  \/ records'[j % MAX_RECORDS] = [iid |-> j, record |-> answer'[j]]
                        \/ records'[j % MAX_RECORDS].iid > j
      BY DEF StoredOrReplaced
    <2>1. j % MAX_RECORDS \in 0 .. MAX_RECORDS - 1 /\ j \in 1 .. MaxIid
      BY SlotType DEF Iid
    <2>2. CASE j = iid
      BY <1>1, <1>3, <2>2 DEF MemInv, TypeOK
    <2>3. CASE j # iid /\ j % MAX_RECORDS # s
      BY <1>3, <2>1, <2>3 DEF MemInv, TypeOK, StoredOrReplaced
    <2>4. CASE j # iid /\ j % MAX_RECORDS = s
      <3>1. \/ records[s] = [iid |-> j, record |-> answer[j]]
            \/ records[s].iid > j
        BY <1>3, <2>4 DEF MemInv, TypeOK, StoredOrReplaced
      <3>2. records[s].iid >= j /\ records[s].iid \in 0 .. MaxIid
        BY <1>1, <2>1, <3>1, <1>2 DEF MemInv, TypeOK
      <3>3. iid > j
        BY <1>2, <1>3, <2>1, <2>4, <3>2
      <3>4. records'[s].iid = iid
        BY <1>1, <1>3 DEF MemInv, TypeOK
      <3>5. QED
        BY <2>4, <3>3, <3>4
    <2>5. QED
      BY <2>2, <2>3, <2>4
  <1>6. StoredWasSent'
    <2> SUFFICES ASSUME NEW t \in 0 .. MAX_RECORDS - 1, records'[t].iid # 0
                 PROVE  records'[t].record = answer'[records'[t].iid]
      BY DEF StoredWasSent
    <2>1. CASE t = s
      BY <1>1, <1>3, <2>1 DEF MemInv, TypeOK
    <2>2. CASE t # s
      <3>1. records'[t] = records[t]
        BY <1>3, <2>2 DEF MemInv, TypeOK
      <3>2. records[t].iid % MAX_RECORDS = t
        BY <3>1 DEF MemInv, TypeOK
      <3>3. records[t].iid # iid
        BY <1>1, <2>2, <3>2
      <3>4. records[t].iid \in Iid
        BY <1>2, <3>1 DEF MemInv, TypeOK, Iid
      <3>5. QED
        BY <1>3, <3>1, <3>3, <3>4 DEF MemInv, TypeOK, StoredWasSent
    <2>3. QED
      BY <2>1, <2>2
  <1>7. QED
    BY <1>4, <1>5, <1>6 DEF MemInv

\* A request to repeat an instance changes nothing: what is sent was said before.
LEMMA RepeatKeeps ==
  ASSUME MemInv, NEW iid \in Iid, HandleRepeatReq(iid), ~too_old(iid)
  PROVE  UNCHANGED <<records, answer>>
  <1>1. answer' = [answer EXCEPT ![iid] =
           IF records[slot(iid)].iid = iid THEN storage_get_record(iid) ELSE @]
        /\ records' = records
    BY Zenon DEF HandleRepeatReq, Exit
  <1>2. storage_get_record(iid) = answer[iid]
    BY GetIsAnswer
  <1>3. QED
    BY <1>1, <1>2 DEF MemInv, TypeOK

\* The three kinds of steps: the process stops, nothing changes, or a record that
\* follows from the last one is stored and sent.
LEMMA StepCases ==
  ASSUME MemInv, Next
  PROVE  \/ UNCHANGED <<records, answer>> /\ running' \in BOOLEAN
         \/ \E iid \in Iid : \E r \in RecordType :
              /\ SaveAndAnswer(iid, r)
              /\ \/ \E m \in Prepares : r = apply_prepare(answer[iid], m)
                 \/ \E m \in Accepts : r = apply_accept(answer[iid], m)
  <1>1. PICK iid \in Iid :
          \/ \E m \in Prepares : HandlePrepareReq(iid, m)
          \/ \E m \in Accepts : HandleAcceptReq(iid, m)
          \/ HandleRepeatReq(iid)
    BY DEF Next
  <1>2. CASE too_old(iid)
    BY <1>1, <1>2, Zenon DEF HandlePrepareReq, HandleAcceptReq, HandleRepeatReq, SaveAndAnswer, Exit
  <1>3. CASE ~too_old(iid)
    <2>1. storage_get_record(iid) = answer[iid] /\ answer[iid] \in RecordType
      BY <1>3, GetIsAnswer
    <2>2. ASSUME NEW m \in Prepares, HandlePrepareReq(iid, m)
          PROVE  /\ apply_prepare(answer[iid], m) \in RecordType
                 /\ SaveAndAnswer(iid, apply_prepare(answer[iid], m))
      BY <1>3, <2>1, <2>2, ApplyType DEF HandlePrepareReq, Exit
    <2>3. ASSUME NEW m \in Accepts, HandleAcceptReq(iid, m)
          PROVE  /\ apply_accept(answer[iid], m) \in RecordType
                 /\ SaveAndAnswer(iid, apply_accept(answer[iid], m))
      BY <1>3, <2>1, <2>3, ApplyType DEF HandleAcceptReq, Exit
    <2>4. HandleRepeatReq(iid) => UNCHANGED <<records, answer>> /\ running' \in BOOLEAN
      BY <1>3, RepeatKeeps, Zenon DEF HandleRepeatReq, Exit, MemInv, TypeOK
    <2>5. QED
      BY <1>1, <2>2, <2>3, <2>4
  <1>4. QED
    BY <1>2, <1>3

\* The storage and the answers stay in step.
THEOREM MemInvariance == Spec => []MemInv
  <1>1. Init => MemInv
    <2>1. QED
      BY NoRecordType, RecordsAssumption DEF Init, MemInv, TypeOK, StoredOrReplaced, StoredWasSent
  <1>2. MemInv /\ [Next]_vars => MemInv'
    <2> SUFFICES ASSUME MemInv, [Next]_vars PROVE MemInv'
      OBVIOUS
    <2>1. CASE UNCHANGED <<records, answer>> /\ running' \in BOOLEAN
      BY <2>1 DEF MemInv, TypeOK, StoredOrReplaced, StoredWasSent
    <2>2. CASE \E iid \in Iid : \E r \in RecordType : SaveAndAnswer(iid, r)
      BY <2>2, SaveKeeps
    <2>3. CASE UNCHANGED vars
      BY <2>1, <2>3 DEF vars, MemInv, TypeOK
    <2>4. QED
      BY <2>1, <2>2, <2>3, StepCases
  <1>3. QED
    BY <1>1, <1>2, PTL DEF Spec

\* The slots have their type: an instance is only ever in its own slot.
THEOREM MemTypes == Spec => []TypeOK
  BY MemInvariance, PTL DEF MemInv

\* What was said about an instance is stored, or a newer instance has its slot.
THEOREM NothingForgotten == Spec => []StoredOrReplaced
  BY MemInvariance, PTL DEF MemInv

\* storage_mem.c behaves, in what the acceptor says, like a storage with a record
\* for every instance: until the process exits, replaced slots are not noticed.
THEOREM MemImplementsOneRecord == Spec => ImplementsOneRecordPerInstance
  <1> DEFINE Said ==
        \E iid \in Iid :
          /\ \A other \in Iid \ {iid} : answer'[other] = answer[other]
          /\ \/ \E m \in Prepares : answer'[iid] = apply_prepare(answer[iid], m)
             \/ \E m \in Accepts : answer'[iid] = apply_accept(answer[iid], m)
  <1>1. MemInv /\ [Next]_vars => [Said]_answer
    <2> SUFFICES ASSUME MemInv, [Next]_vars, answer' # answer PROVE Said
      OBVIOUS
    <2>1. Next
      BY DEF vars
    <2>2. PICK iid \in Iid : \E r \in RecordType :
            /\ SaveAndAnswer(iid, r)
            /\ \/ \E m \in Prepares : r = apply_prepare(answer[iid], m)
               \/ \E m \in Accepts : r = apply_accept(answer[iid], m)
      BY <2>1, StepCases
    <2>3. PICK r \in RecordType :
            /\ SaveAndAnswer(iid, r)
            /\ \/ \E m \in Prepares : r = apply_prepare(answer[iid], m)
               \/ \E m \in Accepts : r = apply_accept(answer[iid], m)
      BY <2>2
    <2>4. answer'[iid] = r /\ \A other \in Iid \ {iid} : answer'[other] = answer[other]
      BY <2>3 DEF SaveAndAnswer, MemInv, TypeOK
    <2>5. QED
      BY <2>3, <2>4
  <1>2. QED
    BY <1>1, MemInvariance, PTL DEF Spec, ImplementsOneRecordPerInstance
-----------------------------------------------------------------------------
(* storage_bdb.c *)

\* The record r is what some request makes of the record s, or s itself.
Follows(r, s) ==
  \/ r = s
  \/ \E m \in Prepares : r = apply_prepare(s, m)
  \/ \E m \in Accepts : r = apply_accept(s, m)

\* What a durable deployment keeps: the disk has the database, the database covers
\* what was sent, and the request at hand follows from the record it is about.
Kept ==
  /\ images = {db}
  /\ \A iid \in Iid : db[iid].value_ballot <= db[iid].ballot
  /\ \A iid \in Iid : Covers(db[iid], sent[iid])
  /\ process = "begun" => Follows(txn.record, db[txn.iid])
  /\ process = "committed" => txn.record = db[txn.iid]

BdbInv == BdbTypeOK /\ (Durable => Kept)

\* There is a value of txn between two requests.
LEMMA NoTxnType == NoTxn \in [iid : 0 .. MaxIid, record : RecordType]
  BY NoRecordType, BdbAssumption DEF NoTxn

\* What follows from a record covers it: a request never takes a promise or a vote
\* back.
LEMMA FollowsCovers ==
  ASSUME NEW s \in RecordType, s.value_ballot <= s.ballot, NEW r, Follows(r, s)
  PROVE  /\ r \in RecordType
         /\ r.value_ballot <= r.ballot
         /\ Covers(r, s)
  <1>1. s.ballot \in Nat /\ s.value_ballot \in Nat
    BY ValueAssumption DEF RecordType, Ballot
  <1>2. CASE r = s
    BY <1>1, <1>2 DEF Covers
  <1>3. ASSUME NEW m \in Prepares, r = apply_prepare(s, m)
        PROVE  r.value_ballot <= r.ballot /\ Covers(r, s)
    <2>1. m.ballot \in Nat
      BY ValueAssumption DEF Prepares, Ballot
    <2>2. r.ballot = (IF s.ballot >= m.ballot THEN s.ballot ELSE m.ballot)
          /\ r.value_ballot = s.value_ballot /\ r.value = s.value
      BY <1>3 DEF apply_prepare, RecordType
    <2>3. QED
      BY <1>1, <2>1, <2>2 DEF Covers
  <1>4. ASSUME NEW m \in Accepts, r = apply_accept(s, m)
        PROVE  r.value_ballot <= r.ballot /\ Covers(r, s)
    <2>1. m.ballot \in Nat /\ m.value \in Value /\ None \notin Value
      BY ValueAssumption DEF Accepts, Ballot
    <2>2. CASE s.ballot > m.ballot
      BY <1>1, <1>4, <2>2 DEF apply_accept, Covers
    <2>3. CASE ~(s.ballot > m.ballot)
      <3>1. r.ballot = m.ballot /\ r.value_ballot = m.ballot /\ r.value # None
        BY <1>4, <2>1, <2>3 DEF apply_accept
      <3>2. QED
        BY <1>1, <2>1, <2>3, <3>1 DEF Covers
    <2>4. QED
      BY <2>2, <2>3
  <1>5. r \in RecordType
    BY ApplyType DEF Follows
  <1>6. QED
    BY <1>2, <1>3, <1>4, <1>5 DEF Follows

\* Covering is transitive.
LEMMA CoversTrans ==
  ASSUME NEW r \in RecordType, NEW s \in RecordType, NEW t \in RecordType,
         Covers(r, s), Covers(s, t)
  PROVE  Covers(r, t)
  BY ValueAssumption DEF Covers, RecordType, Ballot
\* The beginning of a request: iid is read as rec, which leads to r.
Begins(iid, rec, r) ==
  /\ process = "idle"
  /\ rec \in bdb_get_record(iid)
  /\ Follows(r, rec)
  /\ txn' = [iid |-> iid, record |-> r]
  /\ misread' = (misread \/ rec # db[iid])
  /\ process' = "begun"
  /\ UNCHANGED <<config, db, images, sent>>

\* The three kinds of requests begin like this.
LEMMA BeginCases ==
  ASSUME NEW iid \in Requested,
         \/ \E m \in Prepares : BeginPrepare(iid, m)
         \/ \E m \in Accepts : BeginAccept(iid, m)
         \/ BeginRepeat(iid)
  PROVE  \E rec, r : Begins(iid, rec, r)
  <1>1. ASSUME NEW m \in Prepares, BeginPrepare(iid, m)
        PROVE  \E rec, r : Begins(iid, rec, r)
    <2>1. PICK rec \in bdb_get_record(iid) : Begin(iid, rec, apply_prepare(rec, m))
      BY <1>1 DEF BeginPrepare
    <2>2. Begins(iid, rec, apply_prepare(rec, m))
      BY <2>1 DEF Begin, Begins, Follows
    <2>3. QED
      BY <2>2
  <1>2. ASSUME NEW m \in Accepts, BeginAccept(iid, m)
        PROVE  \E rec, r : Begins(iid, rec, r)
    <2>1. PICK rec \in bdb_get_record(iid) : Begin(iid, rec, apply_accept(rec, m))
      BY <1>2 DEF BeginAccept
    <2>2. Begins(iid, rec, apply_accept(rec, m))
      BY <2>1 DEF Begin, Begins, Follows
    <2>3. QED
      BY <2>2
  <1>3. ASSUME BeginRepeat(iid)
        PROVE  \E rec, r : Begins(iid, rec, r)
    <2>1. PICK rec \in bdb_get_record(iid) : Begin(iid, rec, rec)
      BY <1>3 DEF BeginRepeat
    <2>2. Begins(iid, rec, rec)
      BY <2>1 DEF Begin, Begins, Follows
    <2>3. QED
      BY <2>2
  <1>4. QED
    BY <1>1, <1>2, <1>3

\* Beginning a request keeps the invariant.
LEMMA BeginKeeps ==
  ASSUME BdbInv, NEW iid \in Requested, NEW rec, NEW r, Begins(iid, rec, r)
  PROVE  BdbInv'
  <1>1. iid \in Iid /\ iid \in 0 .. MaxIid
    BY BdbAssumption DEF Iid
  <1>2. rec \in RecordType
    BY <1>1, NoRecordType DEF Begins, bdb_get_record, BdbInv, BdbTypeOK, Database
  <1>3. r \in RecordType
    BY <1>2, ApplyType DEF Begins, Follows
  <1>4. BdbTypeOK'
    <2>1. misread' \in BOOLEAN
      BY Zenon DEF Begins
    <2>2. QED
      BY <1>1, <1>3, <2>1 DEF Begins, BdbInv, BdbTypeOK, config
  <1>5. ASSUME Durable' PROVE Kept'
    <2>1. bdb_sync /\ ~bdb_trash_files
      BY <1>5 DEF Begins, Durable, config
    <2>2. ~misread /\ rec = db[iid]
      BY <1>5, Zenon DEF Begins, Durable
    <2>3. Kept
      BY <2>1, <2>2 DEF BdbInv, Durable
    <2>4. txn'.record = r /\ txn'.iid = iid /\ db' = db /\ process' = "begun"
      BY DEF Begins
    <2>5. Follows(txn'.record, db'[txn'.iid])
      BY <2>2, <2>4 DEF Begins
    <2>6. QED
      BY <2>3, <2>4, <2>5 DEF Kept, Begins, Follows
  <1>6. QED
    BY <1>4, <1>5 DEF BdbInv
\* Committing keeps the invariant: with bdb_sync the disk has the record before
\* anyone can hear of it.
LEMMA CommitKeeps ==
  ASSUME BdbInv, Commit
  PROVE  BdbInv'
  <1>1. txn.iid \in Iid /\ txn.record \in RecordType /\ db \in Database
    BY DEF BdbInv, BdbTypeOK, Commit
  <1>2. db' = [db EXCEPT ![txn.iid] = IF txn.record = NoRecord THEN @ ELSE txn.record]
    BY DEF Commit, after_commit
  <1>3. db' \in Database
    BY <1>1, <1>2 DEF Database
  <1>4. images' \subseteq Database
    BY <1>3 DEF BdbInv, BdbTypeOK, Commit, on_disk
  <1>5. BdbTypeOK'
    BY <1>1, <1>3, <1>4 DEF BdbInv, BdbTypeOK, Commit, config
  <1>6. ASSUME Durable' PROVE Kept'
    <2>1. Durable /\ bdb_sync
      BY <1>6 DEF Commit, Durable, config
    <2>2. Kept
      BY <2>1 DEF BdbInv
    <2>3. images' = {db'}
      BY <2>1 DEF Commit, on_disk
    <2>4. Follows(txn.record, db[txn.iid]) /\ db[txn.iid] \in RecordType
          /\ db[txn.iid].value_ballot <= db[txn.iid].ballot
      BY <1>1, <2>2 DEF Kept, Commit, Database
    <2>5. txn.record.value_ballot <= txn.record.ballot /\ Covers(txn.record, db[txn.iid])
      BY <1>1, <2>4, FollowsCovers
    <2>6. db'[txn.iid] = txn.record
      <3>1. CASE txn.record # NoRecord
        BY <1>1, <1>2, <3>1 DEF Database
      <3>2. CASE txn.record = NoRecord
        <4>1. db'[txn.iid] = db[txn.iid]
          BY <1>1, <1>2, <3>2 DEF Database
        <4>2. txn.record = db[txn.iid]
          <5>1. ASSUME NEW m \in Prepares, txn.record = apply_prepare(db[txn.iid], m)
                PROVE  txn.record = db[txn.iid]
            <6>1. m.ballot > 0 /\ m.ballot \in Nat
              BY ValueAssumption DEF Prepares, Ballot
            <6>2. QED
              BY <2>4, <3>2, <5>1, <6>1 DEF apply_prepare, NoRecord, RecordType
          <5>2. ASSUME NEW m \in Accepts, txn.record = apply_accept(db[txn.iid], m)
                PROVE  txn.record = db[txn.iid]
            <6>1. m.ballot > 0 /\ m.ballot \in Nat
              BY ValueAssumption DEF Accepts, Ballot
            <6>2. QED
              BY <2>4, <3>2, <5>2, <6>1 DEF apply_accept, NoRecord
          <5>3. QED
            BY <2>4, <5>1, <5>2 DEF Follows
        <4>3. QED
          BY <4>1, <4>2
      <3>3. QED
        BY <3>1, <3>2
    <2>7. ASSUME NEW iid \in Iid
          PROVE  db'[iid].value_ballot <= db'[iid].ballot /\ Covers(db'[iid], sent'[iid])
      <3>1. sent' = sent /\ sent[iid] \in RecordType
        BY DEF Commit, BdbInv, BdbTypeOK, Database
      <3>2. CASE iid = txn.iid
        <4>1. Covers(txn.record, sent[iid])
          BY <1>1, <2>2, <2>4, <2>5, <3>1, <3>2, CoversTrans DEF Kept
        <4>2. QED
          BY <2>5, <2>6, <3>1, <3>2, <4>1
      <3>3. CASE iid # txn.iid
        <4>1. db'[iid] = db[iid]
          BY <1>1, <1>2, <3>3 DEF Database
        <4>2. QED
          BY <2>2, <3>1, <4>1 DEF Kept
      <3>4. QED
        BY <3>2, <3>3
    <2>8. process' = "committed" /\ txn' = txn
      BY DEF Commit
    <2>9. QED
      BY <2>3, <2>6, <2>7, <2>8 DEF Kept
  <1>7. QED
    BY <1>5, <1>6 DEF BdbInv

\* Sending keeps the invariant: what is sent is the record in the database.
LEMMA SendKeeps ==
  ASSUME BdbInv, Send
  PROVE  BdbInv'
  <1>1. txn.iid \in Iid /\ txn.record \in RecordType /\ sent \in Database
    BY DEF BdbInv, BdbTypeOK, Send, may_send
  <1>2. sent' = [sent EXCEPT ![txn.iid] = IF txn.record = NoRecord THEN @ ELSE txn.record]
    BY DEF Send
  <1>3. sent' \in Database
    BY <1>1, <1>2 DEF Database
  <1>4. BdbTypeOK'
    BY <1>3, NoTxnType DEF BdbInv, BdbTypeOK, Send, config
  <1>5. ASSUME Durable' PROVE Kept'
    <2>1. Durable
      BY <1>5 DEF Send, Durable, config
    <2>2. Kept
      BY <2>1 DEF BdbInv
    <2>3. txn.record = db[txn.iid]
      BY <2>2 DEF Kept, Send, may_send
    <2>4. ASSUME NEW iid \in Iid PROVE Covers(db[iid], sent'[iid])
      <3>1. sent'[iid] = sent[iid] \/ sent'[iid] = db[iid]
        BY <1>1, <1>2, <2>3 DEF Database
      <3>2. db[iid] \in RecordType
        BY DEF BdbInv, BdbTypeOK, Database
      <3>3. Covers(db[iid], db[iid])
        BY <3>2, ValueAssumption DEF Covers, RecordType, Ballot
      <3>4. QED
        BY <2>2, <3>1, <3>3 DEF Kept
    <2>5. db' = db /\ images' = images /\ process' = "idle"
      BY DEF Send
    <2>6. QED
      BY <2>2, <2>4, <2>5 DEF Kept
  <1>6. QED
    BY <1>4, <1>5 DEF BdbInv
\* The steps that change neither the records nor what was sent: a crash, a loss of
\* power, a flush, a start and an orderly end.
LEMMA RestKeeps ==
  ASSUME BdbInv, Crash \/ LosePower \/ Flush \/ Start \/ Close
  PROVE  BdbInv' /\ (Durable' => db' = db)
  <1>1. BdbTypeOK'
    <2>1. Empty \in Database
      BY NoRecordType DEF Empty, Database
    <2>2. CASE Crash
      BY <2>2, NoTxnType DEF BdbInv, BdbTypeOK, Crash, config
    <2>3. CASE LosePower
      BY <2>3, NoTxnType DEF BdbInv, BdbTypeOK, LosePower, config
    <2>4. CASE Flush
      BY <2>4 DEF BdbInv, BdbTypeOK, Flush, config
    <2>5. CASE Start
      <3>1. db' \in Database
        BY <2>1, <2>5 DEF BdbInv, BdbTypeOK, Start, opened
      <3>2. images' \subseteq Database
        BY <2>5, <3>1 DEF BdbInv, BdbTypeOK, Start
      <3>3. QED
        BY <2>5, <3>1, <3>2 DEF BdbInv, BdbTypeOK, Start, config, bdb_init_tx_handle, bdb_init_db
    <2>6. CASE Close
      BY <2>6 DEF BdbInv, BdbTypeOK, Close, config
    <2>7. QED
      BY <2>2, <2>3, <2>4, <2>5, <2>6
  <1>2. ASSUME Durable' PROVE Kept' /\ db' = db
    <2>1. Durable
      <3>1. UNCHANGED <<bdb_sync, bdb_trash_files, misread>>
        BY DEF Crash, LosePower, Flush, Start, Close, config
      <3>2. QED
        BY <1>2, <3>1 DEF Durable
    <2>2. Kept
      BY <2>1 DEF BdbInv
    <2>3. db' = db
      BY <2>1, <2>2 DEF Crash, LosePower, Flush, Start, Close, Durable, Kept, opened
    <2>4. images' = {db'}
      BY <2>2, <2>3 DEF Crash, LosePower, Flush, Start, Close, Kept
    <2>5. sent' = sent
      BY DEF Crash, LosePower, Flush, Start, Close
    <2>6. process' \in {"begun", "committed"} => process' = process /\ txn' = txn
      BY DEF Crash, LosePower, Flush, Start, Close, bdb_init_tx_handle, bdb_init_db
    <2>7. QED
      BY <2>2, <2>3, <2>4, <2>5, <2>6 DEF Kept
  <1>3. QED
    BY <1>1, <1>2 DEF BdbInv

\* The invariant holds in every state of every behaviour.
THEOREM BdbInvariance == BdbSpec => []BdbInv
  <1>1. BdbInit => BdbInv
    <2> SUFFICES ASSUME BdbInit PROVE BdbInv
      OBVIOUS
    <2>1. Empty \in Database
      BY NoRecordType DEF Empty, Database
    <2>2. BdbTypeOK
      BY <2>1, NoTxnType, Zenon DEF BdbInit, BdbTypeOK, config
    <2>3. Kept
      BY DEF BdbInit, Kept, Covers, Empty, NoRecord
    <2>4. QED
      BY <2>2, <2>3 DEF BdbInv
  <1>2. BdbInv /\ [BdbNext]_bvars => BdbInv'
    <2> SUFFICES ASSUME BdbInv, [BdbNext]_bvars PROVE BdbInv'
      OBVIOUS
    <2>1. ASSUME NEW iid \in Requested,
                 \/ \E m \in Prepares : BeginPrepare(iid, m)
                 \/ \E m \in Accepts : BeginAccept(iid, m)
                 \/ BeginRepeat(iid)
          PROVE  BdbInv'
      BY <2>1, BeginCases, BeginKeeps
    <2>2. CASE Commit
      BY <2>2, CommitKeeps
    <2>3. CASE Send
      BY <2>3, SendKeeps
    <2>4. CASE Crash \/ LosePower \/ Flush \/ Start \/ Close
      BY <2>4, RestKeeps
    <2>5. CASE UNCHANGED bvars
      BY <2>5 DEF bvars, config, BdbInv, BdbTypeOK, Durable, Kept, Follows
    <2>6. QED
      BY <2>1, <2>2, <2>3, <2>4, <2>5 DEF BdbNext
  <1>3. QED
    BY <1>1, <1>2, PTL DEF BdbSpec

\* With bdb_sync no promise and no vote that left the acceptor is ever forgotten, by
\* the database or by the disk, whatever crashes and losses of power happen.
THEOREM AnswersSurvive == BdbSpec => []AnswersAreDurable
  <1>1. BdbInv => AnswersAreDurable
    BY DEF BdbInv, Kept, AnswersAreDurable
  <1>2. QED
    BY <1>1, BdbInvariance, PTL

\* Crashes, losses of power and restarts are invisible in the records.
THEOREM OnlyRequestsChangeRecords == BdbSpec => RecordsFollowRequests
  <1> DEFINE Requests ==
        Durable' => \E iid \in Iid :
          \/ \E m \in Prepares : db' = [db EXCEPT ![iid] = apply_prepare(@, m)]
          \/ \E m \in Accepts : db' = [db EXCEPT ![iid] = apply_accept(@, m)]
  <1>1. BdbInv /\ [BdbNext]_bvars => [Requests]_db
    <2> SUFFICES ASSUME BdbInv, [BdbNext]_bvars, db' # db, Durable'
                 PROVE  Requests
      OBVIOUS
    <2>1. Commit
      BY RestKeeps DEF BdbNext, bvars, BeginPrepare, BeginAccept, BeginRepeat, Begin, Send
    <2>2. Kept
      BY <2>1 DEF Commit, Durable, config, BdbInv
    <2>3. txn.iid \in Iid /\ db \in Database /\ Follows(txn.record, db[txn.iid])
      BY <2>1, <2>2 DEF BdbInv, BdbTypeOK, Commit, Kept
    <2>4. db' = [db EXCEPT ![txn.iid] = txn.record] /\ txn.record # db[txn.iid]
      BY <2>1, <2>3, Zenon DEF Commit, after_commit, Database
    <2>5. QED
      BY <2>3, <2>4, Zenon DEF Follows
  <1>2. QED
    BY <1>1, BdbInvariance, PTL DEF BdbSpec, RecordsFollowRequests

\* The database, the disk and the request at hand have their types.
THEOREM BdbTypes == BdbSpec => []BdbTypeOK
  BY BdbInvariance, PTL DEF BdbInv
-----------------------------------------------------------------------------
(* The acceptor of a build *)

\* A build takes the steps of the acceptor with its storage, and the other one,
\* which is not in the program, does not move: what is proved of each storage holds
\* of a build.
LEMMA BuildHasOneStorage == StorageSpec => Spec /\ BdbSpec
  <1>1. StorageInit => Init /\ BdbInit
    BY DEF StorageInit
  <1>2. [StorageNext]_svars => [Next]_vars /\ [BdbNext]_bvars
    BY DEF StorageNext, svars
  <1>3. QED
    BY <1>1, <1>2, PTL DEF StorageSpec, Spec, BdbSpec

\* In every build the slots, the database, the disk and the answers have their types.
THEOREM StorageTypes == StorageSpec => []StorageTypeOK
  <1>1. TypeOK /\ BdbTypeOK => StorageTypeOK
    BY DEF StorageTypeOK
  <1>2. QED
    BY <1>1, BuildHasOneStorage, MemTypes, BdbTypes, PTL
=============================================================================
