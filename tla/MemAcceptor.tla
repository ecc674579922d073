---------------------------- MODULE MemAcceptor ----------------------------
(***************************************************************************)
(* An acceptor with the storage of src/paxos/storage_mem.c: many           *)
(* instances, but room for MAX_RECORDS records only.  An instance shares   *)
(* its slot with every MAX_RECORDS-th other one, and the newer instance    *)
(* replaces the older one.                                                 *)
(*                                                                         *)
(* Values are taken to fit: a record is a fixed MAX_SIZE_RECORD bytes (8   *)
(* KB, header included), and storage_save_accept copies a value into it    *)
(* without looking at the size.  What a larger one can do is in Framing.   *)
(***************************************************************************)
EXTENDS AcceptorRequests

CONSTANT MAX_RECORDS   \* the number of slots

ASSUME RecordsAssumption ==
  /\ MAX_RECORDS \in Nat \ {0}
  /\ MaxIid \in Nat

VARIABLES
  running,  \* the process has not left through exit(1)
  records,  \* the slots of the storage
  answer    \* history: answer[iid] is the last record sent about iid

vars == <<running, records, answer>>

TypeOK ==
  /\ running \in BOOLEAN
  /\ records \in [0 .. MAX_RECORDS - 1 -> [iid : 0 .. MaxIid, record : RecordType]]
  /\ answer \in [Iid -> RecordType]
  /\ \A s \in 0 .. MAX_RECORDS - 1 : records[s].iid # 0 => records[s].iid % MAX_RECORDS = s

slot(iid) == iid % MAX_RECORDS

\* Mutant of the test in storage_get_record: an old instance counts as unknown.
too_old_Never(iid) == FALSE

\* storage_get_record leaves the process when a newer instance has the slot ...
too_old(iid) == iid < records[slot(iid)].iid

\* ... and otherwise returns the record of iid, if there is one.
storage_get_record(iid) ==
  IF records[slot(iid)].iid = iid THEN records[slot(iid)].record ELSE NoRecord

Exit(iid) ==
  /\ too_old(iid)
  /\ running' = FALSE
  /\ UNCHANGED <<records, answer>>

\* The record r of iid is stored and sent.
SaveAndAnswer(iid, r) ==
  /\ ~too_old(iid)
  /\ records' = [records EXCEPT ![slot(iid)] = [iid |-> iid, record |-> r]]
  /\ answer' = [answer EXCEPT ![iid] = r]
  /\ UNCHANGED running

\* handle_prepare_req and acceptor_receive_prepare.
HandlePrepareReq(iid, m) ==
  /\ running
  /\ Exit(iid) \/ SaveAndAnswer(iid, apply_prepare(storage_get_record(iid), m))

\* handle_accept_req and acceptor_receive_accept.
HandleAcceptReq(iid, m) ==
  /\ running
  /\ Exit(iid) \/ SaveAndAnswer(iid, apply_accept(storage_get_record(iid), m))

\* handle_repeat_req and acceptor_receive_repeat: no record, no answer.
HandleRepeatReq(iid) ==
  /\ running
  /\ \/ Exit(iid)
     \/ /\ ~too_old(iid)
        /\ answer' = [answer EXCEPT ![iid] =
             IF records[slot(iid)].iid = iid THEN storage_get_record(iid) ELSE @]
        /\ UNCHANGED <<running, records>>

Init ==
  /\ running = TRUE
  /\ records = [s \in 0 .. MAX_RECORDS - 1 |-> [iid |-> 0, record |-> NoRecord]]
  /\ answer = [iid \in Iid |-> NoRecord]

Next == \E iid \in Iid :
  \/ \E m \in Prepares : HandlePrepareReq(iid, m)
  \/ \E m \in Accepts : HandleAcceptReq(iid, m)
  \/ HandleRepeatReq(iid)

Spec == Init /\ [][Next]_vars
-----------------------------------------------------------------------------
\* What the acceptor says about an instance always follows, by the rules of
\* acceptor.c, from what it said before: no promise and no vote is forgotten,
\* although the slot of the instance may have gone to another one.
ImplementsOneRecordPerInstance ==
  [][\E iid \in Iid :
       /\ \A other \in Iid \ {iid} : answer'[other] = answer[other]
       /\ \/ \E m \in Prepares : answer'[iid] = apply_prepare(answer[iid], m)
          \/ \E m \in Accepts : answer'[iid] = apply_accept(answer[iid], m)]_answer

\* Why: what was said about an instance is what is stored, or a newer instance has
\* its slot and no request about the older one will be answered again.
StoredOrReplaced ==
  \A iid \in Iid : answer[iid] # NoRecord =>
    \/ records[iid % MAX_RECORDS] = [iid |-> iid, record |-> answer[iid]]
    \/ records[iid % MAX_RECORDS].iid > iid
=============================================================================
