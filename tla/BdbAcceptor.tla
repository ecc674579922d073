---------------------------- MODULE BdbAcceptor ----------------------------
(***************************************************************************)
(* An acceptor with the storage of src/paxos/storage_bdb.c: a Berkeley DB  *)
(* database with one record per instance, which survives the process.      *)
(*                                                                         *)
(* A request is one transaction: acceptor.c begins it, reads the record,   *)
(* decides, puts the record and commits, and evacceptor.c then sends the   *)
(* record.  The process may die, and the machine may lose power, between   *)
(* any two of these, so they are steps of their own.                       *)
(*                                                                         *)
(* Berkeley DB itself is external.  A commit reaches the files; it reaches *)
(* the disk at once with bdb_sync, and later (Flush) without it            *)
(* (DB_TXN_WRITE_NOSYNC).  DB_RECOVER undoes what was not committed.       *)
(* Values are small enough for a record to fit into record_buf.            *)
(***************************************************************************)
EXTENDS AcceptorRequests

CONSTANTS
  Requested,   \* bound: the instances that requests are about
  MaxImages    \* bound: the system flushes its buffers before this many are possible

ASSUME BdbAssumption ==
  /\ MaxIid \in Nat
  /\ Requested \subseteq Iid
  /\ MaxImages \in Nat \ {0}

VARIABLES
  bdb_sync,         \* paxos_config.bdb_sync, the same in every run of the process
  bdb_trash_files,  \* paxos_config.bdb_trash_files, likewise
  process,  \* where the acceptor's process is
  db,       \* the records in the database, as the process reads them
  images,   \* the contents of the disk that a loss of power may leave
  txn,      \* the request at hand: its instance and the record it leads to
  misread,  \* history: a record could not be read and counted as missing
  sent      \* history: sent[iid] is the last record sent about iid

config == <<bdb_sync, bdb_trash_files>>
bvars  == <<config, process, db, images, txn, misread, sent>>

NoTxn == [iid |-> 0, record |-> NoRecord]
Empty == [iid \in Iid |-> NoRecord]

Database == [Iid -> RecordType]

BdbTypeOK ==
  /\ config \in BOOLEAN \X BOOLEAN
  /\ process \in {"down", "nostore", "idle", "begun", "committed"}
  /\ db \in Database
  /\ images \subseteq Database
  /\ txn \in [iid : 0 .. MaxIid, record : RecordType]
  /\ process \in {"begun", "committed"} => txn.iid \in Iid
  /\ misread \in BOOLEAN
  /\ sent \in Database
-----------------------------------------------------------------------------
\* storage_get_record, in the transaction: the record, or NULL when there is none
\* and also when Berkeley DB reports an error.
bdb_get_record(iid) == {db[iid], NoRecord}

\* storage_tx_begin; storage_get_record gave rec, and r is put in its place.
Begin(iid, rec, r) ==
  /\ process = "idle"
  /\ txn' = [iid |-> iid, record |-> r]
  /\ misread' = (misread \/ rec # db[iid])
  /\ process' = "begun"
  /\ UNCHANGED <<config, db, images, sent>>

\* acceptor_receive_prepare up to the commit: storage_save_prepare puts a new
\* record, or the old one with the new ballot.
BeginPrepare(iid, m) ==
  \E rec \in bdb_get_record(iid) : Begin(iid, rec, apply_prepare(rec, m))

\* acceptor_receive_accept up to the commit: storage_save_accept.
BeginAccept(iid, m) ==
  \E rec \in bdb_get_record(iid) : Begin(iid, rec, apply_accept(rec, m))

\* acceptor_receive_repeat up to the commit: it only reads.
BeginRepeat(iid) == \E rec \in bdb_get_record(iid) : Begin(iid, rec, rec)

\* Mutant of the key under which the record is put: off by one.
after_commit_KeyBefore ==
  [iid \in Iid \cup {txn.iid - 1} |-> IF iid = txn.iid - 1 THEN txn.record ELSE db[iid]]

\* The database after the commit.  A transaction that only read leaves it alone.
after_commit == [db EXCEPT ![txn.iid] = IF txn.record = NoRecord THEN @ ELSE txn.record]

\* Mutant of what a commit leaves for a loss of power: it never waits for the disk.
on_disk_NoSync(d) == images \cup {d}

\* What a loss of power may leave, once d is committed.
on_disk(d) == IF bdb_sync THEN {d} ELSE images \cup {d}

\* storage_tx_commit.
Commit ==
  /\ process = "begun"
  /\ db' = after_commit
  /\ images' = on_disk(after_commit)
  /\ Cardinality(images') <= MaxImages
  /\ process' = "committed"
  /\ UNCHANGED <<config, txn, misread, sent>>

\* Mutant of the answer: it is sent before the transaction is committed.
may_send_Early == process \in {"begun", "committed"}

\* acceptor.c commits before it returns the record to evacceptor.c.
may_send == process = "committed"

\* sendbuf_add_prepare_ack or sendbuf_add_accept_ack; no answer to the request to
\* repeat an instance without a record.
Send ==
  /\ may_send
  /\ sent' = [sent EXCEPT ![txn.iid] = IF txn.record = NoRecord THEN @ ELSE txn.record]
  /\ txn' = NoTxn
  /\ process' = "idle"
  /\ UNCHANGED <<config, db, images, misread>>
-----------------------------------------------------------------------------
\* The process is killed or fails an assertion.  What it has committed is in the
\* files.  A process without storage dies from its first request.
Crash ==
  /\ process # "down"
  /\ process' = "down"
  /\ txn' = NoTxn
  /\ UNCHANGED <<config, db, images, misread, sent>>

\* The machine loses power: the files are what the disk has.
LosePower ==
  /\ process' = "down"
  /\ txn' = NoTxn
  /\ db' \in images
  /\ images' = {db'}
  /\ UNCHANGED <<config, misread, sent>>

\* The operating system writes its buffers to the disk.
Flush ==
  /\ images' = {db}
  /\ UNCHANGED <<config, process, db, txn, misread, sent>>

\* Mutant of storage_open: the files are always removed.
opened_Trashes == {Empty}

\* The database storage_open opens: rm -r may fail, which is only logged.
opened == IF bdb_trash_files THEN {Empty, db} ELSE {db}

\* When there is no environment, storage_open goes on all the same, and the process
\* dies when bdb_init_db begins a transaction in it.
bdb_init_tx_handle == {"idle", "down"}

\* When there is no database, storage_open returns NULL; evacceptor_init does not
\* test for it, and the process runs without storage.
bdb_init_db == {"idle", "nostore"}

\* evacceptor_init and storage_open.
Start ==
  /\ process = "down"
  /\ process' \in bdb_init_tx_handle \cup bdb_init_db
  /\ db' \in opened
  /\ images' = IF db' = db THEN images ELSE {db'}
  /\ UNCHANGED <<config, txn, misread, sent>>

\* evacceptor_free and storage_close: DB->close writes the database to the disk.
Close ==
  /\ process = "idle"
  /\ process' = "down"
  /\ images' = {db}
  /\ UNCHANGED <<config, db, txn, misread, sent>>

BdbInit ==
  /\ bdb_sync \in BOOLEAN
  /\ bdb_trash_files \in BOOLEAN
  /\ process = "down"
  /\ db = Empty
  /\ images = {Empty}
  /\ txn = NoTxn
  /\ misread = FALSE
  /\ sent = Empty

BdbNext ==
  \/ \E iid \in Requested :
       \/ \E m \in Prepares : BeginPrepare(iid, m)
       \/ \E m \in Accepts : BeginAccept(iid, m)
       \/ BeginRepeat(iid)
  \/ Commit
  \/ Send
  \/ Crash
  \/ LosePower
  \/ Flush
  \/ Start
  \/ Close

BdbSpec == BdbInit /\ [][BdbNext]_bvars
-----------------------------------------------------------------------------
\* The record r says at least what s says: no lower promise, no older vote.
Covers(r, s) ==
  /\ r.ballot >= s.ballot
  /\ r.value_ballot >= s.value_ballot
  /\ s.value # None => r.value # None

\* The deployment that a proof of Paxos assumes of its acceptors.
Durable == bdb_sync /\ ~bdb_trash_files /\ ~misread

\* With bdb_sync, no promise and no vote that left the acceptor can be forgotten:
\* it is in the database, and on the disk whatever a loss of power leaves, at every
\* moment, also between the steps of a request.
AnswersAreDurable ==
  Durable => \A d \in images \cup {db} : \A iid \in Iid : Covers(d[iid], sent[iid])

\* Crashes, losses of power and restarts are invisible in the records: the database
\* changes only by the decisions of acceptor.c on some request.
RecordsFollowRequests ==
  [][Durable' => \E iid \in Iid :
       \/ \E m \in Prepares : db' = [db EXCEPT ![iid] = apply_prepare(@, m)]
       \/ \E m \in Accepts : db' = [db EXCEPT ![iid] = apply_accept(@, m)]]_db
=============================================================================
