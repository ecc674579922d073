-------------------------- MODULE AcceptorStorages --------------------------
(***************************************************************************)
(* The acceptor of a build: the build takes src/paxos/storage_mem.c when   *)
(* USE_MEM_STORE is on, and src/paxos/storage_bdb.c otherwise.             *)
(***************************************************************************)
EXTENDS MemAcceptor, BdbAcceptor

VARIABLE storage   \* the source file of the build

svars == <<storage, vars, bvars>>

StorageInit ==
  /\ storage \in {"storage_mem", "storage_bdb"}
  /\ Init
  /\ BdbInit
  /\ storage = "storage_mem" => config = <<FALSE, FALSE>>

StorageNext ==
  \/ storage = "storage_mem" /\ Next /\ UNCHANGED <<storage, bvars>>
  \/ storage = "storage_bdb" /\ BdbNext /\ UNCHANGED <<storage, vars>>

StorageSpec == StorageInit /\ [][StorageNext]_svars

\* Type correctness of the two acceptors: the table and the last answer of
\* storage_mem.c, the database, its disk and the request at hand of storage_bdb.c.
StorageTypeOK == TypeOK /\ BdbTypeOK
=============================================================================
