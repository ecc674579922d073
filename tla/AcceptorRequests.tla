-------------------------- MODULE AcceptorRequests --------------------------
(***************************************************************************)
(* The requests an acceptor gets, about many instances: what the two       *)
(* storages, src/paxos/storage_mem.c and storage_bdb.c, have in common.    *)
(***************************************************************************)
EXTENDS PaxosAcceptor

CONSTANT MaxIid   \* bound: requests are about the instances 1 .. MaxIid

Iid == 1 .. MaxIid

\* storage_get_record found nothing: a NULL record.
NoRecord == [ballot |-> 0, value_ballot |-> 0, value |-> None]

Prepares == [ballot : Ballot \ {0}]
Accepts == [ballot : Ballot \ {0}, value : Value]
=============================================================================
