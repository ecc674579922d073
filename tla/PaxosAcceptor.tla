--------------------------- MODULE PaxosAcceptor ---------------------------
(***************************************************************************)
(* acceptor_record and the two decisions of src/paxos/acceptor.c on it.    *)
(* Nothing calls storage_save_final_value, so is_final is 0 in every       *)
(* record and is left out.                                                 *)
(***************************************************************************)
EXTENDS PaxosProposer

\* A record with ballot 0 stands for no record: proposers start above 0.
RecordType == [ballot : Ballot, value_ballot : Ballot, value : Value \cup {None}]

\* Mutant of apply_prepare: a promise is made whatever the record says.
apply_prepare_Forgets(r, m) == [r EXCEPT !.ballot = m.ballot]

apply_prepare(r, m) ==
  IF r.ballot >= m.ballot THEN r ELSE [r EXCEPT !.ballot = m.ballot]

apply_accept(r, m) ==
  IF r.ballot > m.ballot
    THEN r
    ELSE [ballot |-> m.ballot, value_ballot |-> m.ballot, value |-> m.value]
=============================================================================
