---------------------------- MODULE PaxosQuorum ----------------------------
(***************************************************************************)
(* struct quorum of src/paxos/quorum.c: the tally a proposer keeps, per    *)
(* instance and phase, of the acceptors that answered.  The operators are  *)
(* pure: each takes the struct and returns the struct after the call.      *)
(***************************************************************************)
EXTENDS Integers, FiniteSets

CONSTANT acceptors   \* the number of acceptors (conf->acceptors_count)

ASSUME AcceptorsAssumption == acceptors \in Nat \ {0}

AcceptorId == 0 .. acceptors - 1

\* The size of a quorum of n acceptors.
paxos_quorum(n) == (n \div 2) + 1

\* What a quorum has to be.
Majority == {Q \in SUBSET AcceptorId : 2 * Cardinality(Q) > acceptors}

(***************************************************************************)
(* An entry of acceptor_ids is 0 (not added) or 1 (any other int).         *)
(* `counted` is a history field: the acceptors the current count stands    *)
(* for, those for which quorum_add returned 1 since the last quorum_clear. *)
(***************************************************************************)
QuorumType == [count        : Nat,
               acceptor_ids : [AcceptorId -> {0, 1}],
               counted      : SUBSET AcceptorId]

\* The loop stops at q->quorum, so the entries from there on keep their value.
quorum_clear(q) ==
  [count        |-> 0,
   acceptor_ids |-> [id \in AcceptorId |->
                       IF id < paxos_quorum(acceptors) THEN 0 ELSE q.acceptor_ids[id]],
   counted      |-> {}]

\* The entries come from malloc: those quorum_clear leaves alone hold anything.
quorum_init ==
  {quorum_clear([count |-> 0, acceptor_ids |-> ids, counted |-> {}]) :
     ids \in [AcceptorId -> {0, 1}]}

\* What quorum_add returns: whether the acceptor is counted by this call.
quorum_adds(q, id) == q.acceptor_ids[id] = 0

\* Mutant of quorum_add: no test of the acceptor's entry.
quorum_add_Unchecked(q, id) ==
  [count        |-> q.count + 1,
   acceptor_ids |-> [q.acceptor_ids EXCEPT ![id] = 1],
   counted      |-> q.counted \cup {id}]

\* Mutant of quorum_add: the entry counts the answers.
quorum_add_Increments(q, id) ==
  [q EXCEPT !.count = IF quorum_adds(q, id) THEN @ + 1 ELSE @,
            !.acceptor_ids[id] = @ + 1,
            !.counted = @ \cup IF quorum_adds(q, id) THEN {id} ELSE {}]

quorum_add(q, id) ==
  IF quorum_adds(q, id)
    THEN [count        |-> q.count + 1,
          acceptor_ids |-> [q.acceptor_ids EXCEPT ![id] = 1],
          counted      |-> q.counted \cup {id}]
    ELSE q

\* Mutant of quorum_reached: one acceptor short.
quorum_reached_OneShort(q) == q.count + 1 >= paxos_quorum(acceptors)

\* Mutant of quorum_reached: one acceptor more than a quorum.
quorum_reached_Strict(q) == q.count > paxos_quorum(acceptors)

quorum_reached(q) == q.count >= paxos_quorum(acceptors)

\* The count is exactly the acceptors it stands for, and their entries are set.
TallyInv(q) ==
  /\ q.count = Cardinality(q.counted)
  /\ \A a \in q.counted : q.acceptor_ids[a] = 1
=============================================================================
