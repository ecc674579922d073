--------------------------- MODULE QuorumCounter ---------------------------
(***************************************************************************)
(* The life of one struct quorum (src/paxos/quorum.c): the proposer        *)
(* initialises it with its instance, adds the acceptors that answer, and   *)
(* clears it when the instance changes phase or ballot.                    *)
(***************************************************************************)
EXTENDS PaxosQuorum

VARIABLES
  q,      \* the struct
  added   \* history: the acceptors passed to quorum_add since the last clear

counterVars == <<q, added>>

CounterTypeOK ==
  /\ q \in QuorumType
  /\ added \subseteq AcceptorId

CounterInit ==
  /\ q \in quorum_init
  /\ added = {}

Add(id) ==
  /\ q' = quorum_add(q, id)
  /\ added' = added \cup {id}

Clear ==
  /\ q' = quorum_clear(q)
  /\ added' = {}

CounterNext == Clear \/ \E id \in AcceptorId : Add(id)

CounterSpec == CounterInit /\ [][CounterNext]_counterVars
-----------------------------------------------------------------------------
\* quorum_reached holds only when a majority of distinct acceptors answered in
\* the current phase: repeated answers, answers of an earlier phase and
\* uninitialised entries never count towards it.
ReachedNeedsMajority == quorum_reached(q) => added \in Majority

\* The acceptors with the ids 0 .. quorum-1, whose entries quorum_clear does
\* reset, always make a quorum once they have all answered.
LowIdsReachQuorum ==
  (\A id \in AcceptorId : id < paxos_quorum(acceptors) => id \in added)
    => quorum_reached(q)

\* The strengthening that makes both inductive: the count stands for acceptors that
\* answered, and an entry that quorum_clear resets is set only by a counted answer.
CountStandsForAnswers ==
  /\ TallyInv(q)
  /\ q.counted \subseteq added
  /\ \A id \in AcceptorId : id < paxos_quorum(acceptors) =>
       /\ id \in added => id \in q.counted
       /\ q.acceptor_ids[id] = 1 => id \in q.counted

\* The comments in quorum_add: an acceptor not added yet is counted, and 0 is
\* returned only for one that was already there.
NewAcceptorIsCounted ==
  [][\A id \in AcceptorId :
       id \notin added /\ added' = added \cup {id} => q'.count = q.count + 1]_counterVars
=============================================================================
