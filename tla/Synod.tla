------------------------------- MODULE Synod -------------------------------
(***************************************************************************)
(* One instance (one iid) of the protocol of src/paxos/proposer.c and      *)
(* src/paxos/acceptor.c, driven by the message handlers of                 *)
(* src/evpaxos/evproposer.c and evacceptor.c.                              *)
(*                                                                         *)
(* The instances of a run do not read each other's state.  What the other  *)
(* instances decide for this one is nondeterministic here: when it gets    *)
(* its turn at the front of prepare_instances, and which client value is   *)
(* then at the front of the proposer's queue.                              *)
(*                                                                         *)
(* The network keeps every message ever sent, and a handler may take any   *)
(* of them, any number of times or never: a lost, delayed, duplicated or   *)
(* reordered message, a broken connection and a retransmission by          *)
(* proposer_check_timeouts (which sends the same message again) all are    *)
(* behaviours of this network.                                             *)
(***************************************************************************)
EXTENDS PaxosAcceptor

CONSTANTS
  Proposer,   \* the ids of the proposers
  Learner,    \* the learners connected to the acceptors
  MaxAcks     \* bound: no acceptor sends more different answers than this

ASSUME SynodAssumption ==
  /\ Proposer \subseteq 0 .. MAX_N_OF_PROPOSERS - 1
  /\ Learner \cap Proposer = {}
  /\ MaxAcks \in Nat
  /\ MaxBallot >= 2 * MAX_N_OF_PROPOSERS - 1

VARIABLES
  inst,          \* inst[p]: the instance at proposer p
  rec,           \* rec[a]: the record of the instance in acceptor a's storage
  prepare_req,   \* the messages sent so far, by type
  prepare_ack,
  accept_req,
  accept_ack,
  votes          \* history: votes[a] is every <<ballot, value>> a has stored

requests == <<prepare_req, accept_req>>
acks     == <<prepare_ack, accept_ack>>
vars     == <<inst, rec, prepare_req, prepare_ack, accept_req, accept_ack, votes>>

TypeOK ==
  /\ inst \in [Proposer -> InstanceType]
  /\ rec \in [AcceptorId -> RecordType]
  /\ prepare_req \subseteq [from : Proposer, ballot : Ballot]
  /\ accept_req \subseteq [from : Proposer, ballot : Ballot, value : Value]
  /\ prepare_ack \subseteq
       [to : Proposer, acceptor_id : AcceptorId, record : RecordType]
  /\ accept_ack \subseteq
       [to : SUBSET (Proposer \cup Learner), acceptor_id : AcceptorId, record : RecordType]
  /\ votes \in [AcceptorId -> SUBSET (Ballot \X Value)]
-----------------------------------------------------------------------------
(* Proposer *)

\* Mutant of try_accept: a client value is popped although a promise reported one.
try_accept_IgnoresReported(i) ==
  {i} \cup IF i.list = "prepare" /\ quorum_reached(i.quorum)
             THEN {proposer_accept(i, v) : v \in Value}
             ELSE {}

\* Mutant of try_accept: the result of the pop is not tested.
try_accept_Unchecked(i) ==
  {i} \cup IF i.list = "prepare" /\ quorum_reached(i.quorum)
             THEN {proposer_accept(i, i.value)}
             ELSE {}

\* try_accept, as far as this instance goes: it stays where it is (it is not at
\* the front, has no quorum, or no value is at hand), or it moves to the accept
\* phase with the value it has or with one popped from the client queue.
try_accept(i) ==
  {i} \cup IF i.list = "prepare" /\ quorum_reached(i.quorum)
             THEN {proposer_accept(i, v) :
                     v \in IF i.value = None THEN Value ELSE {i.value}}
             ELSE {}

\* p's instance becomes i, then try_accept runs and sends what it produced.
SettleAndSend(p, i) ==
  \E j \in try_accept(i) :
    /\ inst' = [inst EXCEPT ![p] = j]
    /\ accept_req' = accept_req \cup
         IF j.list = "accept" THEN {[from |-> p, ballot |-> j.ballot, value |-> j.value]}
                              ELSE {}

\* proposer_preexecute creates the instance and sends its first prepare.
Preexecute(p) ==
  /\ inst[p].list = "none"
  /\ \E i \in instance_new(p) :
       /\ inst' = [inst EXCEPT ![p] = i]
       /\ prepare_req' = prepare_req \cup {[from |-> p, ballot |-> i.ballot]}
  /\ UNCHANGED <<rec, accept_req, acks, votes>>

\* A client value, or a message of another instance: only try_accept concerns
\* this instance.
HandleOther(p) ==
  /\ inst[p].list = "prepare"
  /\ quorum_reached(inst[p].quorum)
  /\ SettleAndSend(p, inst[p])
  /\ UNCHANGED <<rec, prepare_req, acks, votes>>

\* The instance restarts its prepare phase with p's next ballot.
Preempt(p) ==
  LET i == prepare_preempt(p, inst[p])
  IN /\ i.ballot <= MaxBallot
     /\ inst' = [inst EXCEPT ![p] = i]
     /\ prepare_req' = prepare_req \cup {[from |-> p, ballot |-> i.ballot]}
     /\ UNCHANGED <<rec, accept_req, acks, votes>>

\* proposer_handle_prepare_ack; an ack that is late, stale or already counted
\* changes nothing.
HandlePrepareAck(p, m) ==
  /\ m.to = p
  /\ inst[p].list = "prepare"
  /\ \/ /\ m.record.ballot = inst[p].ballot
        /\ quorum_adds(inst[p].quorum, m.acceptor_id)
        /\ SettleAndSend(p, proposer_receive_prepare_ack(inst[p], m))
        /\ UNCHANGED <<rec, prepare_req, acks, votes>>
     \/ /\ m.record.ballot > inst[p].ballot
        /\ Preempt(p)

\* proposer_handle_accept_ack: an accept of the current ballot is counted (the
\* assertion on its value_ballot aborts the process); one of any other ballot,
\* higher or lower, sends the instance back to the prepare phase.  The try_accept
\* that follows finds it without a quorum of promises.
HandleAcceptAck(p, m) ==
  /\ p \in m.to
  /\ inst[p].list = "accept"
  /\ \/ /\ m.record.ballot = inst[p].ballot
        /\ m.record.value_ballot = inst[p].ballot
        /\ quorum_adds(inst[p].quorum, m.acceptor_id)
        /\ inst' = [inst EXCEPT ![p] = proposer_receive_accept_ack(@, m)]
        /\ UNCHANGED <<rec, requests, acks, votes>>
     \/ /\ m.record.ballot = inst[p].ballot
        /\ m.record.value_ballot # inst[p].ballot
        /\ inst' = [inst EXCEPT ![p].list = "aborted"]
        /\ UNCHANGED <<rec, requests, acks, votes>>
     \/ /\ m.record.ballot # inst[p].ballot
        /\ Preempt(p)
-----------------------------------------------------------------------------
(* Acceptor *)

\* How many different messages of a set of acks come from acceptor a.
AcksOf(a, sent) == Cardinality({m \in sent : m.acceptor_id = a})

\* The record, new or old, is the answer to the proposer that asked.
HandlePrepareReq(a, m) ==
  /\ rec' = [rec EXCEPT ![a] = apply_prepare(@, m)]
  /\ prepare_ack' = prepare_ack \cup {[to |-> m.from, acceptor_id |-> a, record |-> rec'[a]]}
  /\ AcksOf(a, prepare_ack') + AcksOf(a, accept_ack) <= MaxAcks
  /\ UNCHANGED <<inst, requests, accept_ack, votes>>

\* An accept goes to every connection, a refusal only to the one that asked.
HandleAcceptReq(a, m) ==
  LET r == apply_accept(rec[a], m)
      accepted == r.ballot = m.ballot
  IN /\ rec' = [rec EXCEPT ![a] = r]
     /\ accept_ack' = accept_ack \cup
          {[to          |-> IF accepted THEN Proposer \cup Learner ELSE {m.from},
            acceptor_id |-> a,
            record      |-> r]}
     /\ AcksOf(a, prepare_ack) + AcksOf(a, accept_ack') <= MaxAcks
     /\ votes' = [votes EXCEPT ![a] = IF accepted THEN @ \cup {<<m.ballot, m.value>>} ELSE @]
     /\ UNCHANGED <<inst, requests, prepare_ack>>
-----------------------------------------------------------------------------
Init ==
  /\ inst = [p \in Proposer |->
               [list |-> "none", ballot |-> 0, value_ballot |-> 0, value |-> None,
                quorum |-> [count        |-> 0,
                            acceptor_ids |-> [a \in AcceptorId |-> 0],
                            counted      |-> {}]]]
  /\ rec = [a \in AcceptorId |-> [ballot |-> 0, value_ballot |-> 0, value |-> None]]
  /\ prepare_req = {}
  /\ prepare_ack = {}
  /\ accept_req = {}
  /\ accept_ack = {}
  /\ votes = [a \in AcceptorId |-> {}]

ProposerNext(p) ==
  \/ Preexecute(p)
  \/ HandleOther(p)
  \/ \E m \in prepare_ack : HandlePrepareAck(p, m)
  \/ \E m \in accept_ack : HandleAcceptAck(p, m)

AcceptorNext(a) ==
  \/ \E m \in prepare_req : HandlePrepareReq(a, m)
  \/ \E m \in accept_req : HandleAcceptReq(a, m)

Next ==
  \/ \E p \in Proposer : ProposerNext(p)
  \/ \E a \in AcceptorId : AcceptorNext(a)

Spec == Init /\ [][Next]_vars
-----------------------------------------------------------------------------
\* The votes <<ballot, value>> that a majority of the acceptors cast.
chosen_votes ==
  {vote \in UNION {votes[a] : a \in AcceptorId} :
     \E Q \in Majority : \A a \in Q : vote \in votes[a]}

chosen == {vote[2] : vote \in chosen_votes}

\* No two values are ever chosen for the instance, whatever the interleaving of
\* the proposers' preemptions with lost, late and repeated messages.
Agreement == \A v, w \in chosen : v = w

\* Ballots are unique to a proposer, and a proposer never sends two values with
\* the same ballot.
OneValuePerBallot ==
  \A m, n \in accept_req : m.ballot = n.ballot => m = n

\* Phase 1 does its work: a proposer that has its quorum of promises holds the
\* value already chosen at a lower ballot, if there is one.
PreparedKnowsChosen ==
  \A p \in Proposer : \A vote \in chosen_votes :
    /\ inst[p].list = "prepare"
    /\ quorum_reached(inst[p].quorum)
    /\ vote[1] < inst[p].ballot
    => inst[p].value = vote[2]

\* proposer_receive_accept_ack removes and frees an instance, and with it the
\* only copy of its value, only when that value has been chosen.
FreedIsChosen ==
  \A p \in Proposer : inst[p].list = "freed" => inst[p].value \in chosen

\* The instance implements single-decree consensus.
Consensus == INSTANCE SingleDecree
ImplementsConsensus == Consensus!Spec
-----------------------------------------------------------------------------
(***************************************************************************)
(* The inductive invariant behind the properties above.                    *)
(***************************************************************************)

\* No value other than v was or can be chosen below ballot b.
SafeAt(b, v) ==
  \A c \in 1 .. b - 1 : \E Q \in Majority : \A a \in Q :
    \/ <<c, v>> \in votes[a]
    \/ rec[a].ballot > c /\ \A w \in Value : <<c, w>> \notin votes[a]

\* A vote answers an accept request, and the record holds the last vote and the
\* highest promise.
AcceptorInv(a) ==
  /\ rec[a].value_ballot <= rec[a].ballot
  /\ rec[a].value = None => rec[a].value_ballot = 0
  /\ rec[a].value # None => <<rec[a].value_ballot, rec[a].value>> \in votes[a]
  /\ \A vote \in votes[a] :
       /\ vote[1] <= rec[a].value_ballot
       /\ \E m \in accept_req : m.ballot = vote[1] /\ m.value = vote[2]

\* Acceptor a has promised ballot b, and value_ballot vb covers its votes below b.
Promised(a, b, vb) ==
  /\ rec[a].ballot >= b
  /\ \A vote \in votes[a] : vote[1] < b => vote[1] <= vb

\* A promise tells the truth about the votes below its ballot.
PrepareAckInv(m) ==
  /\ Promised(m.acceptor_id, m.record.ballot, m.record.value_ballot)
  /\ m.record.value = None => m.record.value_ballot = 0
  /\ m.record.value # None =>
       <<m.record.value_ballot, m.record.value>> \in votes[m.acceptor_id]

AcceptAckInv(m) ==
  /\ m.record.value = None => m.record.value_ballot = 0
  /\ m.record.value # None =>
       <<m.record.value_ballot, m.record.value>> \in votes[m.acceptor_id]

\* Ballots belong to one proposer, and requests carry safe values.
AcceptReqInv(m) ==
  /\ m.ballot > 0
  /\ m.ballot % MAX_N_OF_PROPOSERS = m.from
  /\ SafeAt(m.ballot, m.value)
  /\ m.ballot <= inst[m.from].ballot
  /\ m.ballot = inst[m.from].ballot =>
       /\ inst[m.from].list \in {"accept", "freed", "aborted"}
       /\ inst[m.from].value = m.value

ProposerInv(p) ==
  LET i == inst[p] IN
  /\ TallyInv(i.quorum)
  /\ i.list = "none" => i.ballot = 0 /\ i.value = None
  /\ i.list # "none" => i.ballot > 0 /\ i.ballot % MAX_N_OF_PROPOSERS = p
  /\ i.value = None => i.value_ballot = 0
  /\ i.value_ballot > 0 => \E a \in AcceptorId : <<i.value_ballot, i.value>> \in votes[a]
  /\ i.list = "prepare" => \A a \in i.quorum.counted : Promised(a, i.ballot, i.value_ballot)
  /\ i.list \in {"accept", "freed"} =>
       /\ \E m \in accept_req : m.ballot = i.ballot /\ m.value = i.value
       /\ \A a \in i.quorum.counted : <<i.ballot, i.value>> \in votes[a]
  /\ i.list = "freed" => quorum_reached(i.quorum)

\* The facts that together are preserved by every step.
IInv ==
  /\ TypeOK
  /\ \A a \in AcceptorId : AcceptorInv(a)
  /\ \A m \in prepare_ack : PrepareAckInv(m)
  /\ \A m \in accept_ack : AcceptAckInv(m)
  /\ \A m \in accept_req : AcceptReqInv(m)
  /\ OneValuePerBallot
  /\ \A p \in Proposer : ProposerInv(p)
=============================================================================
