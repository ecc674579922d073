--------------------------- MODULE ProposerQueues ---------------------------
(***************************************************************************)
(* A proposer with all its instances: src/paxos/proposer.c driven by the   *)
(* handlers of src/evpaxos/evproposer.c.  Every handler ends in            *)
(* try_accept, which moves prepared instances to the accept phase as long  *)
(* as there are values, and then opens new instances.                      *)
(*                                                                         *)
(* The acceptors answer what they may answer: a promise reports nothing, a *)
(* value this proposer sent earlier, or one of another proposer; an answer *)
(* with another ballot than the instance's comes at any time.              *)
(* proposer_check_timeouts sends requests again and changes nothing here.  *)
(***************************************************************************)
EXTENDS PaxosAcceptor, Sublists

CONSTANTS
  id,              \* the id of the proposer
  preexec_window,  \* paxos_config.proposer_preexec_window
  ClientValue,     \* the values the clients of this proposer submit, each once
  OtherBallots,    \* the ballots of the other proposers
  MaxIid           \* bound: no instance beyond this one is opened

ASSUME QueuesAssumption ==
  /\ id \in 0 .. MAX_N_OF_PROPOSERS - 1
  /\ preexec_window \in Nat \ {0}
  /\ ClientValue \subseteq Value
  /\ OtherBallots \subseteq Ballot \ {0}
  /\ MaxIid \in Nat
  /\ proposer_next_ballot(id, 0) <= MaxBallot

VARIABLES
  values,             \* client values that wait for an instance
  next_prepare_iid,
  prepare_instances,  \* instances that wait for promises
  accept_instances,   \* instances that wait for accepts
  submitted,          \* history: the values the clients submitted
  accept_reqs,        \* history: the accept requests sent
  freed               \* history: the instances that got their accept quorum

vars == <<values, next_prepare_iid, prepare_instances, accept_instances,
          submitted, accept_reqs, freed>>

Iid == 1 .. MaxIid
Entry == [iid : Iid, inst : InstanceType]

TypeOK ==
  /\ values \in Seq(Value)
  /\ next_prepare_iid \in 0 .. MaxIid
  /\ prepare_instances \in Seq(Entry)
  /\ accept_instances \in Seq(Entry)
  /\ submitted \subseteq ClientValue
  /\ accept_reqs \subseteq [iid : Iid, ballot : Ballot, value : Value]
  /\ freed \subseteq [iid : Iid, value : Value]

\* Mutant of instance_remove: the list stays as it was.
instance_remove_Nothing(list, iid) == list

instance_remove(list, iid) == sublist(list, {k \in 1 .. Len(list) : list[k].iid # iid})
-----------------------------------------------------------------------------
\* Of the first n instances of a list, how many take a value from the queue.
takes(list, n) == rank({k \in 1 .. Len(list) : list[k].inst.value = None}, n)

\* Mutant of the loop of try_accept: one instance per message.
accept_count_AtMostOne(list, vals) ==
  IF /\ Len(list) > 0
     /\ quorum_reached(list[1].inst.quorum)
     /\ takes(list, 1) <= Len(vals)
    THEN 1
    ELSE 0

\* How many instances the loop of try_accept moves: proposer_accept fails at the
\* first one that is not prepared, or finds no value.
accept_count(list, vals) ==
  CHOOSE n \in 0 .. Len(list) :
    /\ \A k \in 1 .. n : quorum_reached(list[k].inst.quorum)
    /\ takes(list, n) <= Len(vals)
    /\ n < Len(list) => \/ ~quorum_reached(list[n + 1].inst.quorum)
                        \/ takes(list, n + 1) > Len(vals)

\* The k-th instance of the list, with its value, in the accept phase.
accepted(list, vals, k) ==
  LET i == list[k].inst
  IN [iid  |-> list[k].iid,
      inst |-> proposer_accept(i, IF i.value = None THEN vals[takes(list, k)] ELSE i.value)]

\* Mutant of the count in proposer_preexecute: the window is filled at the start only.
open_count_OnlyOnce(list) == IF next_prepare_iid = 0 THEN preexec_window ELSE 0

\* proposer_preexecute fills the window; a list beyond it opens nothing.
open_count(list) == IF Len(list) < preexec_window THEN preexec_window - Len(list) ELSE 0

\* try_accept, from the lists and the queue a handler leaves.
TryAccept(prepares, accepts, vals) ==
  LET n     == accept_count(prepares, vals)
      moved == [k \in 1 .. n |-> accepted(prepares, vals, k)]
      rest  == SubSeq(prepares, n + 1, Len(prepares))
      opens == open_count(rest)
  IN /\ accept_instances' = accepts \o moved
     /\ values' = SubSeq(vals, takes(prepares, n) + 1, Len(vals))
     /\ accept_reqs' = accept_reqs \cup
          {[iid |-> moved[k].iid, ballot |-> moved[k].inst.ballot, value |-> moved[k].inst.value] :
             k \in 1 .. n}
     /\ next_prepare_iid + opens <= MaxIid
     /\ next_prepare_iid' = next_prepare_iid + opens
     /\ \E new \in [1 .. opens -> instance_new(id)] :
          prepare_instances' = rest \o
            [k \in 1 .. opens |-> [iid |-> next_prepare_iid + k, inst |-> new[k]]]
-----------------------------------------------------------------------------
\* proposer_handle_client_msg.
HandleSubmit(v) ==
  /\ v \notin submitted
  /\ submitted' = submitted \cup {v}
  /\ TryAccept(prepare_instances, accept_instances, Append(values, v))
  /\ UNCHANGED freed

\* Mutant of the queue after a promise: the displaced value is dropped.
after_promise_Drops(i, m) == values

\* Mutant of the same: nothing tests whether there is a value to displace.
after_promise_Unchecked(i, m) ==
  IF m.record.value # None /\ m.record.value_ballot > i.value_ballot
    THEN Append(values, i.value)
    ELSE values

\* A value reported with a higher ballot displaces the one the instance has, which
\* goes to the back of the queue.
after_promise(i, m) ==
  IF m.record.value # None /\ i.value # None /\ m.record.value_ballot > i.value_ballot
    THEN Append(values, i.value)
    ELSE values

\* An ack that is dropped: its instance is not pending (an accept broadcast for
\* another proposer, a late answer), its ballot is old, or it is already counted.
\* What follows the dispatch runs all the same.
HandleDropped ==
  /\ TryAccept(prepare_instances, accept_instances, values)
  /\ UNCHANGED <<submitted, freed>>

\* proposer_handle_prepare_ack, for the instance at position k.
HandlePrepareAck(k, m) ==
  LET i == prepare_instances[k].inst
  IN /\ \/ /\ m.record.ballot = i.ballot
           /\ quorum_adds(i.quorum, m.acceptor_id)
           /\ TryAccept([prepare_instances EXCEPT ![k].inst = proposer_receive_prepare_ack(i, m)],
                        accept_instances, after_promise(i, m))
        \/ /\ m.record.ballot > i.ballot
           /\ proposer_next_ballot(id, i.ballot) <= MaxBallot
           /\ TryAccept([prepare_instances EXCEPT ![k].inst = prepare_preempt(id, i)],
                        accept_instances, values)
     /\ UNCHANGED <<submitted, freed>>

\* proposer_handle_accept_ack, for the instance at position k.  An answer with
\* another ballot, higher or lower, sends the instance to the front of the prepare
\* list.  (What the assertion on value_ballot stops is in module Synod.)
HandleAcceptAck(k, m) ==
  LET e    == accept_instances[k]
      i    == proposer_receive_accept_ack(e.inst, m)
      rest == instance_remove(accept_instances, e.iid)
  IN /\ \/ /\ m.record.ballot = e.inst.ballot
           /\ quorum_adds(e.inst.quorum, m.acceptor_id)
           /\ IF i.list = "freed"
                THEN /\ freed' = freed \cup {[iid |-> e.iid, value |-> i.value]}
                     /\ TryAccept(prepare_instances, rest, values)
                ELSE /\ TryAccept(prepare_instances,
                                  [accept_instances EXCEPT ![k].inst = i], values)
                     /\ UNCHANGED freed
        \/ /\ m.record.ballot # e.inst.ballot
           /\ proposer_next_ballot(id, e.inst.ballot) <= MaxBallot
           /\ TryAccept(<<[e EXCEPT !.inst = prepare_preempt(id, @)]>> \o prepare_instances,
                        rest, values)
           /\ UNCHANGED freed
     /\ UNCHANGED submitted
-----------------------------------------------------------------------------
\* What the votes of an acceptor may report for an instance in a promise of ballot
\* b: nothing, a value this proposer sent, or a value of another proposer.
Reports(iid, b) ==
  {[ballot |-> b, value_ballot |-> 0, value |-> None]}
    \cup {[ballot |-> b, value_ballot |-> r.ballot, value |-> r.value] :
            r \in {q \in accept_reqs : q.iid = iid /\ q.ballot < b}}
    \cup {[ballot |-> b, value_ballot |-> o, value |-> v] :
            o \in {x \in OtherBallots : x < b}, v \in Value \ ClientValue}

\* Promises of the instance's ballot, and the refusals with another ballot.
PrepareAcks(e) ==
  [acceptor_id : AcceptorId,
   record : Reports(e.iid, e.inst.ballot)
              \cup {[ballot |-> o, value_ballot |-> 0, value |-> None] : o \in OtherBallots}]

AcceptAcks(e) ==
  [acceptor_id : AcceptorId,
   record : {[ballot |-> e.inst.ballot, value_ballot |-> e.inst.ballot, value |-> e.inst.value]}
              \cup {[ballot |-> o, value_ballot |-> 0, value |-> None] : o \in OtherBallots}]

Init ==
  /\ values = <<>>
  /\ next_prepare_iid = 0
  /\ prepare_instances = <<>>
  /\ accept_instances = <<>>
  /\ submitted = {}
  /\ accept_reqs = {}
  /\ freed = {}

Next ==
  \/ \E v \in ClientValue : HandleSubmit(v)
  \/ HandleDropped
  \/ \E k \in 1 .. Len(prepare_instances) : \E m \in PrepareAcks(prepare_instances[k]) :
       HandlePrepareAck(k, m)
  \/ \E k \in 1 .. Len(accept_instances) : \E m \in AcceptAcks(accept_instances[k]) :
       HandleAcceptAck(k, m)

Spec == Init /\ [][Next]_vars
-----------------------------------------------------------------------------
held(list) == {list[k].inst.value : k \in 1 .. Len(list)} \ {None}

\* Every instance opened so far is in exactly one place: in one position of one of
\* the two lists, or freed.  instance_find returns the first match, so a second
\* copy would keep a stale ballot and quorum and be proposed again.
EachInstanceOnce ==
  LET all == prepare_instances \o accept_instances
  IN /\ Cardinality(iids(all)) = Len(all)
     /\ iids(all) \cap {f.iid : f \in freed} = {}
     /\ iids(all) \cup {f.iid : f \in freed} = 1 .. next_prepare_iid

\* A submitted value is never lost by preemptions and displacements: it waits in
\* the queue, an instance holds it, or it was accepted by a quorum.
NoValueLost ==
  submitted \subseteq {values[k] : k \in 1 .. Len(values)}
                        \cup held(prepare_instances) \cup held(accept_instances)
                        \cup {f.value : f \in freed}

\* try_accept leaves no work behind: if the instance at the front is prepared, it
\* has no value and none is waiting.
FrontIsNotStuck ==
  Len(prepare_instances) > 0 /\ quorum_reached(prepare_instances[1].inst.quorum)
    => prepare_instances[1].inst.value = None /\ values = <<>>

\* From the first message on, the window of prepared instances is full.
WindowIsFull == next_prepare_iid > 0 => Len(prepare_instances) >= preexec_window
=============================================================================
