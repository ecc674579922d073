-------------------------- MODULE ProposerLibrary --------------------------
(***************************************************************************)
(* struct proposer of src/paxos/proposer.c and the functions of its        *)
(* interface, as a caller of the library sees them: each takes the struct  *)
(* and gives the set of its outcomes, the struct after the call and what   *)
(* the call returns.  The struct holds the caller's timeout_iterator too,  *)
(* and the clock.                                                          *)
(*                                                                         *)
(* What is returned is a sequence: <<>> for NULL, <<n>> for an int, the    *)
(* fields of a request, or <<1, iid, ballot>> when an instance is          *)
(* preempted and its new prepare request written to out.                   *)
(***************************************************************************)
EXTENDS PaxosProposer, Timeouts, Sequences

CONSTANT id   \* the id of the proposer

proposer_new ==
  [values            |-> <<>>,
   next_prepare_iid  |-> 0,
   prepare_instances |-> <<>>,
   accept_instances  |-> <<>>,
   iter              |-> [pi |-> 0, ai |-> 0, timeout |-> 0],
   clock             |-> 0]

Outcome(p, ret) == [struct |-> p, ret |-> ret]

instance_find(list, iid) == {k \in DOMAIN list : list[k].iid = iid}

instance_remove(list, iid) == SelectSeq(list, LAMBDA e : e.iid # iid)

propose(p, v) == {Outcome([p EXCEPT !.values = Append(@, v)], <<>>)}

proposer_prepared_count(p) == {Outcome(p, <<Len(p.prepare_instances)>>)}

prepare(p) ==
  LET iid == p.next_prepare_iid + 1
  IN {Outcome([p EXCEPT !.next_prepare_iid = iid,
                        !.prepare_instances =
                           Append(@, [iid |-> iid, inst |-> i, created_at |-> p.clock])],
              <<iid, i.ballot>>) : i \in instance_new(id)}

\* prepare_preempt, on an entry of a list.
preempted(p, e) == [e EXCEPT !.inst = prepare_preempt(id, @), !.created_at = p.clock]

\* The value displaced by a promise that reports one of a higher ballot.
displaced(i, m) ==
  IF m.record.value # None /\ i.value # None /\ m.record.value_ballot > i.value_ballot
    THEN <<i.value>>
    ELSE <<>>

receive_prepare_ack(p, m) ==
  LET found == instance_find(p.prepare_instances, m.iid) IN
  IF found = {} THEN {Outcome(p, <<0>>)} ELSE
  LET k == CHOOSE k \in found : TRUE
      e == p.prepare_instances[k]
  IN IF m.record.ballot > e.inst.ballot
       THEN LET new == preempted(p, e)
            IN {Outcome([p EXCEPT !.prepare_instances[k] = new], <<1, new.iid, new.inst.ballot>>)}
     ELSE IF m.record.ballot = e.inst.ballot /\ quorum_adds(e.inst.quorum, m.acceptor_id)
       THEN {Outcome([p EXCEPT !.prepare_instances[k].inst = proposer_receive_prepare_ack(@, m),
                               !.values = @ \o displaced(e.inst, m)], <<0>>)}
     ELSE {Outcome(p, <<0>>)}

accept(p) ==
  IF \/ p.prepare_instances = <<>>
     \/ ~quorum_reached(Head(p.prepare_instances).inst.quorum)
     \/ Head(p.prepare_instances).inst.value = None /\ p.values = <<>>
    THEN {Outcome(p, <<>>)}
    ELSE LET e     == Head(p.prepare_instances)
             pops  == e.inst.value = None
             value == IF pops THEN Head(p.values) ELSE e.inst.value
         IN {Outcome([p EXCEPT !.prepare_instances = Tail(@),
                               !.accept_instances =
                                  Append(@, [e EXCEPT !.inst = proposer_accept(@, value)]),
                               !.values = IF pops THEN Tail(@) ELSE @],
                     <<e.iid, e.inst.ballot, value>>)}

\* An instance that gets its quorum is freed; the answer of another ballot preempts.
receive_accept_ack(p, m) ==
  LET found == instance_find(p.accept_instances, m.iid) IN
  IF found = {} THEN {Outcome(p, <<0>>)} ELSE
  LET k == CHOOSE k \in found : TRUE
      e == p.accept_instances[k]
      i == proposer_receive_accept_ack(e.inst, m)
  IN IF m.record.ballot # e.inst.ballot
       THEN LET new == preempted(p, e)
            IN {Outcome([p EXCEPT !.accept_instances = instance_remove(@, e.iid),
                                  !.prepare_instances = <<new>> \o @],
                        <<1, new.iid, new.inst.ballot>>)}
       ELSE {Outcome([p EXCEPT !.accept_instances =
                        IF i.list = "freed" THEN instance_remove(@, e.iid)
                                            ELSE [@ EXCEPT ![k].inst = i]], <<0>>)}

proposer_timeout_iterator(p) ==
  {Outcome([p EXCEPT !.iter = [pi |-> 0, ai |-> 0, timeout |-> p.clock]], <<>>)}

\* The entries of a list beyond position k that wait for answers for too long.
timedout(list, k, now) ==
  {j \in k + 1 .. Len(list) : /\ ~quorum_reached(list[j].inst.quorum)
                              /\ TRUE \in instance_has_timedout(now - list[j].created_at)}

\* next_timedout: the first of them, or 0 at the end of the list.
next_timedout(list, k, now) ==
  LET late == timedout(list, k, now)
  IN IF late = {} THEN 0 ELSE CHOOSE j \in late : \A l \in late : j <= l

timeout_iterator_prepare(p) ==
  LET j == next_timedout(p.prepare_instances, p.iter.pi, p.iter.timeout)
  IN IF j = 0
       THEN {Outcome([p EXCEPT !.iter.pi = Len(p.prepare_instances)], <<>>)}
       ELSE {Outcome([p EXCEPT !.iter.pi = j,
                               !.prepare_instances[j].created_at = p.iter.timeout],
                     <<p.prepare_instances[j].iid, p.prepare_instances[j].inst.ballot>>)}

timeout_iterator_accept(p) ==
  LET j == next_timedout(p.accept_instances, p.iter.ai, p.iter.timeout)
  IN IF j = 0
       THEN {Outcome([p EXCEPT !.iter.ai = Len(p.accept_instances)], <<>>)}
       ELSE {Outcome([p EXCEPT !.iter.ai = j,
                               !.accept_instances[j].created_at = p.iter.timeout],
                     <<p.accept_instances[j].iid, p.accept_instances[j].inst.ballot,
                       p.accept_instances[j].inst.value>>)}
=============================================================================
