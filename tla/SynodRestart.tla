---------------------------- MODULE SynodRestart ----------------------------
(***************************************************************************)
(* Synod with proposers that are stopped and started again.  proposer_new  *)
(* keeps nothing of the earlier run: next_prepare_iid is 0 and the ballots *)
(* begin at their first one.                                               *)
(***************************************************************************)
EXTENDS Synod

\* The process of p ends and a new one starts with the same id.  What was on its way
\* to the old process is lost with its connections; what it sent may still arrive.
Restart(p) ==
  /\ inst[p].list # "none"
  /\ inst' = [inst EXCEPT ![p] = [list |-> "none", ballot |-> 0, value_ballot |-> 0,
                                  value |-> None, quorum |-> @.quorum]]
  /\ prepare_ack' = {m \in prepare_ack : m.to # p}
  /\ accept_ack' = {[m EXCEPT !.to = @ \ {p}] : m \in accept_ack}
  /\ UNCHANGED <<rec, requests, votes>>

RestartNext == Next \/ \E p \in Proposer : Restart(p)

RestartSpec == Init /\ [][RestartNext]_vars
=============================================================================
