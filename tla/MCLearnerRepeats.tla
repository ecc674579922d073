-------------------------- MODULE MCLearnerRepeats --------------------------
\* Instances for TLC of the records that acceptors answer repeat requests from.
EXTENDS LearnerRepeats

\* All the records hold ballot 2; acceptors 0 and 1 stayed at 1 in all instances but
\* the last, where acceptor 1 went on; in the first instance acceptor 0 went on alone,
\* and acceptor 2 has no record of it.
MCRecords ==
  {[a \in AcceptorId |-> [i \in 1 .. MaxIid |-> 2]],
   [a \in AcceptorId |-> [i \in 1 .. MaxIid |-> IF a = 2 \/ (a = 1 /\ i = MaxIid) THEN 2 ELSE 1]],
   [a \in AcceptorId |-> [i \in 1 .. MaxIid |->
      IF i > 1 THEN 2 ELSE CASE a = 0 -> 2 [] a = 1 -> 1 [] a = 2 -> 0]]}
=============================================================================
