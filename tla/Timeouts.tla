----------------------------- MODULE Timeouts ------------------------------
(***************************************************************************)
(* How old a request gets before src/paxos/proposer.c sends it again: the  *)
(* time since inst->created_at, in microseconds, as timeval_diff computes  *)
(* it in an int.                                                           *)
(***************************************************************************)
EXTENDS Integers

CONSTANTS
  proposer_timeout,  \* paxos_config.proposer_timeout
  SECOND,            \* 1e6
  INT_MAX,           \* the largest int
  OutOfRange         \* what timeval_diff makes of a difference beyond INT_MAX

(***************************************************************************)
(* The difference of the seconds is a double that is converted to an int,  *)
(* which is undefined beyond INT_MAX: on x86 it gives the smallest int,    *)
(* and then timeval_diff returns 0; elsewhere it may give the largest.     *)
(***************************************************************************)
ASSUME TimeoutsAssumption ==
  /\ {proposer_timeout, SECOND, INT_MAX} \subseteq Nat \ {0}
  /\ OutOfRange \in {0, INT_MAX}

\* The difference of the seconds alone may be up to a second more than t.
timeval_diff(t) ==
  (IF t <= INT_MAX THEN {t} ELSE {}) \cup (IF t + SECOND > INT_MAX THEN {OutOfRange} ELSE {})

\* Mutant: an instance is timed out at one age only.
instance_has_timedout_Once(t) == {diff = proposer_timeout : diff \in timeval_diff(t)}

\* Microseconds are compared with the timeout.
instance_has_timedout(t) == {diff >= proposer_timeout : diff \in timeval_diff(t)}
=============================================================================
