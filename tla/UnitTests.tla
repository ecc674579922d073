----------------------------- MODULE UnitTests ------------------------------
(***************************************************************************)
(* The unit tests of src/unit, run against the model: each test is the     *)
(* sequence of library calls it makes, with the results it asserts.  The   *)
(* libraries are those that the other modules check: ProposerLibrary,      *)
(* LearnerLibrary and the decisions of PaxosAcceptor.                      *)
(*                                                                         *)
(* A call may have several outcomes, because quorum_init leaves part of    *)
(* its array as malloc made it; a test passes when it does in all of them. *)
(***************************************************************************)
EXTENDS ProposerLibrary, LearnerLibrary, PaxosAcceptor

LOCAL INSTANCE SequencesExt

CONSTANTS v, w   \* the values of the tests

VARIABLES
  test,     \* the test that runs
  pc,       \* how many of its calls have been made
  struct,   \* the proposer, learner or acceptor under test
  passes    \* whether every assertion held so far

testVars == <<test, pc, struct, passes>>

\* A call, its arguments, and the results that the test accepts.
Call(f, args, results) == <<[call |-> f, args |-> args, results |-> results]>>

\* A result that the test does not look at.
Unchecked == {}

quorum == paxos_quorum(acceptors)

\* A piece of a test, for 0, 1, ... n - 1.
Times(n, piece(_)) == FlattenSeq([i \in 1 .. n |-> piece(i - 1)])

\* The ballots of the proposer: the first, and the one after a preemption.
b1 == proposer_next_ballot(id, 0)
b2 == proposer_next_ballot(id, b1)
-----------------------------------------------------------------------------
\* The calls of proposer_unittest.cc.
Record(ballot, value_ballot, value) ==
  [ballot |-> ballot, value_ballot |-> value_ballot, value |-> value]

Ack(a, iid, record) == [acceptor_id |-> a, iid |-> iid, record |-> record]

Prepare(iid) == Call("prepare", <<>>, {<<iid, b1>>})
Propose(value) == Call("propose", value, Unchecked)
Promise(a, iid, record, results) == Call("receive_prepare_ack", Ack(a, iid, record), results)
Accepts(results) == Call("accept", <<>>, results)
Accepted(a, iid, record, results) == Call("receive_accept_ack", Ack(a, iid, record), results)
Count(n) == Call("prepared_count", <<>>, {<<n>>})
Preempts(iid) == {<<1, iid, b>> : b \in b1 + 1 .. MaxBallot}
Usleep == Call("usleep", proposer_timeout, Unchecked)
Iterator == Call("timeout_iterator", <<>>, Unchecked)
TimeoutPrepare(results) == Call("timeout_iterator_prepare", <<>>, results)
TimeoutAccept(results) == Call("timeout_iterator_accept", <<>>, results)

\* The loop of most tests: a quorum of promises that report a record.
Promises(iid, record) == Times(quorum, LAMBDA a : Promise(a, iid, record, {<<0>>}))
Acceptances(iid, b) == Times(quorum, LAMBDA a : Accepted(a, iid, Record(b, b, None), {<<0>>}))

TestPrepare == Times(10, LAMBDA i : Prepare(i + 1)) \o Count(10)

TestPrepareAndAccept ==
  Prepare(1) \o Promises(1, Record(b1, 0, None)) \o Accepts({<<>>}) \o Propose(v)
    \o Accepts({<<1, b1, v>>}) \o Acceptances(1, b1)

TestPreparePreempted ==
  Prepare(1) \o Propose(v) \o Promise(1, 1, Record(b1 + 1, 0, None), Preempts(1))
    \o Promises(1, Record(b2, 0, None)) \o Accepts({<<1, b2, v>>})

TestPrepareAlreadyClosed ==
  Prepare(1) \o Propose(v) \o Promise(1, 1, Record(b1 + 1, 0, w), Preempts(1))
    \o Promises(1, Record(b2, 0, w)) \o Accepts({<<>>})
    \o Prepare(2) \o Promises(2, Record(b1, 0, None)) \o Accepts({<<2, b1, v>>})

TestAcceptPreempted ==
  Prepare(1) \o Propose(v) \o Promises(1, Record(b1, 0, None)) \o Accepts({<<1, b1, v>>})
    \o Accepted(0, 1, Record(b1 + 1, 0, None), Preempts(1)) \o Count(1)
    \o Promises(1, Record(b2, 0, None)) \o Accepts({<<1, b2, v>>}) \o Acceptances(1, b2)

TestPreparedCount ==
  Times(10, LAMBDA i : Prepare(i + 1) \o Propose(v) \o Count(i + 1))
    \o Times(10, LAMBDA i : Accepts(Unchecked)) \o Count(10)
    \o Times(10, LAMBDA i : Promise(0, i + 1, Record(b1, 0, None), Unchecked)
                              \o Promise(1, i + 1, Record(b1, 0, None), Unchecked)
                              \o Accepts(Unchecked) \o Count(10 - (i + 1)))

TestPendingPrepareShouldTimeout ==
  Prepare(1) \o Usleep \o Iterator \o TimeoutPrepare({<<1, b1>>}) \o TimeoutPrepare({<<>>})

TestPreparedShouldNotTimeout ==
  Prepare(1) \o Prepare(2) \o Promises(1, Record(b1, 0, None)) \o Usleep \o Iterator
    \o TimeoutPrepare({<<2, b1>>}) \o TimeoutPrepare({<<>>})

TestPendingAcceptShouldTimeout ==
  Prepare(1) \o Propose(v) \o Promises(1, Record(b1, 0, None)) \o Accepts(Unchecked)
    \o Usleep \o Iterator \o TimeoutAccept({<<1, b1, v>>}) \o TimeoutAccept({<<>>})

TestAcceptedShouldNotTimeout ==
  Prepare(1) \o Propose(v) \o Promises(1, Record(b1, 0, None)) \o Accepts(Unchecked)
    \o Acceptances(1, b1) \o Prepare(2) \o Usleep \o Iterator
    \o TimeoutPrepare({<<2, b1>>}) \o TimeoutPrepare({<<>>}) \o TimeoutAccept({<<>>})

TestShouldNotTimeoutTwice ==
  Prepare(1) \o Usleep \o Iterator \o TimeoutPrepare({<<1, b1>>})
    \o Iterator \o TimeoutPrepare({<<>>})
-----------------------------------------------------------------------------
\* The calls of learner_unittest.cc; the acks carry no value.
Receive(a, iid, b) ==
  Call("receive_accept", [acceptor_id |-> a, iid |-> iid, ballot |-> b], Unchecked)
Deliver(results) == Call("deliver_next", <<>>, results)
Holes(from, to) == Call("has_holes", <<>>, {<<from, to>>})
NoHoles == Call("has_holes", <<>>, {<<>>})

\* A delivery whose ballot the test does not look at.
Delivers(iid) == {<<iid, b>> : b \in Ballot}

TestLearn ==
  Deliver({<<>>}) \o Receive(1, 1, 101) \o Deliver({<<>>}) \o Receive(2, 1, 101)
    \o Deliver({<<1, 101>>})

TestLearnInOrder ==
  Receive(2, 2, 101) \o Receive(1, 2, 101) \o Deliver({<<>>})
    \o Receive(2, 1, 101) \o Receive(1, 1, 101) \o Deliver(Delivers(1)) \o Deliver(Delivers(2))

TestIgnoreDuplicates ==
  Receive(1, 1, 101) \o Receive(1, 1, 101) \o Receive(1, 1, 101) \o Deliver({<<>>})
    \o Receive(2, 1, 101) \o Deliver(Delivers(1))

TestLearnMajority ==
  Receive(0, 1, 101) \o Receive(1, 1, 100) \o Deliver({<<>>}) \o Receive(2, 1, 101)
    \o Deliver({<<1, 101>>})

TestIgnoreOlderBallot ==
  Receive(1, 1, 101) \o Receive(1, 1, 201) \o Deliver({<<>>}) \o Receive(2, 1, 201)
    \o Deliver({<<1, 201>>})

TestNoHoles == Receive(1, 1, 101) \o Receive(2, 1, 101) \o Deliver(Unchecked) \o NoHoles

TestOneHole ==
  Receive(1, 1, 101) \o Receive(2, 1, 101) \o Deliver(Unchecked)
    \o Receive(1, 3, 101) \o Receive(2, 3, 101) \o Deliver(Unchecked) \o Holes(2, 3)

TestManyHoles ==
  Receive(1, 2, 101) \o Receive(2, 2, 101) \o Deliver(Unchecked)
    \o Receive(1, 100, 101) \o Receive(2, 100, 101) \o Deliver(Unchecked) \o Holes(1, 100)
-----------------------------------------------------------------------------
\* The calls of acceptor_unittest.cc; the requests carry no value.
ReceivePrepare(b, results) == Call("receive_prepare", [ballot |-> b], results)
ReceiveAccept(b, results) == Call("receive_accept_req", [ballot |-> b, value |-> None], results)

\* Answers in which the test looks at the ballot only.
Promised(b) == {<<b, value_ballot>> : value_ballot \in Ballot}

TestAcceptorPrepare == ReceivePrepare(101, {<<101, 0>>})

TestPrepareDuplicate == ReceivePrepare(101, Unchecked) \o ReceivePrepare(101, {<<101, 0>>})

TestPrepareSmallerBallot ==
  ReceivePrepare(11, Promised(11)) \o ReceivePrepare(5, Promised(11)) \o ReceivePrepare(9, Promised(11))

TestPrepareHigherBallot ==
  ReceivePrepare(0, Promised(0)) \o ReceivePrepare(10, Promised(10)) \o ReceivePrepare(11, Promised(11))

TestAccept == ReceiveAccept(101, {<<101, 101>>})

TestAcceptPrepared == ReceivePrepare(101, {<<101, 0>>}) \o ReceiveAccept(101, {<<101, 101>>})

TestAcceptHigherBallot == ReceivePrepare(101, {<<101, 0>>}) \o ReceiveAccept(201, {<<201, 201>>})

TestAcceptSmallerBallot == ReceivePrepare(201, {<<201, 0>>}) \o ReceiveAccept(101, {<<201, 0>>})

TestPrepareWithAcceptedValue ==
  ReceivePrepare(101, Unchecked) \o ReceiveAccept(101, Unchecked) \o ReceivePrepare(201, {<<201, 101>>})
-----------------------------------------------------------------------------
ProposerTest ==
  [Prepare                     |-> TestPrepare,
   PrepareAndAccept            |-> TestPrepareAndAccept,
   PreparePreempted            |-> TestPreparePreempted,
   PrepareAlreadyClosed        |-> TestPrepareAlreadyClosed,
   AcceptPreempted             |-> TestAcceptPreempted,
   PreparedCount               |-> TestPreparedCount,
   PendingPrepareShouldTimeout |-> TestPendingPrepareShouldTimeout,
   PreparedShouldNotTimeout    |-> TestPreparedShouldNotTimeout,
   PendingAcceptShouldTimeout  |-> TestPendingAcceptShouldTimeout,
   AcceptedShouldNotTimeout    |-> TestAcceptedShouldNotTimeout,
   ShouldNotTimeoutTwice       |-> TestShouldNotTimeoutTwice]

LearnerTest ==
  [Learn             |-> TestLearn,
   LearnInOrder      |-> TestLearnInOrder,
   IgnoreDuplicates  |-> TestIgnoreDuplicates,
   LearnMajority     |-> TestLearnMajority,
   IgnoreOlderBallot |-> TestIgnoreOlderBallot,
   NoHoles           |-> TestNoHoles,
   OneHole           |-> TestOneHole,
   ManyHoles         |-> TestManyHoles]

AcceptorTest ==
  [AcceptorPrepare          |-> TestAcceptorPrepare,
   PrepareDuplicate         |-> TestPrepareDuplicate,
   PrepareSmallerBallot     |-> TestPrepareSmallerBallot,
   PrepareHigherBallot      |-> TestPrepareHigherBallot,
   Accept                   |-> TestAccept,
   AcceptPrepared           |-> TestAcceptPrepared,
   AcceptHigherBallot       |-> TestAcceptHigherBallot,
   AcceptSmallerBallot      |-> TestAcceptSmallerBallot,
   PrepareWithAcceptedValue |-> TestPrepareWithAcceptedValue]

Names == DOMAIN ProposerTest \cup DOMAIN LearnerTest \cup DOMAIN AcceptorTest

calls(t) ==
  CASE t \in DOMAIN ProposerTest -> ProposerTest[t]
    [] t \in DOMAIN LearnerTest  -> LearnerTest[t]
    [] t \in DOMAIN AcceptorTest -> AcceptorTest[t]

\* SetUp of the fixture of a test.  The learner catches up from instance 1.
SetUp(t) ==
  CASE t \in DOMAIN ProposerTest -> proposer_new
    [] t \in DOMAIN LearnerTest  -> learner_new(FALSE)
    [] t \in DOMAIN AcceptorTest -> Record(0, 0, None)

\* What learner_deliver_next and learner_has_holes return.
delivery(ack) == IF ack = NULL THEN <<>> ELSE <<ack.iid, ack.ballot>>
range(l) ==
  LET holes == learner_has_holes(l)
  IN IF holes = {} THEN <<>> ELSE <<l.current_iid, l.current_iid + Cardinality(holes)>>

\* What acceptor_receive_prepare and acceptor_receive_accept return.
answer(r) == {Outcome(r, <<r.ballot, r.value_ballot>>)}

\* The outcomes of a call.
outcomes(c, s) ==
  CASE c.call = "prepare"                  -> prepare(s)
    [] c.call = "propose"                  -> propose(s, c.args)
    [] c.call = "receive_prepare_ack"      -> receive_prepare_ack(s, c.args)
    [] c.call = "accept"                   -> accept(s)
    [] c.call = "receive_accept_ack"       -> receive_accept_ack(s, c.args)
    [] c.call = "prepared_count"           -> proposer_prepared_count(s)
    [] c.call = "usleep"                   -> {Outcome([s EXCEPT !.clock = @ + c.args], <<>>)}
    [] c.call = "timeout_iterator"         -> proposer_timeout_iterator(s)
    [] c.call = "timeout_iterator_prepare" -> timeout_iterator_prepare(s)
    [] c.call = "timeout_iterator_accept"  -> timeout_iterator_accept(s)
    [] c.call = "receive_accept"           -> {Outcome(learner_receive_accept(s, c.args), <<>>)}
    [] c.call = "deliver_next"             ->
         {Outcome(learner_deliver_next(s), delivery(next_closed(s)))}
    [] c.call = "has_holes"                -> {Outcome(s, range(s))}
    [] c.call = "receive_prepare"          -> answer(apply_prepare(s, c.args))
    [] c.call = "receive_accept_req"       -> answer(apply_accept(s, c.args))

\* The next call of the test.  A test ends at the first assertion that fails.
Step ==
  /\ passes
  /\ pc < Len(calls(test))
  /\ pc' = pc + 1
  /\ LET c == calls(test)[pc + 1]
     IN \E o \in outcomes(c, struct) :
          /\ struct' = o.struct
          /\ passes' = (c.results = Unchecked \/ o.ret \in c.results)
  /\ UNCHANGED test

TestInit ==
  /\ test \in Names
  /\ pc = 0
  /\ struct = SetUp(test)
  /\ passes = TRUE

TestNext == Step

TestTypeOK ==
  /\ test \in Names
  /\ pc \in 0 .. Len(calls(test))
  /\ passes \in BOOLEAN

TestSpec == TestInit /\ [][TestNext]_testVars
-----------------------------------------------------------------------------
(***************************************************************************)
(* Every assertion of the unit tests holds of the model, so the operators  *)
(* that the other modules build on do what the tests expect of the         *)
(* library.  The one exception is PrepareAlreadyClosed, which always       *)
(* fails: "proposer has majority with the same value, we expect the        *)
(* instance to be closed", but the branch of proposer_receive_prepare_ack  *)
(* that closes it is commented out, and proposer_accept proposes it again. *)
(***************************************************************************)
TestsPass ==
  /\ test # "PrepareAlreadyClosed" => passes
  /\ test = "PrepareAlreadyClosed" /\ pc = Len(calls(test)) => ~passes
=============================================================================
