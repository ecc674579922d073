# A verification of LibPaxos3 (this fork) in TLA+

The repository replicates a sequence of values with Multi-Paxos. Clients submit
values to *proposers*, proposers run one Paxos *instance* (an `iid`) per value
with a set of *acceptors*, and *learners* deliver the values in the order of the
instances. `src/paxos/` holds the protocol, free of I/O; `src/evpaxos/` drives it
with libevent over TCP. This directory models the protocol, checks it with TLC on
small instances, and proves its main properties with TLAPS for all sizes.

## The system

| Part | Source | What it does |
|---|---|---|
| quorum tally | `paxos/quorum.c` | counts the acceptors that answered, per instance and phase |
| proposer | `paxos/proposer.c` | a queue of client values, a list of instances in the prepare phase, one in the accept phase |
| acceptor | `paxos/acceptor.c` | promise and vote, one record per instance |
| storage | `paxos/storage_mem.c`, `storage_bdb.c` | the records: a table in memory, or Berkeley DB |
| learner | `paxos/learner.c` | a window of instances, a quorum of acks closes one, delivery in order |
| circular array | `paxos/carray.c` | queue, lists, window and connections |
| event loops | `evpaxos/evproposer.c`, `evacceptor.c`, `evlearner.c` | handlers: read a message, call the protocol, send what comes out |
| connections | `evpaxos/peers.c`, `tcp_receiver.c`, `tcp_sendbuf.c` | connect, reconnect, frame messages |
| unit tests | `unit/*.cc` | sequences of library calls with assertions |
| configuration, logging, samples | `evpaxos/config_reader.c`, `paxos/paxos.c`, `sample/` | start-up and drivers |

Each process is single-threaded: a handler runs to its end before the next
message is read, so a handler is one action. Concurrency is between processes.
An acceptor answers a prepare to the connection it came from, sends an accept to
*all* its connections (proposers and learners) and a refusal to one. A proposer
repeats requests on a timer; a learner asks for missing instances on a timer.

## Modules

| Module | Models |
|---|---|
| `PaxosQuorum` | `struct quorum` and its functions, as pure operators |
| `PaxosProposer`, `PaxosAcceptor`, `PaxosLearner` | what each role does to one instance, as pure operators on its struct |
| `Timeouts` | when a request is old enough to be sent again, in the width of the code's integers |
| `ProposerLibrary`, `LearnerLibrary` | the interfaces of `proposer.c` and `learner.c`: the whole struct, one operator per function |
| `QuorumCounter` | the life of one tally |
| `Carray`, `Deque` | the circular array, and the sequence it implements |
| `Sublists` | the items of a list at given positions, as `_carray_map` collects them |
| `UnitTests` | the 28 tests of `src/unit`, run against the operators above |
| `Library` | a choice of one of the three before, for one run of TLC |
| `Synod` | one instance: proposers and acceptors, with their event handlers and a network |
| `SingleDecree` | abstract: at most one value is chosen, for good |
| `SynodRestart` | `Synod` with proposers that restart |
| `SynodLearner` | `Synod` with learners |
| `ProposerQueues` | one proposer with all its instances and its value queue |
| `LearnerWindow` | one learner with its window, late start, holes and repeat requests |
| `LearnerRepeats` | `LearnerWindow` with the records of the acceptors that answer these requests |
| `AcceptorRequests` | the requests of an acceptor over many instances |
| `MemAcceptor` | one acceptor with the table of `storage_mem.c` |
| `BdbAcceptor` | one acceptor with the database of `storage_bdb.c`, crashes and losses of power |
| `AcceptorStorages` | the choice between the two that the build makes |
| `Link` | one instance of a proposer over connections that break and are made again, with the timer |
| `Framing` | the bytes of messages on the three connections that a value takes, and the size of the records at the acceptor |
| `MC*` | symmetry sets and values of constants for TLC |
| `QuorumTheorems` | facts about tallies, majorities, lists and rings that the proofs share |
| `LibraryProofs` | theorems about `QuorumCounter`, `MemAcceptor`, `BdbAcceptor` and `AcceptorStorages` |
| `CarrayProofs`, `LearnerWindowProofs`, `ProposerQueuesProofs`, `LinkProofs`, `FramingProofs` | theorems about the module each is named after |
| `SynodProofs` | theorems about `Synod` and `SynodLearner` |

Operators and fields keep the names of the C code. An operator named
`f_Something`, with a comment that begins "Mutant", is a faulty variant of `f`
that shows that a property notices the fault; no specification uses it.

### How state and actions correspond to the code

*Quorum.* `quorum_clear` loops up to `q->quorum`, not `q->acceptors`, and
`quorum_init` uses `malloc`. The model keeps both: entries beyond the quorum start
with any value and survive a clear. `counted` is a history field.

*Synod.* `inst[p]` is the instance at proposer p; `list` says in which list it is.
`rec[a]` is the stored record, with ballot 0 for none. The network is the set of
all messages ever sent, and a handler may take any of them again or never, so
loss, delay, repetition, reordering, broken connections and retransmissions by
`proposer_check_timeouts` are all included. `HandlePrepareAck`, `HandleAcceptAck`
and `HandleOther` each end with `try_accept`, as `proposer_handle_msg` does; what
depends on other instances (whether this one is at the front of the list, which
value is at the front of the queue) is a free choice here and exact in
`ProposerQueues`. `HandleAcceptAck` includes the failing assertion. `votes` is a
history variable: everything an acceptor ever stored as accepted.

*ProposerQueues.* The two lists and the queue are sequences. `TryAccept` is the
whole of `try_accept`: the loop over `proposer_accept`, then
`proposer_preexecute`. The loop moves the longest prefix of prepared instances
for which there are values. Acks that are dropped still run `TryAccept`. The
acceptors are an environment that reports nothing, a value this proposer sent, or
a value of another proposer with a lower ballot.

*Carray and lists.* `carray_reject`, and with it `instance_remove`, is stated through
the positions that stay (`sublist`), not through a filter, because a filter is
recursive and proofs could not count with it. The `library` run checks an assumption
that the two agree on all lists of up to four items.

*SynodLearner and LearnerWindow.* `learner_update_instance` and
`instance_has_quorum` are shared. `instance_has_quorum` in C has a side effect
(it sets `final_value`): that is `instance_close`. In `LearnerWindow` an action is
`learner_handle_accept_ack`: the ack, then every delivery it allows.
`LearnerRepeats` adds `record`, the ballot that each acceptor's record of an instance
ends up with. `handle_repeat_req` sends that ballot, which is the last one promised,
and it may differ between acceptors for good.

*UnitTests.* A test is the sequence of its calls, each with the results that its
assertions allow. The variables are the test, the position in it and the struct
under test. The operators that are called are those that the other modules are
built from, so a test that passes here says that the models agree with what the
authors of the library expect of it.

*Link.* Each connection to an acceptor has a number, and a queue of requests and
one of answers. `peer[a]` is the proposer's side (`struct peer`: its bufferevent,
and whether it waits for `reconnect_ev`), `server[a][c]` the acceptor's side of
connection c: in the backlog, in `bevs`, dead but still in `bevs`, or freed. When
the proposer sees an error its buffers are gone, and the acceptor may read a
prefix of what was under way; when the acceptor sees one, the proposer may read a
prefix of the answers. `age` is the time since `created_at` as of the last call of
`proposer_check_timeouts`, in units in which a second is `SECOND`. A second
proposer appears by its effect on the records and by the broadcast of its accepts.

*Framing.* `sent[h]` are the words written to connection h. A message stands for the
first word of its header, and `Torn` for each of the words behind it. How many words
have arrived and how many were drained are numbers: the read loop takes the first
word not drained for a header, whether or not a message begins there, so a faulty
loop loses its place in the model as it would in the program. The loop is a recursive
function of the position, as every turn takes words out of the buffer. Between the
second connection and the third, `storage_save_accept` copies the value into a record
whose size it does not look at: `record_size` is 8 KB in memory
(`MAX_SIZE_RECORD`), and `PAXOS_MAX_VALUE_SIZE` with Berkeley DB, struct included.
`intact` becomes FALSE when a value is too large for it. From then on the acceptor
sends the value or any damaged record, in a frame that fits what it sends, as
`sendbuf_add_accept_ack` reads the size once; or it stops.

*BdbAcceptor.* A request is three steps, because a crash may fall between them: up
to the commit, the commit, the answer. `db` is what the process reads, `images`
the set of what a loss of power may leave on the disk. `misread` records that an
error of `DB->get` was taken for a missing record.

*MemAcceptor.* `running` becomes FALSE with the `exit(1)` of
`storage_get_record`. `answer` is a history variable.

## Runs

| Run | Bounds | Shows |
|---|---|---|
| `library` | tally: 3 acceptors; array: 2 items, sizes 1 to 8; tests: their own values, a window of 128 | the tally never overcounts (`CountStandsForAnswers`, `ReachedNeedsMajority`) and the lowest ids always suffice (`LowIdsReachQuorum`); the array refines `Deque` (`ImplementsDeque`); the unit tests pass, one excepted (`TestsPass`) |
| `synod` | 3 acceptors, 2 proposers, 2 values, ballots to 20, 3 different answers per acceptor | `Agreement` and the facts behind it: `OneValuePerBallot`, `PreparedKnowsChosen`, `FreedIsChosen` |
| `synod_learner` | as above, 2 answers per acceptor, 1 learner | a learner learns what is chosen (`LearnedIsChosen`); the inductive invariant `IInv`; refinement of `SingleDecree` (`ImplementsConsensus`) |
| `proposer_queues` | 2 acceptors, 2 client values and a foreign one, window 1, 3 instances, ballots 10 and 20 | no value lost (`NoValueLost`), no instance misplaced (`EachInstanceOnce`), no work left undone (`FrontIsNotStuck`, `WindowIsFull`) |
| `learner_window` | 3 acceptors of which 2 answer, window 2, 4 instances, 2 ballots, 3 ways for the records to agree or differ, late start or not, one instance per round of requests | delivery in order and with a quorum (`DeliveredInOrder`, `DeliveredHasQuorum`, `NoQuorumOverlooked`), slots that are not mixed up (`SlotsHoldTheWindow`), holes that are seen (`HoleIsFound`); liveness: holes are filled where the records of a majority agree (`CatchesUp`) |
| `acceptor_storage` | memory: 2 slots, 4 instances; database: 2 of these; 2 ballots, 1 value, 2 possible disks; every setting of `bdb_sync` and `bdb_trash_files` | the table behaves like one record per instance (`StoredOrReplaced`, `ImplementsOneRecordPerInstance`); no answer is forgotten by a synchronous database (`AnswersAreDurable`, `RecordsFollowRequests`) |
| `link` | 1 acceptor, 2 connections, own ballots to 30, one foreign ballot, 2 values, 2 messages under way when the timer fires | the assertion of `proposer_receive_accept_ack` holds (`AssertionHolds`); no stale answer is counted (`CountedAnswered`); liveness: timeouts recur (`PendingTimesOut`), a value gets its quorum (`ValueIsAccepted`) |
| `framing` | limit of 9 words, records of 8 or 9 words, 5 sizes of values around them, 2 values, 1 prepare request | handlers see what was sent (`HandledIsSent`); nothing waits (`NothingLeftBehind`); liveness: values that fit arrive, unless a record has overflowed (`SmallValuesArrive`) |

Why the bounds suffice. Three acceptors are the least with a quorum that is
neither one nor all of them, and with an entry that `quorum_clear` misses. Ballots
up to 20 let proposer 0 be preempted by proposer 1 and come back above it; 19, in
`synod_restart`, leaves its one proposer one ballot. Three
answers per acceptor are enough for two complete ballots whose quorums overlap in
one acceptor, which every violation of agreement needs; the fault variants of the
code are found within them. (`synod_learner` with three answers has 2.7 million
states and passes too, in nine minutes.) A window of two with four instances uses
each slot twice; the array doubles three times, with its contents wrapped around.
A window of one with three instances has two instances in the accept phase at
once, and preempted ones in front of the prepared one, so that several move in one
handler. `ProposerQueues` does not reach a preemption by a *lower* ballot within
its bound; that branch is the same code as for a higher one and is reached in
`Synod`.

In `link` the connections of different acceptors share nothing but the instance,
and what needs several acceptors is the subject of `Synod`; what needs several
*connections*, an old request read after a new one, shows with one acceptor and two
connections. (Two acceptors with one value and ballots to 20 have 3.7 million
states; the three invariants hold in them, and the liveness properties are out of
reach.) A second is two units and the largest int six, so that a few timer periods
reach the overflow; `MaxIdle` keeps an instance in `link` from waiting that long
for its value, and `link_idle` lifts it. `OutOfRange` is what the conversion of a
too large double to int gives in the end, 0 on x86.

In `framing` a value is smaller than the limit at all three hops, at some of them,
or at none, and may be empty; a large message may come before and behind a small
one. A value of 5 words passes the limit at the acceptor and is too large for either
record; one of 1 word fits a record of Berkeley DB exactly and is too large for one in
memory. A damaged record shows a value of 1 word, any id, or the value itself
(`DamagedSizes`). The sizes of the structs are those of a 64-bit machine.

The client values are interchangeable and no property names one, so they are a
symmetry set in the runs without liveness (in `synod_learner` too: the refinement
has no fairness). Deadlock checking is off where the system may stop: a test ends,
an acceptor exits, an instance is accepted, all bytes are read.

*Fairness.*

* `learner_window`: `hole_timer` is added again at the end of each
  `learner_check_holes`, so repeat requests go out for ever, and an acceptor in
  `Answering` (a majority) is assumed alive and connected, so its answer to the
  request for the current instance comes in the end. This is weak fairness of
  `Repeat`, with its enabling condition written out for TLC. An answer carries the
  ballot of the acceptor's own record, so fairness alone does not fill a hole:
  `CatchesUp` also asks that the records of a majority that answers hold the same
  ballot (`Agreed`) for every instance that is missing. Without this TLC refutes it,
  with records of ballot 2 and 1 after a prepare that reached one acceptor only; the
  learner then waits until some proposer works on the instance again.
* `link`: the timer is added again by `proposer_check_timeouts`; the event loops
  read what has arrived; a connection is made after `reconnect_ev`, accepted by
  the listener, and a dead one is noticed. Connections break only finitely often
  and other proposers have finitely many ballots (`MaxConns`, `OtherBallots`):
  without that no protocol is live. Errors and the steps of others have no fairness.
* `framing`: what is written arrives and is read, and a handler that took a value
  writes it to the next connection at last. An acceptor that has written beyond a
  record has no fairness, as it may have ended.

### Disagreements between the code and its documents

Four runs show a behaviour of the code that a comment or a unit test excludes.

* `quorum_new_counted`: a first answer may be taken for a repeated one
  (`quorum.c:40`). It costs progress, never safety.
* `synod_restart`: ballots are not unique when a proposer restarts
  (`proposer.c:419`), against `paxos.h:75`. Two values with one ballot break the
  basis of agreement.
* `synod_learner_repeat`: a repeated record is counted by its promised ballot
  (`evacceptor.c:89`, `learner.c:106`), against `learner.c:84`. A learner that asks
  for a repetition may deliver a value that is not chosen.
* `link_idle`: a request may never be sent again (`proposer.c:427`), against
  `proposer.c:422` and the test `PendingAcceptShouldTimeout`. `created_at` is not
  set when an instance moves to the accept phase, so one that was prepared more
  than 2147 seconds before has a difference that does not fit an int.

The unit test `PrepareAlreadyClosed` fails against the code and the model, and
`TestsPass` says so: `proposer_unittest.cc:151` expects a promise quorum for one
value to close the instance, the branch that did so is commented out
(`proposer.c:176`). Harmless: the value is proposed again.

Three of `paxos.conf`, which are not modelled: the option `learner-catchup` is
called `learner-catch-up` in `config_reader.c`, and with the name of the file the
program exits; the ids of acceptors and proposers are read and ignored, their order
counts; `proposer-timeout` is in seconds for the timer, but `instance_has_timedout`
compares it with microseconds, so that every pending request is sent again each
time the timer fires.

A smaller one: the comment at `learner.c:142` says that only larger ballots are
accepted, but an ack of another acceptor may take `last_update_ballot` down. The
code is right: `NoQuorumOverlooked` fails if it only grows.

## Proofs

All theorems hold for any number of acceptors, proposers, values, instances,
connections and ballots, under the named assumptions of the modules that declare the
constants (`AcceptorsAssumption`, `ValueAssumption`, `SynodAssumption`,
`RecordsAssumption`, `BdbAssumption`, `LearnerAssumption`, `WindowAssumption`,
`CarrayAssumption`, `QueuesAssumption`, `LinkAssumption`, `FramingAssumption`): there is an acceptor; the
table, the array and the window have a slot; proposer ids are below
`MAX_N_OF_PROPOSERS`; the empty value is not submitted; the bound on the ballots leaves
a proposer its first one; and in `Link` the ballots of other proposers are not those of
this one, as their ids differ.

* `LibraryProofs`, on the tally: `CountStandsForAnswers`, and from it
  `ReachedNeedsMajority` and `LowIdsReachQuorum`. `CountStandsForAnswers` says that
  the count is the number of acceptors it stands for, and that an entry below the
  quorum is set only by a counted answer. `QuorumTheorems` has the facts about the
  tally, that a count of `paxos_quorum(acceptors)` is a majority, so that two of
  them intersect, and that sets of numbers have a smallest and a largest element.
* `SynodProofs`: `Spec => []IInv`, and from it type correctness, `Agreement`,
  `OneValuePerBallot`, `PreparedKnowsChosen`, `FreedIsChosen`, and
  `SynodImplementsConsensus`, the refinement of `SingleDecree`. None of these is
  inductive. `IInv` adds: a record holds the last vote and the highest promise
  (`AcceptorInv`); promises tell the truth about votes below their ballot
  (`PrepareAckInv`); a tally of promises stands for acceptors that promised
  (`ProposerInv`); and every accept request carries a value that is *safe* at its
  ballot (`SafeAt`): at each lower ballot a majority voted for it, or can no longer
  vote. The core lemma, `ProposalSafe`, shows that a quorum of
  promises makes the value safe that the proposer took from the highest vote
  reported; this is where intersecting majorities and the truth of promises meet.
* `SynodProofs`, on the learners: `LearnedIsChosen`, and that two learners never deliver
  different values. It adds that every ack a learner stores is a vote for the ack's
  ballot; this is what `handle_repeat_req` breaks, so the theorem is about learners
  that get their acks from accepts.
* `LibraryProofs`, on the table in memory: types, `StoredOrReplaced` and the refinement
  `ImplementsOneRecordPerInstance`. The invariant adds that a stored record is the
  last one sent.
* `LibraryProofs`, on the database: `AnswersAreDurable` and `RecordsFollowRequests`. With
  `bdb_sync` on, `bdb_trash_files` off and no read error, the invariant `Kept` says
  that the disk can only be the database, that the database covers what was sent,
  and that the request at hand follows from the record it is about, before the
  commit, and is the record, after it. The first conjunct makes a loss of power
  harmless, the last two make the answer covered at the moment it is sent.
  A build has one of the two storages, and `StorageTypeOK` is proved of either.
* `CarrayProofs`: `CarrayImplementsDeque`, the refinement of `Deque`, and types. The
  invariant `CarrayInv` says that the tail is `count` slots after the head, around the
  end of the array, and that the slots between them hold items. Each operation then has
  a lemma that says what it does to the sequence (`PushedBack`, `PushedFront`,
  `PoppedFront`, `FirstMatchIs`, `RejectedIs`; `RoomMade` for the growth). They rest on
  two facts about the ring: an index wraps around at most once (`WrapsOnce`), and the
  places of fewer than `size` items are distinct (`PlacesDistinct`).
* `ProposerQueuesProofs`: all the properties of `ProposerQueues`, for any window, number
  of instances and values. Each is needed for the next: `NoValueLost` holds through
  `instance_remove` only because no iid is in a list twice (`EachInstanceOnce`), and
  through the accept phase only because every instance there has a value; so the
  invariant `QueuesInv` has them together. It states `EachInstanceOnce` as
  `Arranged`, which says what a removal and an insertion do to it. The loop of
  `try_accept` is dealt with by counting: the instances it moves take the first values
  of the queue, each its own (`TakesBetween`, `TakesReached`), and it stops only where
  `proposer_accept` fails (`AcceptCountStops`).
* `LinkProofs`: the safety properties of `Link`. `AssertionHolds` needs that an
  `accept_ack` with a ballot of this proposer reports a vote for it. An acceptor that
  refuses an accept answers with its promise, and that could be a later one of the same
  proposer, when an old request is read after a newer one. `LinkInv` excludes it where it
  matters: the requests on a connection are in the order of their ballots and not above
  those of later connections (`RequestsInv`); the record of an acceptor that promised to
  this proposer is not above what it has yet to read of the *present* connection
  (`RecordInv`); and a refusal only goes to the connection of the request, so if it is
  an old one the proposer does not read it. `AnswersInv` and `CountedAnswered` say that
  records never fall behind what was answered and counted.
* `LearnerWindowProofs`: all the safety properties of `LearnerWindow`, for any
  window, number of acceptors, instances and ballots. The invariant `LInv` adds that
  a slot that is closed holds a quorum of acks for its final value, that nothing is
  stored before a late start, and that the closed instances lie strictly beyond
  `current_iid` and up to `highest_iid_closed`; this last is why a hole is always
  found. Two instances of the window never share a slot (`SlotUnique`), which is
  where the test on the window size is needed.
* `FramingProofs`: the safety properties of `Framing`, for any sizes of values, any
  limit, and any pieces in which the bytes arrive. `FramingInv` says of every connection
  (`ConnectionInv`) that its words are whole messages one behind the other (`Framed`),
  that what was drained ends where a message ends (`Boundary`), that the handlers were
  called with exactly the messages before that point that are not too large, and that
  no whole message is left in the buffer, save a header without data. Writing a message keeps this (`AddKeeps`).
  That reading keeps it is about a loop: `LoopReads` says that from any boundary it stops
  at one, with less than a message left, and calls the handlers with what lies between.
  Both this and that the loop ends at all (`LoopEnds`, the recursive function has a
  solution) are shown by `CountDown`, an induction from the end of what has arrived;
  it follows from the fact that a set of numbers has a smallest element, so it needs
  no induction rule. `NoValueMadeUp` adds a last invariant, `Origin`, on where values
  come from: what a handler at any hop is called with was submitted by a client, with
  its size, and is not too large for that hop. At the learner this holds as long as the
  acceptor is `intact`. The other theorems hold after an overflow too, of the streams
  that `Framing` then allows.

Only model-checked:

* all liveness (`CatchesUp`, `PendingTimesOut`, `ValueIsAccepted`,
  `SmallValuesArrive`): TLAPS does not reach fairness;
* `TestsPass` and the `TypeOK` of `Library`: the unit tests are 28 fixed sequences of
  calls, and a run that goes through them leaves nothing to generalise (what the
  `library` run says of the tally and of the array is proved);
* that `sublist` is a filter, which needs an induction over the list.

## Limits

* Acceptors in `Synod` forget nothing, which is what `BdbAcceptor` shows of a
  synchronous database. `storage_mem.c` loses everything with the process, and
  `storage_bdb.c` may lose its last transactions with `bdb_sync` off, its default.
* Proposers do not restart, except in `SynodRestart`.
* Values are not empty, except in `Framing`: `value_size = 0` is read as "no value".
* Values fit in the records of the storage in every module but `Framing`. A record in
  memory is 8 KB with its header, `storage_mem.c:107` copies without a check, and larger
  values write over other records; with Berkeley DB the same happens at `storage_bdb.c:304`
  for values that fit an accept request and not a record. What is shown of acceptors,
  proposers and learners is about smaller values. `Framing` does not let an overflow
  damage anything but records: what it does to the buffers of libevent is left out.
* A hole at the learner may stay open when the records of the acceptors differ in their
  ballots and no proposer comes back to the instance (`evacceptor.c:88`).
* A value that passes the limit at the proposer and not at the acceptor or learner is
  taken from the client and never delivered.
* An acceptor whose database did not open sends nothing in `BdbAcceptor`; no property is
  about it.
* `is_final` is 0: nothing calls `storage_save_final_value`.
* Ballots and iids do not wrap around at 32 bits. The difference of two times does.
* That a client's value is delivered once is not claimed: a displaced value may be
  proposed in two instances (`proposer.c:170`).
* Two proposers may preempt each other for ever; `link` lets the other stop.

Not modelled, and why:

* Berkeley DB and libevent: libraries, modelled from how they are used.
* `config_reader.c`: text is parsed once, before anything runs. The options are
  constants (`learner_instances`, `preexec_window`, `proposer_timeout`) or initial
  values (`bdb_sync`, `bdb_trash_files`, the late start).
* A listener that fails, and the functions that free memory when a process ends.
* `carray_collect`, `carray_count_match`, `storage_save_final_value`,
  `storage_get_max_iid`: no caller.
* Logging: pure output. Samples: drivers; their clients are the submitted values.
* `db.h`: the header of Berkeley DB.
* Acceptors of `storage_mem.c` that exit one after the other on the requests of a
  late learner: each exit is a step of `MemAcceptor`, their composition is left out.
