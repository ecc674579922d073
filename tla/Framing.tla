------------------------------ MODULE Framing ------------------------------
(***************************************************************************)
(* The bytes of messages.  A value travels over three TCP connections:     *)
(* from a client to the proposer in a submit message, to an acceptor in an *)
(* accept request, to a learner in an accept acknowledgement.  On each of  *)
(* them src/evpaxos/tcp_sendbuf.c writes a paxos_msg header and the data,  *)
(* the bytes arrive in pieces of any length, and the read callbacks cut    *)
(* them into messages again and drain the ones that are too large.  The    *)
(* acceptor copies a value into a record of its storage without looking at *)
(* the size of the record.                                                 *)
(*                                                                         *)
(* Lengths are in words of 4 bytes, of which every struct of               *)
(* libpaxos_messages.h is a multiple (on a 64-bit machine).  What the      *)
(* handlers do with a message is modelled elsewhere: here the handler of a *)
(* value writes it to the next connection at some later time, in order.    *)
(***************************************************************************)
EXTENDS Sublists

CONSTANTS
  PAXOS_MAX_VALUE_SIZE,
  MAX_SIZE_RECORD, \* the size of a record of storage_mem.c
  ValueSizes,   \* the sizes of the values that clients submit
  DamagedSizes, \* bound: the sizes of value that a damaged record may show
  MaxValues,    \* bound: how many values are submitted
  MaxPrepares   \* bound: how many prepare requests go with the accept requests

ASSUME FramingAssumption ==
  /\ PAXOS_MAX_VALUE_SIZE \in Nat
  /\ MAX_SIZE_RECORD \in Nat
  /\ ValueSizes \subseteq Nat
  /\ DamagedSizes \subseteq ValueSizes
  /\ MaxValues \in Nat
  /\ MaxPrepares \in Nat

\* sizeof(paxos_msg), which is packed: an 8-byte size and a 4-byte code.
paxos_msg == 3

\* The connections of a value, in the order in which it takes them.
Hops == 1 .. 3
Carrier == <<"submit", "accept_reqs", "accept_acks">>

Ids == 1 .. MaxValues

\* The messages that the receiver of a connection knows.
Message(h) == [type : {Carrier[h]} \union (IF h = 2 THEN {"prepare_reqs"} ELSE {}),
               id : Ids \union {0}, value_size : ValueSizes \union {0}]

\* A word inside of a message: what is read where no message begins.
Torn == [type |-> "torn", id |-> 0, value_size |-> 0]

\* The words of a connection: a message stands for the first word of its header.
Word(h) == Message(h) \union {Torn}
Words == UNION {Word(h) : h \in Hops}

prepare_req == [type |-> "prepare_reqs", id |-> 0, value_size |-> 0]

\* The size of the data of a message: its struct, and the value behind it.
data_size(m) ==
  CASE m.type = "submit"       -> m.value_size
    [] m.type = "prepare_reqs" -> 2
    [] m.type = "accept_reqs"  -> m.value_size + 4
    [] m.type = "accept_acks"  -> m.value_size + 8
    [] m.type = "torn"         -> 0

PAXOS_MSG_SIZE(m) == data_size(m) + paxos_msg

VARIABLES
  sent,      \* sent[h]: the words written to connection h
  arrived,   \* arrived[h]: how many of them the receiver has got
  drained,   \* drained[h]: how many it has taken out of its buffer
  handled,   \* handled[h]: the messages its handlers were called with
  passed,    \* passed[h]: how many of those have been dealt with
  record_size,   \* the words that the storage of the acceptor has for a record
  intact         \* the acceptor has not written beyond them

vars == <<sent, arrived, drained, handled, passed, record_size, intact>>

TypeOK ==
  /\ sent \in [Hops -> Seq(Words)] /\ handled \in [Hops -> Seq(Words)]
  /\ arrived \in [Hops -> Nat] /\ drained \in [Hops -> Nat] /\ passed \in [Hops -> Nat]
  /\ \A h \in Hops :
       /\ sent[h] \in Seq(Word(h))
       /\ handled[h] \in Seq(Message(h))
       /\ drained[h] <= arrived[h]
       /\ arrived[h] <= Len(sent[h])
       /\ passed[h] <= Len(handled[h])
  /\ record_size \in Nat
  /\ intact \in BOOLEAN
-----------------------------------------------------------------------------
\* The words of a message.
words(m) == [i \in 1 .. PAXOS_MSG_SIZE(m) |-> IF i = 1 THEN m ELSE Torn]

\* The sendbuf functions and paxos_submit: a header and the data.
sendbuf_add(h, m) == sent' = [sent EXCEPT ![h] = @ \o words(m)]

\* How many messages of a type have been written to connection h.
count(h, type) == Cardinality({p \in 1 .. Len(sent[h]) : sent[h][p].type = type})

\* A client calls paxos_submit.
paxos_submit(size) ==
  /\ count(1, Carrier[1]) < MaxValues
  /\ sendbuf_add(1, [type |-> Carrier[1], id |-> count(1, Carrier[1]) + 1, value_size |-> size])
  /\ UNCHANGED <<arrived, drained, handled, passed, record_size, intact>>

\* The proposer opens an instance: the request shares a connection with the values.
send_prepare ==
  /\ count(2, "prepare_reqs") < MaxPrepares
  /\ sendbuf_add(2, prepare_req)
  /\ UNCHANGED <<arrived, drained, handled, passed, record_size, intact>>

\* The message whose header is read after n of the words s.
message_at(s, n) == IF n < Len(s) THEN s[n + 1] ELSE Torn

\* Mutant: a message is taken as soon as its header is there.
complete_HeaderOnly(len, m) == len > paxos_msg

\* Mutant: something must be there behind the message.
complete_Strict(len, m) == len > paxos_msg /\ len > PAXOS_MSG_SIZE(m)

\* The condition of the read loops.
complete(len, m) == len > paxos_msg /\ len >= PAXOS_MSG_SIZE(m)

\* Mutant: nothing may be as large as the buffer.
discarded_AtLimit(m) == data_size(m) >= PAXOS_MAX_VALUE_SIZE

\* The message is drained, and its handler is not called.
discarded(m) == data_size(m) > PAXOS_MAX_VALUE_SIZE

\* Mutant: draining a message leaves the last word of it.
drain_OffByOne(len, m) == IF len < PAXOS_MSG_SIZE(m) THEN len ELSE PAXOS_MSG_SIZE(m) - 1

\* evbuffer_remove and evbuffer_drain take the header and the data, or all there is.
drain(len, m) == IF len < PAXOS_MSG_SIZE(m) THEN len ELSE PAXOS_MSG_SIZE(m)

\* The handler is called with the message m, of which len words are in the buffer.
handle_msg(len, m) ==
  IF discarded(m) THEN <<>> ELSE <<IF len < PAXOS_MSG_SIZE(m) THEN Torn ELSE m>>

\* The read loop when the buffer holds the words from `from` to `to` of s: where it
\* stops, and the calls that it makes.  Every turn takes words out of the buffer.
on_read(s, from, to) ==
  LET loop[n \in 0 .. to] ==
        LET m   == message_at(s, n)
            len == to - n
        IN IF complete(len, m)
           THEN [loop[n + drain(len, m)] EXCEPT !.calls = handle_msg(len, m) \o @]
           ELSE [end |-> n, calls |-> <<>>]
  IN loop[from]

\* More words arrive on connection h, and the read callback runs to its end.
Read(h) ==
  /\ \E n \in arrived[h] + 1 .. Len(sent[h]) :
       LET b == on_read(sent[h], drained[h], n)
       IN /\ arrived' = [arrived EXCEPT ![h] = n]
          /\ drained' = [drained EXCEPT ![h] = b.end]
          /\ handled' = [handled EXCEPT ![h] = @ \o b.calls]
  /\ UNCHANGED <<sent, passed, record_size, intact>>

\* The acceptor_record of a value, a struct like accept_ack, fits in the storage.
fits(m) == m.value_size + 8 <= record_size

\* Records that have been written over by others.
damaged_record == [type : {"accept_acks"}, id : Ids \union {0}, value_size : DamagedSizes]

\* What the handler at the end of connection h makes of a value: a message with it, or
\* with a damaged record once the acceptor has written beyond one.
forwarded(h, m, ok) ==
  {[m EXCEPT !.type = Carrier[h + 1]]} \union (IF h = 2 /\ ~ok THEN damaged_record ELSE {})

\* The next message handled at the end of connection h: a value goes on.
Pass(h) ==
  /\ passed[h] < Len(handled[h])
  /\ passed' = [passed EXCEPT ![h] = @ + 1]
  /\ LET m == handled[h][passed[h] + 1]
     IN \/ /\ h < 3 /\ m.type = Carrier[h]
           /\ intact' = (intact /\ (h = 2 => fits(m)))
           /\ \E x \in forwarded(h, m, intact') : sendbuf_add(h + 1, x)
        \/ /\ ~(h < 3 /\ m.type = Carrier[h])
           /\ UNCHANGED <<sent, intact>>
  /\ UNCHANGED <<arrived, drained, handled, record_size>>

Init ==
  /\ sent = [h \in Hops |-> <<>>]
  /\ arrived = [h \in Hops |-> 0]
  /\ drained = [h \in Hops |-> 0]
  /\ handled = [h \in Hops |-> <<>>]
  /\ passed = [h \in Hops |-> 0]
  /\ record_size \in {MAX_SIZE_RECORD, PAXOS_MAX_VALUE_SIZE}
  /\ intact = TRUE

\* What the event loops do without a new message from outside.
Step(h) == Read(h) \/ Pass(h)

\* An acceptor that has written beyond a record may end at any time.
Progress == \E h \in Hops : (h = 2 => intact) /\ Step(h)

Next ==
  \/ \E size \in ValueSizes : paxos_submit(size)
  \/ send_prepare
  \/ \E h \in Hops : Step(h)

\* TCP delivers what is written to it, the event loop calls the callback, and a
\* value that a process has taken is written to the next connection at last.
\* With bounded input, fairness to the steps as a whole gives it to each.
Spec == Init /\ [][Next]_vars /\ WF_vars(Progress)
-----------------------------------------------------------------------------
\* What the program still takes at the last hop, with the largest struct around it.
Small(m) == m.value_size + 8 <= PAXOS_MAX_VALUE_SIZE

\* A header with no data behind it is not read before more bytes arrive.
Empty(m) == m.type = "submit" /\ m.value_size = 0

\* The messages among the first n of the words s whose handler is to be called.
wanted(s, n) == {p \in 1 .. n : s[p] # Torn /\ ~discarded(s[p])}

(***************************************************************************)
(* However the bytes of a connection are cut into pieces, the read loop    *)
(* calls the handlers with the messages that were written to it, in that   *)
(* order, but for those that are too large: draining one does not cost the *)
(* place in the stream, and no handler sees part of a message.             *)
(***************************************************************************)
HandledIsSent ==
  \A h \in Hops :
    /\ drained[h] < Len(sent[h]) => sent[h][drained[h] + 1] # Torn
    /\ handled[h] = sublist(sent[h], wanted(sent[h], drained[h]))

(***************************************************************************)
(* When the read callback returns, no whole message waits in the buffer    *)
(* for bytes that may never come, save a header without data.              *)
(***************************************************************************)
NothingLeftBehind ==
  \A h \in Hops :
    LET m == message_at(sent[h], drained[h])
    IN m # Torn /\ ~Empty(m) => arrived[h] - drained[h] < PAXOS_MSG_SIZE(m)

(***************************************************************************)
(* Every value that fits in an accept acknowledgement of the largest size  *)
(* that the learner takes gets to it, whatever larger ones go before, as   *)
(* long as no value that reached the acceptor was too large for a record.  *)
(* An empty one needs another message behind it.                           *)
(***************************************************************************)
SmallValuesArrive ==
  []<> (intact => \A p \in 1 .. Len(sent[1]) :
          LET m == sent[1][p]
          IN m # Torn /\ Small(m) /\ (Empty(m) => p + PAXOS_MSG_SIZE(m) <= Len(sent[1]))
               => \E k \in 1 .. Len(handled[3]) : handled[3][k].id = m.id)
=============================================================================
