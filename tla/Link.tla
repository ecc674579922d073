-------------------------------- MODULE Link --------------------------------
(***************************************************************************)
(* One instance of a proposer over its connections to the acceptors: the   *)
(* callbacks of src/evpaxos/evproposer.c, peers.c, tcp_receiver.c and      *)
(* evacceptor.c, and the timer that sends requests again.                  *)
(*                                                                         *)
(* A connection is a queue of messages each way.  When it breaks, what is  *)
(* under way is lost from some point on, either side may notice first, and *)
(* the acceptor may still read requests of a connection that the proposer  *)
(* has replaced.  Other proposers work on the same instance through        *)
(* connections of their own; of them only their effect on the acceptors    *)
(* and what the acceptors broadcast is kept.                               *)
(***************************************************************************)
EXTENDS PaxosAcceptor, Timeouts, Sequences

CONSTANTS
  id,            \* the id of the proposer
  OtherBallots,  \* the ballots of the other proposers
  MaxConns,      \* bound: how many connections are made to an acceptor
  MaxQueue,      \* bound: with so many messages under way, the timer waits
  MaxIdle        \* bound: how long an instance waits for a client's value

ASSUME LinkAssumption ==
  /\ id \in 0 .. MAX_N_OF_PROPOSERS - 1
  /\ OtherBallots \subseteq Ballot \ {0}
  /\ \A b \in OtherBallots : b % MAX_N_OF_PROPOSERS # id
  /\ proposer_next_ballot(id, 0) <= MaxBallot
  /\ {MaxConns, MaxQueue, MaxIdle} \subseteq Nat \ {0}

VARIABLES
  inst,      \* the instance of the proposer
  values,    \* the client values that wait in the proposer
  age,       \* how old created_at was when the timer last fired
  renewed,   \* whether created_at was set since
  peer,      \* peer[a]: the proposer's side of the connection to a
  server,    \* server[a][c]: a's side of connection c
  requests,  \* requests[a][c]: what a has not read of connection c
  answers,   \* answers[a][c]: what the proposer has not read of it
  record     \* record[a]: the acceptor's record of the instance

proposer_vars == <<inst, values, age, renewed>>
vars == <<inst, values, age, renewed, peer, server, requests, answers, record>>

Conn == 1 .. MaxConns
MaxAge == INT_MAX + SECOND

\* Between two calls of proposer_check_timeouts.
period == proposer_timeout * SECOND

Request == [type : {"prepare_reqs"}, ballot : Ballot] \cup
           [type : {"accept_reqs"}, ballot : Ballot, value : Value]
Answer == [type : {"prepare_acks", "accept_acks"}, acceptor_id : AcceptorId, record : RecordType]

TypeOK ==
  /\ inst \in InstanceType
  /\ values \in Seq(Value)
  /\ age \in 0 .. MaxAge
  /\ renewed \in BOOLEAN
  /\ peer \in [AcceptorId -> [bev : Conn, state : {"waiting", "connecting", "connected"}]]
  /\ server \in [AcceptorId -> [Conn -> {"none", "backlog", "open", "dead", "freed"}]]
  /\ requests \in [AcceptorId -> [Conn -> Seq(Request)]]
  /\ answers \in [AcceptorId -> [Conn -> Seq(Answer)]]
  /\ record \in [AcceptorId -> RecordType]
-----------------------------------------------------------------------------
\* send_prepares and send_accepts: into the buffer of every peer, connected or not.
send(reqs) ==
  requests' = [a \in AcceptorId |-> [requests[a] EXCEPT ![peer[a].bev] = @ \o reqs]]

prepare_req(i) == <<[type |-> "prepare_reqs", ballot |-> i.ballot]>>
accept_req(i) == <<[type |-> "accept_reqs", ballot |-> i.ballot, value |-> i.value]>>

\* prepare_preempt and instance_new set created_at; proposer_accept does not.
created == age' = 0 /\ renewed' = TRUE
not_created == UNCHANGED <<age, renewed>>

Keep(i, vals) == inst' = i /\ values' = vals /\ not_created /\ UNCHANGED requests

\* try_accept at the end of a handler that leaves instance i and the queue vals.
TryAccept(i, vals) ==
  \/ /\ i.list = "none"
     /\ inst' \in instance_new(id)
     /\ values' = vals
     /\ created
     /\ send(prepare_req(inst'))
  \/ /\ i.list = "prepare" /\ quorum_reached(i.quorum)
     /\ i.value # None \/ vals # <<>>
     /\ inst' = proposer_accept(i, IF i.value = None THEN Head(vals) ELSE i.value)
     /\ values' = IF i.value = None THEN Tail(vals) ELSE vals
     /\ not_created
     /\ send(accept_req(inst'))
  \/ /\ i.list = "prepare" => ~quorum_reached(i.quorum) \/ (i.value = None /\ vals = <<>>)
     /\ i.list # "none"
     /\ Keep(i, vals)

Preempted ==
  /\ proposer_next_ballot(id, inst.ballot) <= MaxBallot
  /\ inst' = prepare_preempt(id, inst)
  /\ UNCHANGED values
  /\ created
  /\ send(prepare_req(inst'))

\* Mutant: nothing tests whether there is a value to displace.
displaced_Unchecked(m) == IF m.record.value_ballot > inst.value_ballot THEN <<inst.value>> ELSE <<>>

\* The value that a promise displaces goes to the back of the queue.
displaced(m) ==
  IF m.record.value # None /\ inst.value # None /\ m.record.value_ballot > inst.value_ballot
    THEN <<inst.value>>
    ELSE <<>>

\* proposer_handle_prepare_ack, and try_accept.
HandlePrepareAck(m) ==
  \/ /\ inst.list = "prepare" /\ m.record.ballot = inst.ballot
     /\ quorum_adds(inst.quorum, m.acceptor_id)
     /\ TryAccept(proposer_receive_prepare_ack(inst, m), values \o displaced(m))
  \/ /\ inst.list = "prepare" /\ m.record.ballot > inst.ballot
     /\ Preempted
  \/ /\ inst.list = "prepare" => \/ m.record.ballot < inst.ballot
                                 \/ /\ m.record.ballot = inst.ballot
                                    /\ ~quorum_adds(inst.quorum, m.acceptor_id)
     /\ TryAccept(inst, values)

\* proposer_handle_accept_ack, and try_accept.  The assertion comes before the count.
HandleAcceptAck(m) ==
  \/ /\ inst.list = "accept" /\ m.record.ballot = inst.ballot
     /\ IF m.record.value_ballot # inst.ballot
          THEN Keep([inst EXCEPT !.list = "aborted"], values)
          ELSE TryAccept(proposer_receive_accept_ack(inst, m), values)
  \/ /\ inst.list = "accept" /\ m.record.ballot # inst.ballot
     /\ Preempted
  \/ /\ inst.list # "accept"
     /\ TryAccept(inst, values)

\* handle_request: a message from acceptor a.
ProposerRead(a) ==
  LET c == peer[a].bev
  IN /\ peer[a].state = "connected"
     /\ answers[a][c] # <<>>
     /\ inst.list # "aborted"
     /\ answers' = [answers EXCEPT ![a][c] = Tail(@)]
     /\ LET m == Head(answers[a][c])
        IN IF m.type = "prepare_acks" THEN HandlePrepareAck(m) ELSE HandleAcceptAck(m)
     /\ UNCHANGED <<peer, server, record>>

\* handle_request: a client's value; or anything about another instance, which
\* runs try_accept all the same.
Submit(vals) ==
  /\ inst.list \in {"none", "prepare"}
  /\ Len(values \o vals) <= 1
  /\ vals # <<>> \/ inst.list = "none"
  /\ TryAccept(inst, values \o vals)
  /\ UNCHANGED <<peer, server, answers, record>>

\* An instance waits for answers, or for a value.
Pending(i) == i.list \in {"prepare", "accept"} /\ ~quorum_reached(i.quorum)
Idle(i) == i.list = "prepare" /\ quorum_reached(i.quorum)

\* proposer_check_timeouts, when d microseconds have passed.
CheckTimeouts(d) ==
  LET now == IF age + d < MaxAge THEN age + d ELSE MaxAge
  IN /\ Pending(inst) \/ (Idle(inst) /\ now <= MaxIdle)
     /\ \A a \in AcceptorId :
          Len(requests[a][peer[a].bev]) + Len(answers[a][peer[a].bev]) < MaxQueue
     /\ \E timedout \in instance_has_timedout(now) :
          IF Pending(inst) /\ timedout
            THEN /\ send(IF inst.list = "prepare" THEN prepare_req(inst) ELSE accept_req(inst))
                 /\ age' = 0
            ELSE /\ UNCHANGED requests
                 /\ age' = now
     /\ renewed' = FALSE
     /\ UNCHANGED <<inst, values, peer, server, answers, record>>

Timer == \E d \in IF renewed THEN 0 .. period ELSE {period} : CheckTimeouts(d)
-----------------------------------------------------------------------------
\* on_socket_event with BEV_EVENT_CONNECTED; the listener has yet to accept.
OnConnected(a) ==
  /\ peer[a].state = "connecting"
  /\ peer' = [peer EXCEPT ![a].state = "connected"]
  /\ server' = [server EXCEPT ![a][peer[a].bev] = "backlog"]
  /\ UNCHANGED <<proposer_vars, requests, answers, record>>

\* Mutant: the new bufferevent is never connected.
after_error_NoReconnect(p) == [p EXCEPT !.bev = @ + 1]

after_error(p) == [bev |-> p.bev + 1, state |-> "waiting"]

\* on_socket_event with an error or the end of the file: the buffers go with the
\* old bufferevent.  What has left may still be read by the acceptor.
OnSocketError(a) ==
  LET c == peer[a].bev
  IN /\ peer[a].state # "waiting"
     /\ c < MaxConns
     /\ peer' = [peer EXCEPT ![a] = after_error(@)]
     /\ \E n \in 0 .. (IF server[a][c] = "none" THEN 0 ELSE Len(requests[a][c])) :
          requests' = [requests EXCEPT ![a][c] = SubSeq(@, 1, n)]
     /\ answers' = [answers EXCEPT ![a][c] = <<>>]
     /\ UNCHANGED <<proposer_vars, server, record>>

\* reconnect_ev: on_connection_timeout.
OnConnectionTimeout(a) ==
  /\ peer[a].state = "waiting"
  /\ peer' = [peer EXCEPT ![a].state = "connecting"]
  /\ UNCHANGED <<proposer_vars, server, requests, answers, record>>

OnAccept(a, c) ==
  /\ server[a][c] = "backlog"
  /\ server' = [server EXCEPT ![a][c] = "open"]
  /\ UNCHANGED <<proposer_vars, peer, requests, answers, record>>

\* on_error with BEV_EVENT_EOF, when all has been read: bevs loses the connection.
OnEof(a, c) ==
  /\ server[a][c] = "open"
  /\ c < peer[a].bev
  /\ requests[a][c] = <<>>
  /\ server' = [server EXCEPT ![a][c] = "freed"]
  /\ UNCHANGED <<proposer_vars, peer, requests, answers, record>>

\* on_error with BEV_EVENT_ERROR: the dead bufferevent stays in bevs.
OnError(a, c) ==
  /\ server[a][c] = "open"
  /\ c < MaxConns
  /\ server' = [server EXCEPT ![a][c] = "dead"]
  /\ requests' = [requests EXCEPT ![a][c] = <<>>]
  /\ \E n \in 0 .. Len(answers[a][c]) : answers' = [answers EXCEPT ![a][c] = SubSeq(@, 1, n)]
  /\ UNCHANGED <<proposer_vars, peer, record>>

\* An acceptor writes to some of its connections; one that is dead, or that the
\* proposer has closed, carries nothing.
write(a, conns, m) ==
  answers' = [answers EXCEPT ![a] = [c \in Conn |->
    IF c \in conns /\ server[a][c] = "open" /\ c = peer[a].bev THEN Append(@[c], m) ELSE @[c]]]

prepare_ack(a, r) == [type |-> "prepare_acks", acceptor_id |-> a, record |-> r]
accept_ack(a, r) == [type |-> "accept_acks", acceptor_id |-> a, record |-> r]

\* Mutant: a refusal is broadcast as an acceptance is.
receivers_Everyone(m, r, c) == Conn

\* handle_accept_req: an acceptance goes to everyone, a refusal to who asked.
receivers(m, r, c) == IF m.ballot = r.ballot THEN Conn ELSE {c}

\* handle_req: acceptor a reads a message of connection c.
AcceptorRead(a, c) ==
  /\ server[a][c] = "open"
  /\ requests[a][c] # <<>>
  /\ requests' = [requests EXCEPT ![a][c] = Tail(@)]
  /\ LET m == Head(requests[a][c])
         r == IF m.type = "prepare_reqs" THEN apply_prepare(record[a], m) ELSE apply_accept(record[a], m)
     IN /\ record' = [record EXCEPT ![a] = r]
        /\ IF m.type = "prepare_reqs"
             THEN write(a, {c}, prepare_ack(a, r))
             ELSE write(a, receivers(m, r, c), accept_ack(a, r))
  /\ UNCHANGED <<proposer_vars, peer, server>>

\* The same for a request of another proposer.
OtherPrepare(a, b) ==
  /\ record[a].ballot < b
  /\ record' = [record EXCEPT ![a].ballot = b]
  /\ UNCHANGED <<proposer_vars, peer, server, requests, answers>>

OtherAccept(a, m) ==
  /\ record[a].ballot = m.ballot
  /\ record[a].value_ballot < m.ballot
  /\ record' = [record EXCEPT ![a] = apply_accept(@, m)]
  /\ write(a, Conn, accept_ack(a, record'[a]))
  /\ UNCHANGED <<proposer_vars, peer, server, requests>>
-----------------------------------------------------------------------------
\* Every peer is given a bufferevent that starts to connect.
make_peer == [bev |-> 1, state |-> "connecting"]

\* evproposer_init.
Init ==
  /\ inst = [list |-> "none", ballot |-> 0, value_ballot |-> 0, value |-> None,
             quorum |-> [count |-> 0, acceptor_ids |-> [a \in AcceptorId |-> 0], counted |-> {}]]
  /\ values = <<>>
  /\ age = 0
  /\ renewed = FALSE
  /\ peer = [a \in AcceptorId |-> make_peer]
  /\ server = [a \in AcceptorId |-> [c \in Conn |-> "none"]]
  /\ requests = [a \in AcceptorId |-> [c \in Conn |-> <<>>]]
  /\ answers = [a \in AcceptorId |-> [c \in Conn |-> <<>>]]
  /\ record = [a \in AcceptorId |-> [ballot |-> 0, value_ballot |-> 0, value |-> None]]

\* The proposer notices that the other side of its connection is dead.
Notice(a) == server[a][peer[a].bev] = "dead" /\ OnSocketError(a)

Next ==
  \/ \E v \in Value : Submit(<<v>>)
  \/ Submit(<<>>)
  \/ Timer
  \/ \E a \in AcceptorId :
       \/ ProposerRead(a) \/ OnConnected(a) \/ OnSocketError(a) \/ OnConnectionTimeout(a)
       \/ \E c \in Conn : OnAccept(a, c) \/ OnEof(a, c) \/ OnError(a, c) \/ AcceptorRead(a, c)
       \/ \E b \in OtherBallots :
            \/ OtherPrepare(a, b)
            \/ \E v \in Value : OtherAccept(a, [ballot |-> b, value |-> v])

Fairness ==
  /\ WF_vars(Timer)
  /\ \A a \in AcceptorId :
       /\ WF_vars(ProposerRead(a))
       /\ WF_vars(OnConnected(a) \/ OnConnectionTimeout(a) \/ Notice(a))
       /\ \A c \in Conn : WF_vars(OnAccept(a, c) \/ AcceptorRead(a, c))

Spec == Init /\ [][Next]_vars /\ Fairness
-----------------------------------------------------------------------------
(***************************************************************************)
(* assert(ack->value_ballot == inst->ballot) in                            *)
(* proposer_receive_accept_ack never fails.  It rests on the order of a    *)
(* connection and on the refusals going only to the connection that asked: *)
(* a request of an old ballot that is read late, from a connection that    *)
(* the proposer has replaced, is refused with the ballot of its newer      *)
(* promise, and that refusal must not reach the proposer.                  *)
(***************************************************************************)
AssertionHolds == inst.list # "aborted"

(***************************************************************************)
(* The acceptors that an instance counts have done what they are counted   *)
(* for: promised its ballot, or accepted it, whatever answers were lost,   *)
(* repeated or left over from a connection, a ballot or a phase before.    *)
(***************************************************************************)
CountedAnswered ==
  \A a \in inst.quorum.counted :
    /\ record[a].ballot >= inst.ballot
    /\ inst.list \in {"accept", "freed"} => record[a].value_ballot >= inst.ballot

(***************************************************************************)
(* An instance that goes on waiting for answers times out again and again, *)
(* as the tests PendingPrepareShouldTimeout and PendingAcceptShouldTimeout *)
(* expect of proposer_timeout_iterator.                                    *)
(***************************************************************************)
PendingTimesOut == []<>(~Pending(inst) \/ age = 0)

(***************************************************************************)
(* Once there is a value, the instance gets its quorum of accepts, however *)
(* often connections break before they stop breaking, and however often    *)
(* other proposers go ahead before they stop.                              *)
(***************************************************************************)
ValueIsAccepted == (values # <<>> \/ inst.value # None) ~> inst.list = "freed"
=============================================================================
