------------------------------ MODULE ProtoConn ------------------------------
(***************************************************************************)
(* One protocol connection of tpafd and the client at its other end: the   *)
(* transactions (proto_ta.c), the request handlers' answers, the queue of  *)
(* outgoing messages and the socket conditions the event loop waits for    *)
(* (proto_conn.c).  What a handler does to the database is Server's; here  *)
(* the database's verdict is a choice among the answers the handler has.   *)
(*                                                                         *)
(* The XCM socket is external: two message channels, of which the outgoing *)
(* one takes WireRoom messages before xcm_send() fails with EAGAIN.        *)
(***************************************************************************)
EXTENDS Integers, Sequences

CONSTANTS
    TaIds,                \* transaction ids, reused once a transaction is over
    SubIds,               \* subscription ids
    Commands,             \* the requests the client makes, of AllCommands
    SOFT_OUT_WIRE_LIMIT, MAX_SEND_BATCH,
    WireRoom,             \* what XCM buffers towards the client (a bound)
    MaxInbox,             \* what XCM buffers from the client (a bound)
    MaxMatches,           \* notifications one request gives rise to (a bound)
    MaxBacklog,           \* out_queue length that holds off notifications (a bound)
    Nil

\* The PROTO_CMD_*, and what proto_ta_req() rejects.
AllCommands == {"hello", "subscribe", "unsubscribe", "publish", "unpublish", "ping",
                "services", "subscriptions", "clients", "garbage"}
OnSubscription == {"subscribe", "unsubscribe"}

ASSUME CommandsAssumption == Commands \subseteq AllCommands

ASSUME LimitsAssumption ==
    /\ SOFT_OUT_WIRE_LIMIT \in Nat \ {0}
    /\ MAX_SEND_BATCH \in Nat \ {0}
    /\ WireRoom \in Nat \ {0}
    /\ MaxInbox \in Nat /\ MaxMatches \in Nat /\ MaxBacklog \in Nat

ASSUME ProtoNilAssumption == Nil \notin TaIds /\ Nil \notin SubIds

VARIABLES
    finished,   \* conn->client_id >= 0
    sub_tas,    \* conn->sub_tas: sub id -> its open transaction, or Nil
    out_queue,  \* conn->out_queue
    await,      \* the conditions last passed to xcm_await()
    up,         \* the conn has not been terminated and destroyed
    inbox,      \* XCM: requests on their way to the daemon
    outbox,     \* XCM: responses on their way to the client
    peer,       \* XCM: the client has not closed the connection
    ta          \* the client's own account of its transactions

vars == <<finished, sub_tas, out_queue, await, up, inbox, outbox, peer, ta>>

MsgTypes == {"accept", "notify", "complete", "fail"}
Msg == [ta: TaIds, type: MsgTypes]
Req == [ta: TaIds, cmd: Commands \cap OnSubscription, sub: SubIds]
         \cup [ta: TaIds, cmd: Commands \ OnSubscription, sub: {Nil}]

\* A transaction as its client sees it: none, a single-response or a
\* multi-response one that was requested, a multi-response one that was
\* accepted, or one that got a response that is not its due.
TaStates == {"idle", "single", "multi", "accepted", "garbled"}

TypeOK ==
    /\ finished \in BOOLEAN
    /\ sub_tas \in [SubIds -> TaIds \cup {Nil}]
    /\ out_queue \in Seq(Msg)
    /\ await \in SUBSET {"SENDABLE", "RECEIVABLE"}
    /\ up \in BOOLEAN
    /\ inbox \in Seq(Req) /\ Len(inbox) <= MaxInbox
    /\ outbox \in Seq(Msg) /\ Len(outbox) <= WireRoom
    /\ peer \in BOOLEAN
    /\ ta \in [TaIds -> TaStates]

-----------------------------------------------------------------------------
(* Transactions.                                                           *)

multi_response == {"subscribe", "services", "subscriptions", "clients"}

proto_ta_req(cmd) == IF cmd \in multi_response THEN "multi" ELSE "single"

\* The state a response takes a transaction to: the asserts of proto_ta_*(),
\* seen from the end that receives what they let through.
proto_ta_response(st, type) ==
    CASE type = "accept"   /\ st = "multi"                -> "accepted"
      [] type = "notify"   /\ st = "accepted"             -> "accepted"
      [] type = "complete" /\ st \in {"single", "accepted"} -> "idle"
      [] type = "fail"     /\ st \in {"single", "multi", "accepted"} -> "idle"
      [] OTHER -> "garbled"

M(t, type) == [ta |-> t, type |-> type]
Notifies(t, n) == [i \in 1..n |-> M(t, "notify")]

-----------------------------------------------------------------------------
(* Request handlers.  Each is the set of outcomes it can have: the messages *)
(* it queues, the handshake flag and the open subscriptions it leaves.      *)

Outcome(msgs, f, tas) == [msgs |-> msgs, finished |-> f, sub_tas |-> tas]
Replies(S) == {Outcome(msgs, finished, sub_tas) : msgs \in S}

Complete(t) == <<M(t, "complete")>>
Fail(t) == <<M(t, "fail")>>

\* Fails on a client id, a version or a second client id the server rejects.
handle_hello(t) == Replies({Fail(t)}) \cup {Outcome(Complete(t), TRUE, sub_tas)}

handle_no_hello(t) == Replies({Fail(t)})

Installed(t, b) == [sub_tas EXCEPT ![b] = t]

handle_subscribe_ActivatingFirst(t, b) ==
    Replies({Fail(t)}) \cup
    {Outcome(Notifies(t, n) \o <<M(t, "accept")>>, finished, Installed(t, b)) :
        n \in {i \in 0..MaxMatches : sub_tas[b] = Nil}}

\* The accept goes out before the notifications of the matches there are
\* already.  An id that is in use, here or by another client, and a filter
\* that is no filter are failures.
handle_subscribe(t, b) ==
    Replies({Fail(t)}) \cup
    {Outcome(<<M(t, "accept")>> \o Notifies(t, n), finished, Installed(t, b)) :
        n \in {i \in 0..MaxMatches : sub_tas[b] = Nil}}

handle_unsubscribe_OneResponse(t, b) ==
    IF sub_tas[b] = Nil THEN Replies({Fail(t)})
    ELSE {Outcome(Complete(t), finished, [sub_tas EXCEPT ![b] = Nil])}

\* Ends two transactions: its own and the subscription's.
handle_unsubscribe(t, b) ==
    IF sub_tas[b] = Nil THEN Replies({Fail(t)})
    ELSE {Outcome(Complete(t) \o Complete(sub_tas[b]), finished,
                  [sub_tas EXCEPT ![b] = Nil])}

\* A change of a service is reported to the client's own subscriptions too,
\* in the same callback: at most once to each, in the order they have in the
\* database, and before the response.
OwnMatches ==
    LET Open == {b \in SubIds : sub_tas[b] # Nil}
    IN  {[i \in DOMAIN m |-> M(sub_tas[m[i]], "notify")] :
            m \in {bs \in UNION {[1..n -> Open] : n \in 0..MaxMatches} :
                     \A i, j \in DOMAIN bs : bs[i] = bs[j] => i = j}}

handle_publish(t) == Replies({Fail(t)}) \cup Replies({q \o Complete(t) : q \in OwnMatches})

\* An unpublish of an orphan, or of another client's service, is a change to the
\* service first.
handle_unpublish(t) ==
    Replies({Fail(t)}) \cup Replies({q \o Complete(t) : q \in OwnMatches})
                       \cup Replies({q \o q \o Complete(t) : q \in OwnMatches})
handle_ping(t) == Replies({Complete(t)})

\* One notification per service, subscription or client.
Listing(t) ==
    Replies({<<M(t, "accept")>> \o Notifies(t, n) \o Complete(t) : n \in 0..MaxMatches})

handle_services(t) == Replies({Fail(t)}) \cup Listing(t)
handle_subscriptions(t) == Listing(t)
handle_clients(t) == Listing(t)

\* No outcome: the message is no request, and the connection is terminated.
handle_req(r) ==
    CASE r.cmd = "garbage"       -> {}
      [] r.cmd = "hello"         -> handle_hello(r.ta)
      [] r.cmd \notin {"garbage", "hello"} /\ ~finished -> handle_no_hello(r.ta)
      [] r.cmd = "subscribe"     /\ finished -> handle_subscribe(r.ta, r.sub)
      [] r.cmd = "unsubscribe"   /\ finished -> handle_unsubscribe(r.ta, r.sub)
      [] r.cmd = "publish"       /\ finished -> handle_publish(r.ta)
      [] r.cmd = "unpublish"     /\ finished -> handle_unpublish(r.ta)
      [] r.cmd = "ping"          /\ finished -> handle_ping(r.ta)
      [] r.cmd = "services"      /\ finished -> handle_services(r.ta)
      [] r.cmd = "subscriptions" /\ finished -> handle_subscriptions(r.ta)
      [] r.cmd = "clients"       /\ finished -> handle_clients(r.ta)

-----------------------------------------------------------------------------
(* The socket.                                                             *)

await_update_EitherOr(q) ==
    IF Len(q) < SOFT_OUT_WIRE_LIMIT THEN {"RECEIVABLE"} ELSE {"SENDABLE"}

await_update_AlwaysSendable(q) ==
    {"SENDABLE"} \cup {w \in {"RECEIVABLE"} : Len(q) < SOFT_OUT_WIRE_LIMIT}

\* The conditions await_update() asks for with q queued.
await_update(q) ==
    {w \in {"SENDABLE", "RECEIVABLE"} :
        \/ w = "SENDABLE" /\ Len(q) > 0
        \/ w = "RECEIVABLE" /\ Len(q) < SOFT_OUT_WIRE_LIMIT}

\* The connection is destroyed, with its transactions and what it has queued;
\* what XCM has taken may still arrive.
term ==
    /\ up' = FALSE
    /\ finished' = FALSE
    /\ sub_tas' = [b \in SubIds |-> Nil]
    /\ out_queue' = <<>>
    /\ await' = {}
    /\ UNCHANGED <<outbox, peer, ta>>

\* Sends what XCM takes of q, at most a batch.  The conditions are updated
\* only at the end of a full batch: otherwise they stay as try_receive() has
\* set them for q, even when nothing is left to send.
try_send(q) ==
    LET room == WireRoom - Len(outbox)
        n == CHOOSE m \in 0..Len(q) :
                /\ m <= room /\ m <= MAX_SEND_BATCH
                /\ m \in {room, MAX_SEND_BATCH, Len(q)}
        left == SubSeq(q, n + 1, Len(q))
    IN  /\ outbox' = outbox \o SubSeq(q, 1, n)
        /\ out_queue' = left
        /\ await' = IF n = MAX_SEND_BATCH THEN await_update(left) ELSE await_update(q)
        /\ UNCHANGED <<up, peer, ta>>

\* xcm_send() to a peer that is gone fails.
SendOrTerm(q, f, tas) ==
    \/ /\ peer \/ q = <<>>
       /\ try_send(q)
       /\ finished' = f
       /\ sub_tas' = tas
    \/ /\ ~peer /\ q # <<>>
       /\ term

\* The events the connection is waiting for.  A closed connection is both
\* receivable and sendable.
Ready ==
    \/ "RECEIVABLE" \in await /\ (inbox # <<>> \/ ~peer)
    \/ "SENDABLE" \in await /\ (Len(outbox) < WireRoom \/ ~peer)

\* process_cb(): always receives before it sends, whichever event it was.
\* First with a request to receive, then with none (EAGAIN), then at the end
\* of a closed connection.
conn_process_request ==
    /\ up /\ Ready
    /\ inbox # <<>>
    /\ inbox' = Tail(inbox)
    /\ \/ \E o \in handle_req(Head(inbox)) :
             SendOrTerm(out_queue \o o.msgs, o.finished, o.sub_tas)
       \/ handle_req(Head(inbox)) = {} /\ term

conn_process_nothing ==
    /\ up /\ Ready
    /\ inbox = <<>> /\ peer
    /\ try_send(out_queue)
    /\ UNCHANGED <<finished, sub_tas, inbox>>

conn_process_closed ==
    /\ up /\ Ready
    /\ inbox = <<>> /\ ~peer
    /\ term
    /\ UNCHANGED inbox

conn_process == conn_process_request \/ conn_process_nothing \/ conn_process_closed

notify_sub_match_NoAwait(b) ==
    /\ up /\ sub_tas[b] # Nil
    /\ Len(out_queue) < MaxBacklog
    /\ out_queue' = Append(out_queue, M(sub_tas[b], "notify"))
    /\ UNCHANGED <<finished, sub_tas, await, up, inbox, outbox, peer, ta>>

\* A request of another client, or an orphan timer, changes a service that
\* matches subscription b.
notify_sub_match(b) ==
    /\ up /\ sub_tas[b] # Nil
    /\ Len(out_queue) < MaxBacklog
    /\ out_queue' = Append(out_queue, M(sub_tas[b], "notify"))
    /\ await' = await_update(out_queue')
    /\ UNCHANGED <<finished, sub_tas, up, inbox, outbox, peer, ta>>

-----------------------------------------------------------------------------
(* The client.                                                             *)

ClientRequest(r) ==
    /\ up /\ peer
    /\ ta[r.ta] = "idle"
    /\ Len(inbox) < MaxInbox
    /\ inbox' = Append(inbox, r)
    /\ ta' = [ta EXCEPT ![r.ta] = proto_ta_req(r.cmd)]
    /\ UNCHANGED <<finished, sub_tas, out_queue, await, up, outbox, peer>>

ClientReceive ==
    /\ peer /\ outbox # <<>>
    /\ LET m == Head(outbox)
       IN  ta' = [ta EXCEPT ![m.ta] = proto_ta_response(@, m.type)]
    /\ outbox' = Tail(outbox)
    /\ UNCHANGED <<finished, sub_tas, out_queue, await, up, inbox, peer>>

ClientCloses ==
    /\ peer
    /\ peer' = FALSE
    /\ UNCHANGED <<finished, sub_tas, out_queue, await, up, inbox, outbox, ta>>

-----------------------------------------------------------------------------
Init ==
    /\ finished = FALSE
    /\ sub_tas = [b \in SubIds |-> Nil]
    /\ out_queue = <<>>
    /\ await = {"RECEIVABLE"}
    /\ up = TRUE
    /\ inbox = <<>>
    /\ outbox = <<>>
    /\ peer = TRUE
    /\ ta = [t \in TaIds |-> "idle"]

Next ==
    \/ conn_process
    \/ \E b \in SubIds : notify_sub_match(b)
    \/ \E r \in Req : ClientRequest(r)
    \/ ClientReceive
    \/ ClientCloses

Spec == Init /\ [][Next]_vars

\* The event loop dispatches events that are ready, and the client keeps
\* reading what it is sent.
FairSpec == Spec /\ WF_vars(conn_process) /\ WF_vars(ClientReceive)

-----------------------------------------------------------------------------
(* Safety.                                                                 *)

\* No lost wakeup: while there is something to send the connection waits for
\* the socket to become sendable, and it never waits for nothing, even though
\* try_send() mostly returns without updating the conditions.
NoLostWakeup ==
    up => /\ out_queue # <<>> => "SENDABLE" \in await
          /\ await # {}

\* A client never gets a response that is not its transaction's due: no
\* notification before the accept or after the complete, no second answer.
ResponsesConform == \A t \in TaIds : ta[t] # "garbled"

\* What the client makes of transaction t, in state st, of a message m, and of
\* the messages q.
Received(t, st, m) == IF m.ta = t THEN proto_ta_response(st, m.type) ELSE st

ReceivedAll(t, st, q) ==
    LET after[i \in 0..Len(q)] ==
            IF i = 0 THEN st ELSE Received(t, after[i - 1], q[i])
    IN  after[Len(q)]

\* The state transaction t is in once the client has all that is under way.
Settled(t) == ReceivedAll(t, ta[t], outbox \o out_queue)

\* The daemon forgets no transaction: one the client has open is waiting to
\* be received, is the open transaction of a subscription, or has its last
\* response on the way.
NoTransactionForgotten ==
    up => \A t \in TaIds :
        Settled(t) = IF \E i \in DOMAIN inbox : inbox[i].ta = t
                     THEN LET i == CHOOSE j \in DOMAIN inbox : inbox[j].ta = t
                          IN  proto_ta_req(inbox[i].cmd)
                     ELSE IF \E b \in SubIds : sub_tas[b] = t THEN "accepted" ELSE "idle"

\* Back-pressure: a client that stops reading is not served.  While its queue is
\* at the soft limit and XCM takes no more, none of its requests is received,
\* whatever mixture of notifications and requests has filled the queue and
\* although every wakeup, a SENDABLE one too, receives before it sends.
Backpressure ==
    [][peer /\ Len(out_queue) >= SOFT_OUT_WIRE_LIMIT /\ Len(outbox) = WireRoom
          => Len(inbox') >= Len(inbox)]_vars

-----------------------------------------------------------------------------
(* Liveness.                                                               *)

\* Flow control never wedges a connection: every request is answered, if
\* only with an accept, unless the connection ends.
RequestsAnswered ==
    \A t \in TaIds : ta[t] \in {"single", "multi"}
                        ~> (ta[t] \notin {"single", "multi"} \/ ~up \/ ~peer)

\* A connection with nothing to do ends up waiting for requests only: the
\* stale SENDABLE condition that try_send() leaves behind does not keep the
\* event loop spinning.
IdleConnSleeps ==
    [](<>[](up /\ peer /\ inbox = <<>> /\ out_queue = <<>>) => <>(await = {"RECEIVABLE"}))
=============================================================================
