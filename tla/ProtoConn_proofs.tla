-------------------------- MODULE ProtoConn_proofs --------------------------
(***************************************************************************)
(* Proofs about ProtoConn, for every batch size, soft limit and amount of  *)
(* socket buffering, and every set of transactions and subscriptions: the  *)
(* flow control of a connection never loses a wakeup, and no transaction   *)
(* is answered out of turn or forgotten.                                   *)
(***************************************************************************)
EXTENDS ProtoConn, SequenceTheorems, WellFoundedInduction, TLAPS

TasType == [SubIds -> TaIds \cup {Nil}]

\* What a request handler hands back.
OutcomeType == [msgs: Seq(Msg), finished: BOOLEAN, sub_tas: TasType]

\* At the soft limit the connection does not wait for requests.
ReceivesBelowLimit ==
    "RECEIVABLE" \in await => Len(out_queue) < SOFT_OUT_WIRE_LIMIT

PInv == TypeOK /\ NoLostWakeup /\ ReceivesBelowLimit

-----------------------------------------------------------------------------
(* Handlers.                                                               *)

LEMMA MsgsType ==
    ASSUME NEW t \in TaIds
    PROVE  /\ Complete(t) \in Seq(Msg) /\ Fail(t) \in Seq(Msg)
           /\ <<M(t, "accept")>> \in Seq(Msg)
           /\ \A n \in Nat : Notifies(t, n) \in Seq(Msg)
  <1>1. \A type \in MsgTypes : M(t, type) \in Msg
    BY DEF M, Msg
  <1>2. Complete(t) \in Seq(Msg) /\ Fail(t) \in Seq(Msg) /\ <<M(t, "accept")>> \in Seq(Msg)
    BY <1>1 DEF Complete, Fail, MsgTypes
  <1>3. ASSUME NEW n \in Nat PROVE Notifies(t, n) \in Seq(Msg)
    <2>1. Notifies(t, n) \in [1..n -> Msg]
      BY <1>1 DEF Notifies, MsgTypes
    <2> QED BY <2>1
  <1> QED BY <1>2, <1>3

LEMMA RepliesType ==
    ASSUME TypeOK, NEW S, S \subseteq Seq(Msg)
    PROVE  Replies(S) \subseteq OutcomeType
  BY DEF Replies, Outcome, OutcomeType, TasType, TypeOK

\* What the client's own subscriptions are told is notifications, of the
\* transactions of open subscriptions.
OwnNotes(q) ==
    /\ q \in Seq(Msg)
    /\ \A i \in 1..Len(q) : q[i].type = "notify" /\ \E b \in SubIds : q[i].ta = sub_tas[b]

LEMMA OwnMatchesAreNotes ==
    ASSUME TypeOK, NEW q \in OwnMatches
    PROVE  OwnNotes(q)
  <1> DEFINE Open == {b \in SubIds : sub_tas[b] # Nil}
  <1>0. PICK n \in 0..MaxMatches : \E m \in [1..n -> Open] :
            q = [i \in DOMAIN m |-> M(sub_tas[m[i]], "notify")]
    BY DEF OwnMatches
  <1>1. PICK m \in [1..n -> Open] : q = [i \in DOMAIN m |-> M(sub_tas[m[i]], "notify")]
    BY <1>0
  <1>2. n \in Nat /\ DOMAIN m = 1..n
    BY LimitsAssumption
  <1>3. \A i \in 1..n : m[i] \in SubIds /\ sub_tas[m[i]] \in TaIds
    BY <1>1 DEF TypeOK
  <1>4. \A i \in 1..n : M(sub_tas[m[i]], "notify") \in Msg
    BY <1>3 DEF M, Msg, MsgTypes
  <1>5. q \in [1..n -> Msg]
    BY <1>1, <1>2, <1>4
  <1>6. q \in Seq(Msg) /\ Len(q) = n
    BY <1>2, <1>5
  <1>7. \A i \in 1..n : q[i].type = "notify" /\ q[i].ta = sub_tas[m[i]]
    BY <1>1, <1>2 DEF M
  <1> QED BY <1>3, <1>6, <1>7 DEF OwnNotes

LEMMA NotesConcat ==
    ASSUME NEW a, NEW b, OwnNotes(a), OwnNotes(b)
    PROVE  OwnNotes(a \o b)
  BY DEF OwnNotes

\* A publish or an unpublish that succeeds.
Told(t) == {q \o Complete(t) : q \in {x \in Seq(Msg) : OwnNotes(x)}}

LEMMA PublishTells ==
    ASSUME TypeOK, NEW t
    PROVE  /\ handle_publish(t) \subseteq Replies({Fail(t)}) \cup Replies(Told(t))
           /\ handle_unpublish(t) \subseteq Replies({Fail(t)}) \cup Replies(Told(t))
  <1>1. ASSUME NEW q \in OwnMatches
        PROVE  /\ q \o Complete(t) \in Told(t)
               /\ q \o q \o Complete(t) \in Told(t)
    <2>1. OwnNotes(q) /\ OwnNotes(q \o q)
      BY <1>1, OwnMatchesAreNotes, NotesConcat
    <2>2. q \in Seq(Msg) /\ q \o q \in Seq(Msg)
      BY <2>1 DEF OwnNotes
    <2> QED BY <2>1, <2>2 DEF Told
  <1> QED BY <1>1 DEF handle_publish, handle_unpublish, Replies

\* Whatever the request, its handler queues messages of the protocol and
\* leaves the open subscriptions a map from ids to transactions.
LEMMA HandlerType ==
    ASSUME TypeOK, NEW r \in Req
    PROVE  handle_req(r) \subseteq OutcomeType
  <1> DEFINE t == r.ta
  <1>t. t \in TaIds /\ r.cmd \in AllCommands
    BY CommandsAssumption DEF Req
  <1>m. /\ Complete(t) \in Seq(Msg) /\ Fail(t) \in Seq(Msg)
        /\ <<M(t, "accept")>> \in Seq(Msg)
        /\ \A n \in 0..MaxMatches : Notifies(t, n) \in Seq(Msg)
    BY <1>t, MsgsType, LimitsAssumption
  <1>s. sub_tas \in TasType /\ finished \in BOOLEAN
    BY DEF TypeOK, TasType
  <1>f. Replies({Fail(t)}) \subseteq OutcomeType
    BY <1>m, RepliesType
  <1>c. Replies({Complete(t)}) \subseteq OutcomeType
    BY <1>m, RepliesType
  <1>n. Replies(Told(t)) \subseteq OutcomeType
    <2>1. Told(t) \subseteq Seq(Msg)
      <3> SUFFICES ASSUME NEW q \in Seq(Msg) PROVE q \o Complete(t) \in Seq(Msg)
        BY DEF Told
      <3> QED BY <1>m, ConcatProperties
    <2> QED BY <2>1, RepliesType
  <1>l. Listing(t) \subseteq OutcomeType
    <2> DEFINE S == {<<M(t, "accept")>> \o Notifies(t, n) \o Complete(t) : n \in 0..MaxMatches}
    <2>1. S \subseteq Seq(Msg)
      <3>1. ASSUME NEW n \in 0..MaxMatches
            PROVE  <<M(t, "accept")>> \o Notifies(t, n) \o Complete(t) \in Seq(Msg)
        <4>1. <<M(t, "accept")>> \o Notifies(t, n) \in Seq(Msg)
          BY <1>m
        <4> QED BY <1>m, <4>1
      <3> QED BY <3>1
    <2> QED BY <2>1, RepliesType DEF Listing
  <1>1. CASE r.cmd = "garbage"
    BY <1>1 DEF handle_req
  <1>2. CASE r.cmd = "hello"
    <2>1. handle_req(r) = handle_hello(t)
      BY <1>2 DEF handle_req
    <2>2. Outcome(Complete(t), TRUE, sub_tas) \in OutcomeType
      BY <1>m, <1>s DEF Outcome, OutcomeType
    <2> QED BY <1>f, <2>1, <2>2 DEF handle_hello
  <1>3. CASE r.cmd \notin {"garbage", "hello"} /\ ~finished
    BY <1>f, <1>3 DEF handle_req, handle_no_hello
  <1>4. CASE r.cmd = "subscribe" /\ finished
    <2>1. handle_req(r) = handle_subscribe(t, r.sub) /\ r.sub \in SubIds
      BY <1>4 DEF handle_req, Req, OnSubscription
    <2>2. ASSUME NEW n \in 0..MaxMatches
          PROVE  Outcome(<<M(t, "accept")>> \o Notifies(t, n), finished,
                         Installed(t, r.sub)) \in OutcomeType
      <3>1. <<M(t, "accept")>> \o Notifies(t, n) \in Seq(Msg)
        BY <1>m
      <3>2. Installed(t, r.sub) \in TasType
        BY <1>t, <1>s, <2>1 DEF Installed, TasType
      <3> QED BY <1>s, <3>1, <3>2 DEF Outcome, OutcomeType
    <2> QED BY <1>f, <2>1, <2>2 DEF handle_subscribe
  <1>5. CASE r.cmd = "unsubscribe" /\ finished
    <2>1. handle_req(r) = handle_unsubscribe(t, r.sub) /\ r.sub \in SubIds
      BY <1>5 DEF handle_req, Req, OnSubscription
    <2>2. CASE sub_tas[r.sub] = Nil
      BY <1>f, <2>1, <2>2 DEF handle_unsubscribe
    <2>3. CASE sub_tas[r.sub] # Nil
      <3>1. sub_tas[r.sub] \in TaIds
        BY <1>s, <2>1, <2>3 DEF TasType
      <3>2. Complete(t) \o Complete(sub_tas[r.sub]) \in Seq(Msg)
        BY <1>m, <3>1, MsgsType
      <3>3. [sub_tas EXCEPT ![r.sub] = Nil] \in TasType
        BY <1>s, <2>1 DEF TasType
      <3>4. Outcome(Complete(t) \o Complete(sub_tas[r.sub]), finished,
                    [sub_tas EXCEPT ![r.sub] = Nil]) \in OutcomeType
        BY <1>s, <3>2, <3>3 DEF Outcome, OutcomeType
      <3> QED BY <2>1, <2>3, <3>4 DEF handle_unsubscribe
    <2> QED BY <2>2, <2>3
  <1>6. CASE r.cmd = "publish" /\ finished
    BY <1>f, <1>n, <1>6, PublishTells DEF handle_req
  <1>7. CASE r.cmd = "unpublish" /\ finished
    BY <1>f, <1>n, <1>7, PublishTells DEF handle_req
  <1>8. CASE r.cmd = "ping" /\ finished
    BY <1>c, <1>8 DEF handle_req, handle_ping
  <1>9. CASE r.cmd = "services" /\ finished
    BY <1>f, <1>l, <1>9 DEF handle_req, handle_services
  <1>10. CASE r.cmd = "subscriptions" /\ finished
    BY <1>l, <1>10 DEF handle_req, handle_subscriptions
  <1>11. CASE r.cmd = "clients" /\ finished
    BY <1>l, <1>11 DEF handle_req, handle_clients
  <1> QED BY <1>t, <1>1, <1>2, <1>3, <1>4, <1>5, <1>6, <1>7, <1>8, <1>9, <1>10, <1>11
          DEF AllCommands

-----------------------------------------------------------------------------
(* The socket.                                                             *)

\* The conditions are those of the queue, and never none at all.
LEMMA AwaitSomething ==
    ASSUME NEW q \in Seq(Msg)
    PROVE  /\ await_update(q) \in SUBSET {"SENDABLE", "RECEIVABLE"}
           /\ await_update(q) # {}
           /\ q # <<>> => "SENDABLE" \in await_update(q)
           /\ "RECEIVABLE" \in await_update(q) => Len(q) < SOFT_OUT_WIRE_LIMIT
  <1>1. Len(q) \in Nat /\ SOFT_OUT_WIRE_LIMIT \in Nat \ {0}
    BY LimitsAssumption
  <1>2. q # <<>> => Len(q) > 0
    OBVIOUS
  <1>3. Len(q) > 0 => "SENDABLE" \in await_update(q)
    BY DEF await_update
  <1>4. Len(q) = 0 => "RECEIVABLE" \in await_update(q)
    BY <1>1 DEF await_update
  <1>5. await_update(q) \in SUBSET {"SENDABLE", "RECEIVABLE"}
    BY DEF await_update
  <1>6. "RECEIVABLE" \in await_update(q) => Len(q) < SOFT_OUT_WIRE_LIMIT
    BY DEF await_update
  <1> QED BY <1>1, <1>2, <1>3, <1>4, <1>5, <1>6

\* A send takes a prefix of the queue, and XCM has room for it.
LEMMA SendTakesPrefix ==
    ASSUME TypeOK, NEW q \in Seq(Msg), try_send(q)
    PROVE  \E n \in 0..Len(q) :
              /\ n <= WireRoom - Len(outbox)
              /\ outbox' = outbox \o SubSeq(q, 1, n)
              /\ out_queue' = SubSeq(q, n + 1, Len(q))
              /\ await' = IF n = MAX_SEND_BATCH THEN await_update(out_queue')
                                                ELSE await_update(q)
  <1> DEFINE room == WireRoom - Len(outbox)
             P(m) == /\ m <= room /\ m <= MAX_SEND_BATCH
                     /\ m \in {room, MAX_SEND_BATCH, Len(q)}
             n == CHOOSE m \in 0..Len(q) : P(m)
             left == SubSeq(q, n + 1, Len(q))
  <1>t. /\ room \in Nat /\ Len(q) \in Nat /\ MAX_SEND_BATCH \in Nat
    BY LimitsAssumption DEF TypeOK
  <1>1. \E m \in 0..Len(q) : P(m)
    <2> DEFINE a == IF room <= MAX_SEND_BATCH THEN room ELSE MAX_SEND_BATCH
               b == IF a <= Len(q) THEN a ELSE Len(q)
    <2>1. b \in 0..Len(q) /\ P(b)
      BY <1>t
    <2> QED BY <2>1
  <1>2. n \in 0..Len(q) /\ n <= room
    BY <1>1
  <1>3. /\ outbox' = outbox \o SubSeq(q, 1, n)
        /\ out_queue' = left
        /\ await' = IF n = MAX_SEND_BATCH THEN await_update(left) ELSE await_update(q)
    BY DEF try_send
  <1> HIDE DEF n
  <1> QED BY <1>2, <1>3

\* Whether or not a send updates the conditions, it leaves SENDABLE set for
\* what remains.
LEMMA SendKeepsWakeup ==
    ASSUME TypeOK, NEW q \in Seq(Msg), try_send(q)
    PROVE  /\ out_queue' \in Seq(Msg)
           /\ outbox' \in Seq(Msg) /\ Len(outbox') <= WireRoom
           /\ await' \in SUBSET {"SENDABLE", "RECEIVABLE"}
           /\ await' # {}
           /\ out_queue' # <<>> => "SENDABLE" \in await'
           /\ "RECEIVABLE" \in await' => Len(out_queue') < SOFT_OUT_WIRE_LIMIT
  <1>1. PICK n \in 0..Len(q) :
            /\ n <= WireRoom - Len(outbox)
            /\ outbox' = outbox \o SubSeq(q, 1, n)
            /\ out_queue' = SubSeq(q, n + 1, Len(q))
            /\ await' = IF n = MAX_SEND_BATCH THEN await_update(out_queue')
                                              ELSE await_update(q)
    BY SendTakesPrefix
  <1> DEFINE room == WireRoom - Len(outbox)
             left == SubSeq(q, n + 1, Len(q))
  <1>t. /\ room \in Nat /\ Len(q) \in Nat /\ MAX_SEND_BATCH \in Nat /\ WireRoom \in Nat
        /\ outbox \in Seq(Msg) /\ Len(outbox) \in Nat
    BY LimitsAssumption DEF TypeOK
  <1>2. n \in 0..Len(q) /\ n <= room
    BY <1>1
  <1>3. /\ outbox' = outbox \o SubSeq(q, 1, n)
        /\ out_queue' = left
        /\ await' = IF n = MAX_SEND_BATCH THEN await_update(left) ELSE await_update(q)
    BY <1>1
  <1>4. left \in Seq(Msg) /\ Len(left) = Len(q) - n
    BY <1>2, <1>t
  <1>5. SubSeq(q, 1, n) \in Seq(Msg) /\ Len(SubSeq(q, 1, n)) = n
    BY <1>2, <1>t
  <1>6. left # <<>> => q # <<>>
    BY <1>2, <1>4, <1>t
  <1>7. outbox' \in Seq(Msg) /\ Len(outbox') <= WireRoom
    BY <1>2, <1>3, <1>5, <1>t
  <1>8. "RECEIVABLE" \in await' => Len(out_queue') < SOFT_OUT_WIRE_LIMIT
    <2>1. SOFT_OUT_WIRE_LIMIT \in Nat /\ n \in Nat
      BY <1>2, LimitsAssumption
    <2>2. CASE n = MAX_SEND_BATCH
      BY <1>3, <1>4, <2>2, AwaitSomething
    <2>3. CASE n # MAX_SEND_BATCH
      <3>1. "RECEIVABLE" \in await' => Len(q) < SOFT_OUT_WIRE_LIMIT
        BY <1>3, <2>3, AwaitSomething
      <3> QED BY <1>3, <1>4, <1>t, <2>1, <3>1
    <2> QED BY <2>2, <2>3
  <1> QED BY <1>3, <1>4, <1>6, <1>7, <1>8, AwaitSomething

\* Terminating leaves nothing to wake up for.
LEMMA TermPInv ==
    ASSUME PInv, term, inbox' \in Seq(Req), Len(inbox') <= MaxInbox
    PROVE  PInv'
  <1>1. /\ up' = FALSE /\ finished' = FALSE /\ sub_tas' = [b \in SubIds |-> Nil]
        /\ out_queue' = <<>> /\ await' = {}
        /\ UNCHANGED <<outbox, peer, ta>>
    BY DEF term
  <1>2. up' \in BOOLEAN /\ finished' \in BOOLEAN
    BY <1>1
  <1>3. out_queue' \in Seq(Msg) /\ sub_tas' \in [SubIds -> TaIds \cup {Nil}]
    BY <1>1
  <1>4. TypeOK'
    BY <1>1, <1>2, <1>3 DEF PInv, TypeOK
  <1> QED BY <1>1, <1>4 DEF PInv, NoLostWakeup, ReceivesBelowLimit

LEMMA SendPInv ==
    ASSUME PInv, up, NEW q \in Seq(Msg), try_send(q),
           inbox' \in Seq(Req), Len(inbox') <= MaxInbox,
           finished' \in BOOLEAN, sub_tas' \in TasType
    PROVE  PInv'
  <1>1. /\ out_queue' \in Seq(Msg)
        /\ outbox' \in Seq(Msg) /\ Len(outbox') <= WireRoom
        /\ await' \in SUBSET {"SENDABLE", "RECEIVABLE"}
        /\ await' # {}
        /\ out_queue' # <<>> => "SENDABLE" \in await'
        /\ "RECEIVABLE" \in await' => Len(out_queue') < SOFT_OUT_WIRE_LIMIT
    BY SendKeepsWakeup DEF PInv
  <1>2. UNCHANGED <<up, peer, ta>>
    BY DEF try_send
  <1> QED BY <1>1, <1>2 DEF PInv, TypeOK, NoLostWakeup, ReceivesBelowLimit, TasType

-----------------------------------------------------------------------------
LEMMA InitPInv == Init => PInv
  <1> SUFFICES ASSUME Init PROVE PInv
    OBVIOUS
  <1>1. up \in BOOLEAN /\ finished \in BOOLEAN /\ peer \in BOOLEAN
    BY DEF Init
  <1>2. /\ out_queue \in Seq(Msg)
        /\ inbox \in Seq(Req) /\ Len(inbox) <= MaxInbox
        /\ outbox \in Seq(Msg) /\ Len(outbox) <= WireRoom
    BY LimitsAssumption DEF Init
  <1>3. /\ sub_tas \in [SubIds -> TaIds \cup {Nil}]
        /\ ta \in [TaIds -> TaStates]
        /\ await \in SUBSET {"SENDABLE", "RECEIVABLE"}
    BY DEF Init, TaStates
  <1>4. NoLostWakeup /\ ReceivesBelowLimit
    BY LimitsAssumption DEF Init, NoLostWakeup, ReceivesBelowLimit
  <1> QED BY <1>1, <1>2, <1>3, <1>4 DEF PInv, TypeOK

LEMMA NextPInv == PInv /\ [Next]_vars => PInv'
  <1> SUFFICES ASSUME PInv, [Next]_vars PROVE PInv'
    OBVIOUS
  <1>t. TypeOK /\ NoLostWakeup /\ ReceivesBelowLimit
    BY DEF PInv
  <1>1. CASE conn_process_request
    <2>1. /\ Head(inbox) \in Req
          /\ inbox' \in Seq(Req) /\ Len(inbox') <= MaxInbox /\ up
      BY <1>1, <1>t, LimitsAssumption DEF conn_process_request, TypeOK
    <2>2. ASSUME NEW o \in handle_req(Head(inbox)),
                 SendOrTerm(out_queue \o o.msgs, o.finished, o.sub_tas)
          PROVE  PInv'
      <3>1. o \in OutcomeType
        BY <1>t, <2>1, HandlerType
      <3>2. /\ out_queue \o o.msgs \in Seq(Msg)
            /\ o.finished \in BOOLEAN /\ o.sub_tas \in TasType
        BY <1>t, <3>1 DEF OutcomeType, TypeOK
      <3>3. CASE term
        BY <2>1, <3>3, TermPInv
      <3>4. CASE /\ try_send(out_queue \o o.msgs)
                 /\ finished' = o.finished /\ sub_tas' = o.sub_tas
        BY <2>1, <3>2, <3>4, SendPInv
      <3> QED BY <2>2, <3>3, <3>4 DEF SendOrTerm
    <2>3. CASE term
      BY <2>1, <2>3, TermPInv
    <2> QED BY <1>1, <2>2, <2>3 DEF conn_process_request
  <1>2. CASE conn_process_nothing
    <2>1. /\ out_queue \in Seq(Msg) /\ try_send(out_queue) /\ up
          /\ inbox' \in Seq(Req) /\ Len(inbox') <= MaxInbox
          /\ finished' \in BOOLEAN /\ sub_tas' \in TasType
      BY <1>2, <1>t DEF conn_process_nothing, TypeOK, TasType
    <2> QED BY <2>1, SendPInv
  <1>3. CASE conn_process_closed
    BY <1>3, <1>t, TermPInv DEF conn_process_closed, TypeOK
  <1>4. ASSUME NEW b \in SubIds, notify_sub_match(b)
        PROVE  PInv'
    <2>1. M(sub_tas[b], "notify") \in Msg
      BY <1>4, <1>t DEF notify_sub_match, TypeOK, M, Msg, MsgTypes
    <2>2. out_queue' \in Seq(Msg)
      BY <1>4, <1>t, <2>1 DEF notify_sub_match, TypeOK
    <2>3. await' = await_update(out_queue')
      BY <1>4 DEF notify_sub_match
    <2>4. /\ await' \in SUBSET {"SENDABLE", "RECEIVABLE"} /\ await' # {}
          /\ out_queue' # <<>> => "SENDABLE" \in await'
          /\ "RECEIVABLE" \in await' => Len(out_queue') < SOFT_OUT_WIRE_LIMIT
      BY <2>2, <2>3, AwaitSomething
    <2>5. UNCHANGED <<finished, sub_tas, up, inbox, outbox, peer, ta>>
      BY <1>4 DEF notify_sub_match
    <2> QED BY <1>t, <2>2, <2>4, <2>5 DEF PInv, TypeOK, NoLostWakeup, ReceivesBelowLimit
  <1>5. ASSUME NEW r \in Req, ClientRequest(r)
        PROVE  PInv'
    <2>1. inbox' \in Seq(Req) /\ Len(inbox') <= MaxInbox
      BY <1>5, <1>t, LimitsAssumption DEF ClientRequest, TypeOK
    <2>2. ta' \in [TaIds -> TaStates]
      BY <1>5, <1>t DEF ClientRequest, TypeOK, proto_ta_req, TaStates
    <2>3. UNCHANGED <<finished, sub_tas, out_queue, await, up, outbox, peer>>
      BY <1>5 DEF ClientRequest
    <2> QED BY <1>t, <2>1, <2>2, <2>3 DEF PInv, TypeOK, NoLostWakeup, ReceivesBelowLimit
  <1>6. CASE ClientReceive
    <2>1. outbox' \in Seq(Msg) /\ Len(outbox') <= WireRoom
      BY <1>6, <1>t, LimitsAssumption DEF ClientReceive, TypeOK
    <2>2. \A st \in TaStates, type \in MsgTypes : proto_ta_response(st, type) \in TaStates
      <3> SUFFICES ASSUME NEW st \in TaStates, NEW type \in MsgTypes
                   PROVE  proto_ta_response(st, type) \in TaStates
        OBVIOUS
      <3>1. proto_ta_response(st, type) \in {"idle", "accepted", "garbled"}
        BY DEF proto_ta_response
      <3> QED BY <3>1 DEF TaStates
    <2>3. Head(outbox).ta \in TaIds /\ Head(outbox).type \in MsgTypes
      <3>1. outbox \in Seq(Msg) /\ outbox # <<>>
        BY <1>6, <1>t DEF ClientReceive, TypeOK
      <3>2. Head(outbox) \in Msg
        BY <3>1
      <3> QED BY <3>2 DEF Msg
    <2>4. ta' \in [TaIds -> TaStates]
      BY <1>6, <1>t, <2>2, <2>3 DEF ClientReceive, TypeOK
    <2>5. UNCHANGED <<finished, sub_tas, out_queue, await, up, inbox, peer>>
      BY <1>6 DEF ClientReceive
    <2> QED BY <1>t, <2>1, <2>4, <2>5 DEF PInv, TypeOK, NoLostWakeup, ReceivesBelowLimit
  <1>7. CASE ClientCloses
    BY <1>7, <1>t DEF ClientCloses, PInv, TypeOK, NoLostWakeup, ReceivesBelowLimit
  <1>8. CASE UNCHANGED vars
    BY <1>8, <1>t DEF vars, PInv, TypeOK, NoLostWakeup, ReceivesBelowLimit
  <1> QED BY <1>1, <1>2, <1>3, <1>4, <1>5, <1>6, <1>7, <1>8 DEF Next, conn_process

\* The connection's variables keep their types, whatever its handlers do.
THEOREM ConnTypeCorrect == Spec => []TypeOK
  <1>1. PInv => TypeOK
    BY DEF PInv
  <1> QED BY <1>1, InitPInv, NextPInv, PTL DEF Spec

\* While a connection has something to send it waits for the socket to take
\* it, and it never waits for nothing.
THEOREM WakeupsAreKept == Spec => []NoLostWakeup
  <1>1. PInv => NoLostWakeup
    BY DEF PInv
  <1> QED BY <1>1, InitPInv, NextPInv, PTL DEF Spec

\* A client that does not read what it is sent has none of its requests
\* received while its queue is at the limit.
THEOREM SlowReadersWait == Spec => Backpressure
  <1> DEFINE B == peer /\ Len(out_queue) >= SOFT_OUT_WIRE_LIMIT /\ Len(outbox) = WireRoom
                     => Len(inbox') >= Len(inbox)
  <1>1. ASSUME PInv, [Next]_vars PROVE [B]_vars
    <2> SUFFICES ASSUME Next, peer, Len(out_queue) >= SOFT_OUT_WIRE_LIMIT,
                        Len(outbox) = WireRoom
                 PROVE  Len(inbox') >= Len(inbox)
      BY <1>1
    <2>t. /\ inbox \in Seq(Req) /\ Len(inbox) \in Nat /\ WireRoom \in Nat
          /\ SOFT_OUT_WIRE_LIMIT \in Nat /\ Len(out_queue) \in Nat
      BY <1>1, LimitsAssumption DEF PInv, TypeOK
    <2>1. ~Ready
      BY <1>1, <2>t DEF PInv, ReceivesBelowLimit, Ready
    <2>2. ~conn_process
      BY <2>1 DEF conn_process, conn_process_request, conn_process_nothing, conn_process_closed
    <2>3. ASSUME NEW r \in Req, ClientRequest(r) PROVE Len(inbox') >= Len(inbox)
      BY <2>3, <2>t DEF ClientRequest
    <2>4. ASSUME NEW b \in SubIds, notify_sub_match(b) PROVE inbox' = inbox
      BY <2>4 DEF notify_sub_match
    <2>5. ClientReceive \/ ClientCloses => inbox' = inbox
      BY DEF ClientReceive, ClientCloses
    <2> QED BY <2>t, <2>2, <2>3, <2>4, <2>5 DEF Next
  <1> QED BY <1>1, InitPInv, NextPInv, PTL DEF Spec, Backpressure

-----------------------------------------------------------------------------
(* What a client makes of a sequence of messages.                          *)

\* Induction over the naturals, with the property as a set.
LEMMA NatSetInduction ==
    ASSUME NEW S, 0 \in S, \A n \in Nat : n \in S => n + 1 \in S
    PROVE  \A n \in Nat : n \in S
  <1> DEFINE R == {ss \in Nat \X Nat : ss[1] < ss[2]}
             T == Nat \ S
  <1>1. IsWellFoundedOn(R, Nat)
    BY NatLessThanWellFounded DEF OpToRel
  <1> SUFFICES ASSUME T # {} PROVE FALSE
    OBVIOUS
  <1>2. PICK x \in T : \A y \in T : <<y, x>> \notin R
    <2> HIDE DEF R, T
    <2>1. T \subseteq Nat
      BY DEF T
    <2> QED BY <1>1, <2>1, WFMin
  <1>3. x \in Nat /\ x # 0 /\ x - 1 \in Nat
    BY <1>2
  <1>4. x - 1 \notin S
    BY <1>3
  <1>5. <<x - 1, x>> \in R
    BY <1>3
  <1> QED BY <1>2, <1>3, <1>4, <1>5

\* p lists the states the first n messages of q take transaction t through.
Path(p, t, st, q, n) ==
    p = [i \in 0..n |-> IF i = 0 THEN st ELSE Received(t, p[i - 1], q[i])]

LEMMA PathExists ==
    ASSUME NEW t, NEW st, NEW q
    PROVE  \A n \in Nat : \E p : Path(p, t, st, q, n)
  <1> DEFINE S == {n \in Nat : \E p : Path(p, t, st, q, n)}
  <1>1. 0 \in S
    <2> DEFINE p == [i \in 0..0 |-> st]
    <2>1. Path(p, t, st, q, 0)
      BY DEF Path
    <2> QED BY <2>1
  <1>2. ASSUME NEW n \in Nat, n \in S PROVE n + 1 \in S
    <2>1. PICK p : Path(p, t, st, q, n)
      BY <1>2
    <2> DEFINE last == Received(t, p[n], q[n + 1])
               r == [i \in 0..(n + 1) |-> IF i <= n THEN p[i] ELSE last]
    <2>2. \A i \in 0..n : p[i] = IF i = 0 THEN st ELSE Received(t, p[i - 1], q[i])
      BY <2>1 DEF Path
    <2>3. r[n + 1] = Received(t, r[n], q[n + 1])
      <3> HIDE DEF last
      <3>1. r[n + 1] = last /\ r[n] = p[n]
        BY <1>2
      <3> QED BY <3>1 DEF last
    <2>4. ASSUME NEW i \in 0..(n + 1)
          PROVE  r[i] = IF i = 0 THEN st ELSE Received(t, r[i - 1], q[i])
      <3>1. CASE i = n + 1
        BY <1>2, <2>3, <3>1
      <3>2. CASE i # n + 1
        <4>1. i \in 0..n /\ r[i] = p[i] /\ (i # 0 => r[i - 1] = p[i - 1])
          BY <1>2, <3>2
        <4> QED BY <2>2, <4>1
      <3> QED BY <3>1, <3>2
    <2>5. r = [i \in 0..(n + 1) |-> IF i = 0 THEN st ELSE Received(t, r[i - 1], q[i])]
      <3>1. r = [i \in 0..(n + 1) |-> r[i]]
        OBVIOUS
      <3> HIDE DEF r
      <3> QED BY <2>4, <3>1
    <2>6. Path(r, t, st, q, n + 1)
      BY <2>5 DEF Path
    <2> QED BY <1>2, <2>6
  <1> HIDE DEF S
  <1>3. \A n \in Nat : n \in S
    BY <1>1, <1>2, NatSetInduction
  <1> QED BY <1>3 DEF S

\* What holds of the first state and is kept by each message holds of the last.
LEMMA PathWithin ==
    ASSUME NEW t, NEW st, NEW q, NEW n \in Nat, NEW p, Path(p, t, st, q, n),
           NEW X, st \in X, \A x \in X, i \in 1..n : Received(t, x, q[i]) \in X
    PROVE  p[n] \in X
  <1> DEFINE S == {i \in Nat : i <= n => p[i] \in X}
  <1>0. \A i \in 0..n : p[i] = IF i = 0 THEN st ELSE Received(t, p[i - 1], q[i])
    BY DEF Path
  <1>1. 0 \in S
    BY <1>0
  <1>2. ASSUME NEW i \in Nat, i \in S PROVE i + 1 \in S
    <2> SUFFICES ASSUME i + 1 <= n PROVE p[i + 1] \in X
      OBVIOUS
    <2>1. p[i] \in X /\ i + 1 \in 1..n
      BY <1>2
    <2>2. p[i + 1] = Received(t, p[i], q[i + 1])
      BY <1>0, <2>1
    <2> QED BY <2>1, <2>2
  <1> HIDE DEF S
  <1>3. n \in S
    BY <1>1, <1>2, NatSetInduction
  <1> QED BY <1>3 DEF S

LEMMA PathUnique ==
    ASSUME NEW t, NEW st, NEW q, NEW n \in Nat,
           NEW p, Path(p, t, st, q, n), NEW r, Path(r, t, st, q, n)
    PROVE  p[n] = r[n]
  <1> DEFINE S == {i \in Nat : i <= n => p[i] = r[i]}
  <1>0. \A i \in 0..n : /\ p[i] = IF i = 0 THEN st ELSE Received(t, p[i - 1], q[i])
                        /\ r[i] = IF i = 0 THEN st ELSE Received(t, r[i - 1], q[i])
    BY DEF Path
  <1>1. 0 \in S
    BY <1>0
  <1>2. ASSUME NEW i \in Nat, i \in S PROVE i + 1 \in S
    <2> SUFFICES ASSUME i + 1 <= n PROVE p[i + 1] = r[i + 1]
      OBVIOUS
    <2>1. p[i] = r[i] /\ i + 1 \in 0..n /\ i + 1 # 0
      BY <1>2
    <2>2. p[i + 1] = Received(t, p[i], q[i + 1]) /\ r[i + 1] = Received(t, r[i], q[i + 1])
      BY <1>0, <2>1
    <2> QED BY <2>1, <2>2
  <1> HIDE DEF S
  <1>3. n \in S
    BY <1>1, <1>2, NatSetInduction
  <1> QED BY <1>3 DEF S

\* The recursive function of ReceivedAll() is the path through all messages.
LEMMA ReceivedAllPath ==
    ASSUME NEW t, NEW st, NEW q, Len(q) \in Nat, NEW p, Path(p, t, st, q, Len(q))
    PROVE  ReceivedAll(t, st, q) = p[Len(q)]
  <1> DEFINE after == CHOOSE r : Path(r, t, st, q, Len(q))
  <1>1. Path(after, t, st, q, Len(q))
    OBVIOUS
  <1>2. ReceivedAll(t, st, q) = after[Len(q)]
    BY DEF ReceivedAll, Path
  <1> HIDE DEF after
  <1> QED BY <1>1, <1>2, PathUnique

LEMMA ReceivedNone ==
    ASSUME NEW t, NEW st
    PROVE  ReceivedAll(t, st, <<>>) = st
  <1> DEFINE p == [i \in 0..0 |-> st]
  <1>1. Len(<<>>) = 0 /\ Path(p, t, st, <<>>, 0)
    BY DEF Path
  <1> QED BY <1>1, ReceivedAllPath

LEMMA ReceivedOne ==
    ASSUME NEW t, NEW st, NEW m
    PROVE  ReceivedAll(t, st, <<m>>) = Received(t, st, m)
  <1> DEFINE q == <<m>>
  <1>1. Len(q) = 1 /\ q[1] = m
    OBVIOUS
  <1> HIDE DEF q
  <1>2. PICK p : Path(p, t, st, q, 1)
    BY PathExists
  <1>3. p[0] = st /\ p[1] = Received(t, p[0], q[1])
    BY <1>2 DEF Path
  <1>4. ReceivedAll(t, st, q) = p[Len(q)]
    <2>1. Len(q) \in Nat /\ Path(p, t, st, q, Len(q))
      BY <1>1, <1>2
    <2> QED BY <2>1, ReceivedAllPath
  <1>5. ReceivedAll(t, st, q) = Received(t, st, m)
    BY <1>1, <1>3, <1>4
  <1> QED BY <1>5 DEF q

\* Messages that come after others find the transaction as those leave it.
LEMMA ReceivedConcat ==
    ASSUME NEW S, NEW t, NEW st, NEW q \in Seq(S), NEW r \in Seq(S)
    PROVE  ReceivedAll(t, st, q \o r) = ReceivedAll(t, ReceivedAll(t, st, q), r)
  <1> DEFINE n == Len(q)
             m == Len(r)
             c == q \o r
  <1>0. /\ n \in Nat /\ m \in Nat /\ Len(c) = n + m
        /\ \A i \in 1..n : c[i] = q[i]
        /\ \A i \in (n + 1)..(n + m) : c[i] = r[i - n]
    OBVIOUS
  <1>1. PICK p : Path(p, t, st, q, n)
    BY <1>0, PathExists
  <1>2. ReceivedAll(t, st, q) = p[n]
    BY <1>0, <1>1, ReceivedAllPath
  <1>3. PICK o : Path(o, t, p[n], r, m)
    BY <1>0, PathExists
  <1>4. ReceivedAll(t, p[n], r) = o[m]
    BY <1>0, <1>3, ReceivedAllPath
  <1>5. \A i \in 0..n : p[i] = IF i = 0 THEN st ELSE Received(t, p[i - 1], q[i])
    BY <1>1 DEF Path
  <1>6. \A i \in 0..m : o[i] = IF i = 0 THEN p[n] ELSE Received(t, o[i - 1], r[i])
    BY <1>3 DEF Path
  <1> HIDE DEF n, m, c
  <1> DEFINE w == [i \in 0..(n + m) |-> IF i <= n THEN p[i] ELSE o[i - n]]
  <1>7. ASSUME NEW i \in 0..(n + m)
        PROVE  w[i] = IF i = 0 THEN st ELSE Received(t, w[i - 1], c[i])
    <2>1. CASE i <= n
      <3>1. i \in 0..n /\ w[i] = p[i] /\ (i # 0 => w[i - 1] = p[i - 1] /\ c[i] = q[i])
        BY <1>0, <2>1
      <3> QED BY <1>5, <3>1
    <2>2. CASE i > n
      <3>1. /\ i # 0 /\ i - n \in 0..m /\ i - n # 0 /\ w[i] = o[i - n]
            /\ c[i] = r[i - n]
        BY <1>0, <2>2
      <3>2. w[i - 1] = o[i - n - 1]
        <4>1. CASE i = n + 1
          <5>1. w[i - 1] = p[n]
            BY <1>0, <4>1
          <5>2. o[0] = p[n]
            BY <1>0, <1>6
          <5> QED BY <1>0, <4>1, <5>1, <5>2
        <4>2. CASE i # n + 1
          <5>1. i - 1 \in 0..(n + m) /\ ~(i - 1 <= n) /\ (i - 1) - n = i - n - 1
            BY <1>0, <2>2, <4>2
          <5> QED BY <5>1
        <4> QED BY <4>1, <4>2
      <3>3. o[i - n] = Received(t, o[i - n - 1], r[i - n])
        BY <1>6, <3>1
      <3> QED BY <3>1, <3>2, <3>3
    <2> QED BY <1>0, <2>1, <2>2
  <1>8. w = [i \in 0..(n + m) |-> w[i]] /\ w[n + m] = o[m]
    <2>1. w[n + m] = o[m]
      <3>1. CASE m = 0
        BY <1>0, <1>6, <3>1
      <3>2. CASE m # 0
        BY <1>0, <3>2
      <3> QED BY <3>1, <3>2
    <2> QED BY <2>1
  <1> HIDE DEF w
  <1>9. Path(w, t, st, c, n + m)
    BY <1>7, <1>8 DEF Path
  <1>10. ReceivedAll(t, st, c) = w[n + m]
    BY <1>0, <1>9, ReceivedAllPath
  <1> QED BY <1>2, <1>4, <1>8, <1>10 DEF c

LEMMA ReceivedWithin ==
    ASSUME NEW t, NEW st, NEW q, Len(q) \in Nat,
           NEW X, st \in X, \A x \in X, i \in 1..Len(q) : Received(t, x, q[i]) \in X
    PROVE  ReceivedAll(t, st, q) \in X
  <1>1. PICK p : Path(p, t, st, q, Len(q))
    BY PathExists
  <1>2. ReceivedAll(t, st, q) = p[Len(q)]
    BY <1>1, ReceivedAllPath
  <1>3. p[Len(q)] \in X
    <2> DEFINE n == Len(q)
    <2>1. n \in Nat /\ Path(p, t, st, q, n) /\ \A x \in X, i \in 1..n : Received(t, x, q[i]) \in X
      BY <1>1
    <2> HIDE DEF n
    <2>2. p[n] \in X
      BY <2>1, PathWithin
    <2> QED BY <2>2 DEF n
  <1> QED BY <1>2, <1>3

\* Messages that each leave the transaction as it is do so together.
LEMMA ReceivedStays ==
    ASSUME NEW t, NEW st, NEW q, Len(q) \in Nat,
           \A i \in 1..Len(q) : Received(t, st, q[i]) = st
    PROVE  ReceivedAll(t, st, q) = st
  <1>1. \A x \in {st}, i \in 1..Len(q) : Received(t, x, q[i]) \in {st}
    OBVIOUS
  <1>2. ReceivedAll(t, st, q) \in {st}
    BY <1>1, ReceivedWithin
  <1> QED BY <1>2

\* The transitions of a transaction.
LEMMA Responses ==
    /\ proto_ta_response("multi", "accept") = "accepted"
    /\ proto_ta_response("accepted", "notify") = "accepted"
    /\ \A st \in {"single", "accepted"} : proto_ta_response(st, "complete") = "idle"
    /\ \A st \in {"single", "multi", "accepted"} : proto_ta_response(st, "fail") = "idle"
    /\ \A type \in MsgTypes : /\ proto_ta_response("idle", type) = "garbled"
                              /\ proto_ta_response("garbled", type) = "garbled"
  <1>1. proto_ta_response("multi", "accept") = "accepted"
    BY DEF proto_ta_response
  <1>2. proto_ta_response("accepted", "notify") = "accepted"
    BY DEF proto_ta_response
  <1>3. ASSUME NEW st \in {"single", "accepted"}
        PROVE  proto_ta_response(st, "complete") = "idle"
    BY <1>3 DEF proto_ta_response
  <1>4. ASSUME NEW st \in {"single", "multi", "accepted"}
        PROVE  proto_ta_response(st, "fail") = "idle"
    BY <1>4 DEF proto_ta_response
  <1>5. ASSUME NEW type \in MsgTypes, NEW st \in {"idle", "garbled"}
        PROVE  proto_ta_response(st, type) = "garbled"
    BY <1>5 DEF proto_ta_response, MsgTypes
  <1> QED BY <1>1, <1>2, <1>3, <1>4, <1>5

\* Nothing mends a transaction that is garbled, and any response to one that
\* is not open garbles it.
LEMMA ReceivedIdle ==
    ASSUME NEW t, NEW q \in Seq(Msg)
    PROVE  /\ ReceivedAll(t, "garbled", q) = "garbled"
           /\ ReceivedAll(t, "idle", q) \in {"idle", "garbled"}
  <1>0. Len(q) \in Nat /\ \A i \in 1..Len(q) : q[i].type \in MsgTypes
    <2>1. \A i \in 1..Len(q) : q[i] \in Msg
      OBVIOUS
    <2>2. \A m \in Msg : m.type \in MsgTypes
      BY DEF Msg
    <2> QED BY <2>1, <2>2
  <1>1. \A i \in 1..Len(q) : Received(t, "garbled", q[i]) = "garbled"
    BY <1>0, Responses DEF Received
  <1>2. \A x \in {"idle", "garbled"}, i \in 1..Len(q) :
            Received(t, x, q[i]) \in {"idle", "garbled"}
    BY <1>0, Responses DEF Received
  <1>3. ReceivedAll(t, "garbled", q) = "garbled"
    BY <1>0, <1>1, ReceivedStays
  <1>4. "idle" \in {"idle", "garbled"}
    OBVIOUS
  <1>5. ReceivedAll(t, "idle", q) \in {"idle", "garbled"}
    BY <1>0, <1>2, <1>4, ReceivedWithin
  <1> QED BY <1>3, <1>5

-----------------------------------------------------------------------------
(* What the handlers' messages do to the transactions.                     *)

\* The messages leave a transaction alone.
LeavesAlone(u, msgs) == \A st : ReceivedAll(u, st, msgs) = st

\* The four ways a request of transaction t is answered: t ends, t ends and
\* the client's subscriptions are told of it, t lives on as the transaction of
\* a new subscription b, or both t and the transaction of the subscription b
\* end.
Ends(o, t, st) ==
    /\ o.sub_tas = sub_tas
    /\ ReceivedAll(t, st, o.msgs) = "idle"
    /\ \A u \in TaIds \ {t} : LeavesAlone(u, o.msgs)

Tells(o, t, st) ==
    /\ o.sub_tas = sub_tas
    /\ (\A b \in SubIds : sub_tas[b] # t) =>
          /\ ReceivedAll(t, st, o.msgs) = "idle"
          /\ \A u \in TaIds \ {t} :
                \/ LeavesAlone(u, o.msgs)
                \/ (\E b \in SubIds : sub_tas[b] = u) /\ ReceivedAll(u, "accepted", o.msgs) = "accepted"

Subscribes(o, t, st, b) ==
    /\ sub_tas[b] = Nil
    /\ o.sub_tas = [sub_tas EXCEPT ![b] = t]
    /\ ReceivedAll(t, st, o.msgs) = "accepted"
    /\ \A u \in TaIds \ {t} : LeavesAlone(u, o.msgs)

Unsubscribes(o, t, st, b) ==
    /\ sub_tas[b] \in TaIds
    /\ o.sub_tas = [sub_tas EXCEPT ![b] = Nil]
    /\ sub_tas[b] # t =>
          /\ ReceivedAll(t, st, o.msgs) = "idle"
          /\ ReceivedAll(sub_tas[b], "accepted", o.msgs) = "idle"
          /\ \A u \in TaIds \ {t, sub_tas[b]} : LeavesAlone(u, o.msgs)

Answers(o, t, st) ==
    \/ Ends(o, t, st) \/ Tells(o, t, st)
    \/ \E b \in SubIds : Subscribes(o, t, st, b) \/ Unsubscribes(o, t, st, b)

\* Messages of other transactions.
LEMMA OthersLeaveAlone ==
    ASSUME NEW u, NEW q \in Seq(Msg), \A i \in 1..Len(q) : q[i].ta # u
    PROVE  \A st : ReceivedAll(u, st, q) = st
  <1> SUFFICES ASSUME NEW st PROVE ReceivedAll(u, st, q) = st
    OBVIOUS
  <1>1. Len(q) \in Nat /\ \A i \in 1..Len(q) : Received(u, st, q[i]) = st
    BY DEF Received
  <1> QED BY <1>1, ReceivedStays

\* The building blocks of the answers.
LEMMA OneMessage ==
    ASSUME NEW t \in TaIds
    PROVE  /\ \A st \in {"single", "accepted"} : ReceivedAll(t, st, Complete(t)) = "idle"
           /\ \A st \in {"single", "multi", "accepted"} : ReceivedAll(t, st, Fail(t)) = "idle"
           /\ ReceivedAll(t, "multi", <<M(t, "accept")>>) = "accepted"
  <1>1. \A u, st, type : ReceivedAll(u, st, <<M(t, type)>>) =
                            IF u = t THEN proto_ta_response(st, type) ELSE st
    <2> SUFFICES ASSUME NEW u, NEW st, NEW type
                 PROVE  ReceivedAll(u, st, <<M(t, type)>>) =
                            IF u = t THEN proto_ta_response(st, type) ELSE st
      OBVIOUS
    <2>1. M(t, type).ta = t /\ M(t, type).type = type
      BY DEF M
    <2>2. ReceivedAll(u, st, <<M(t, type)>>) = Received(u, st, M(t, type))
      BY ReceivedOne
    <2> QED BY <2>1, <2>2 DEF Received
  <1>2. /\ \A st \in {"single", "accepted"} : ReceivedAll(t, st, Complete(t)) = "idle"
        /\ \A st \in {"single", "multi", "accepted"} : ReceivedAll(t, st, Fail(t)) = "idle"
        /\ ReceivedAll(t, "multi", <<M(t, "accept")>>) = "accepted"
    BY <1>1, Responses DEF Complete, Fail
  <1> QED BY <1>2

LEMMA OneMessageOthers ==
    ASSUME NEW t \in TaIds, NEW u \in TaIds \ {t}, NEW st
    PROVE  /\ ReceivedAll(u, st, Complete(t)) = st
           /\ ReceivedAll(u, st, Fail(t)) = st
           /\ ReceivedAll(u, st, <<M(t, "accept")>>) = st
  <1>1. ASSUME NEW type PROVE ReceivedAll(u, st, <<M(t, type)>>) = st
    <2>1. M(t, type).ta # u
      BY DEF M
    <2> QED BY <2>1, ReceivedOne DEF Received
  <1> QED BY <1>1 DEF Complete, Fail

LEMMA ManyNotifies ==
    ASSUME NEW t \in TaIds, NEW n \in Nat
    PROVE  /\ ReceivedAll(t, "accepted", Notifies(t, n)) = "accepted"
           /\ \A u \in TaIds \ {t} : \A st : ReceivedAll(u, st, Notifies(t, n)) = st
  <1>1. /\ Len(Notifies(t, n)) \in Nat /\ Notifies(t, n) \in Seq(Msg)
        /\ \A i \in 1..Len(Notifies(t, n)) : Notifies(t, n)[i] = M(t, "notify")
    <2>1. Notifies(t, n) \in Seq(Msg)
      BY MsgsType
    <2>2. Len(Notifies(t, n)) = n
      BY DEF Notifies
    <2> QED BY <2>1, <2>2 DEF Notifies
  <1>2. ReceivedAll(t, "accepted", Notifies(t, n)) = "accepted"
    <2>1. \A i \in 1..Len(Notifies(t, n)) :
              Received(t, "accepted", Notifies(t, n)[i]) = "accepted"
      BY <1>1, Responses DEF Received, M
    <2> QED BY <1>1, <2>1, ReceivedStays
  <1>3. ASSUME NEW u \in TaIds \ {t}, NEW st
        PROVE  ReceivedAll(u, st, Notifies(t, n)) = st
    <2>1. \A i \in 1..Len(Notifies(t, n)) : Notifies(t, n)[i].ta # u
      BY <1>1 DEF M
    <2> QED BY <1>1, <2>1, OthersLeaveAlone
  <1> QED BY <1>2, <1>3

LEMMA NotesReceived ==
    ASSUME NEW q, OwnNotes(q), NEW u
    PROVE  /\ ReceivedAll(u, "accepted", q) = "accepted"
           /\ (\A b \in SubIds : sub_tas[b] # u) => LeavesAlone(u, q)
  <1>1. q \in Seq(Msg) /\ Len(q) \in Nat
    BY DEF OwnNotes
  <1>2. \A i \in 1..Len(q) : Received(u, "accepted", q[i]) = "accepted"
    BY Responses DEF OwnNotes, Received
  <1>3. ReceivedAll(u, "accepted", q) = "accepted"
    BY <1>1, <1>2, ReceivedStays
  <1>4. ASSUME \A b \in SubIds : sub_tas[b] # u PROVE LeavesAlone(u, q)
    <2>1. \A i \in 1..Len(q) : q[i].ta # u
      BY <1>4 DEF OwnNotes
    <2> QED BY <1>1, <2>1, OthersLeaveAlone DEF LeavesAlone
  <1> QED BY <1>3, <1>4

\* Every handler ends the request's transaction, exactly once and in the way
\* its kind asks for, or opens a subscription with it.
LEMMA HandlerAnswers ==
    ASSUME TypeOK, NEW r \in Req, NEW o \in handle_req(r)
    PROVE  Answers(o, r.ta, proto_ta_req(r.cmd))
  <1> DEFINE t == r.ta
             st0 == proto_ta_req(r.cmd)
  <1>t. t \in TaIds /\ r.cmd \in AllCommands
    BY CommandsAssumption DEF Req
  <1>s. sub_tas \in TasType /\ finished \in BOOLEAN
    BY DEF TypeOK, TasType
  <1>k. st0 \in {"single", "multi"}
    BY DEF proto_ta_req
  <1>f. ASSUME o \in Replies({Fail(t)}) PROVE Ends(o, t, st0)
    <2>1. o.msgs = Fail(t) /\ o.sub_tas = sub_tas
      BY <1>f DEF Replies, Outcome
    <2>2. ReceivedAll(t, st0, Fail(t)) = "idle"
      BY <1>t, <1>k, OneMessage
    <2>3. \A u \in TaIds \ {t} : LeavesAlone(u, Fail(t))
      BY <1>t, OneMessageOthers DEF LeavesAlone
    <2> QED BY <2>1, <2>2, <2>3 DEF Ends
  <1>c. ASSUME o.msgs = Complete(t), o.sub_tas = sub_tas, st0 = "single"
        PROVE  Ends(o, t, st0)
    <2>1. ReceivedAll(t, st0, Complete(t)) = "idle"
      BY <1>t, <1>c, OneMessage
    <2>2. \A u \in TaIds \ {t} : LeavesAlone(u, Complete(t))
      BY <1>t, OneMessageOthers DEF LeavesAlone
    <2> QED BY <1>c, <2>1, <2>2 DEF Ends
  <1>n. ASSUME o \in Replies(Told(t)), st0 = "single" PROVE Tells(o, t, st0)
    <2>1. PICK q \in Seq(Msg) : OwnNotes(q) /\ o.msgs = q \o Complete(t) /\ o.sub_tas = sub_tas
      BY <1>n DEF Replies, Outcome, Told
    <2>2. Complete(t) \in Seq(Msg)
      BY <1>t, MsgsType
    <2>3. \A u, st : ReceivedAll(u, st, o.msgs) = ReceivedAll(u, ReceivedAll(u, st, q), Complete(t))
      BY <2>1, <2>2, ReceivedConcat
    <2>4. ASSUME \A b \in SubIds : sub_tas[b] # t PROVE ReceivedAll(t, st0, o.msgs) = "idle"
      <3>1. ReceivedAll(t, "single", q) = "single"
        BY <2>1, <2>4, NotesReceived DEF LeavesAlone
      <3>2. ReceivedAll(t, "single", Complete(t)) = "idle"
        BY <1>t, OneMessage
      <3> QED BY <1>n, <2>3, <3>1, <3>2
    <2>5. ASSUME NEW u \in TaIds \ {t}
          PROVE  \/ LeavesAlone(u, o.msgs)
                 \/ (\E b \in SubIds : sub_tas[b] = u) /\ ReceivedAll(u, "accepted", o.msgs) = "accepted"
      <3>1. \A st : ReceivedAll(u, st, o.msgs) = ReceivedAll(u, st, q)
        <4>1. \A st : ReceivedAll(u, st, Complete(t)) = st
          BY <1>t, <2>5, OneMessageOthers
        <4> QED BY <2>3, <4>1
      <3>2. CASE \E b \in SubIds : sub_tas[b] = u
        BY <2>1, <3>1, <3>2, NotesReceived
      <3>3. CASE \A b \in SubIds : sub_tas[b] # u
        BY <2>1, <3>1, <3>3, NotesReceived DEF LeavesAlone
      <3> QED BY <3>2, <3>3
    <2> QED BY <2>1, <2>4, <2>5 DEF Tells
  <1>a. ASSUME NEW n \in 0..MaxMatches
        PROVE  /\ <<M(t, "accept")>> \o Notifies(t, n) \in Seq(Msg)
               /\ ReceivedAll(t, "multi", <<M(t, "accept")>> \o Notifies(t, n)) = "accepted"
               /\ \A u \in TaIds \ {t} : LeavesAlone(u, <<M(t, "accept")>> \o Notifies(t, n))
    <2>1. n \in Nat
      BY LimitsAssumption
    <2>2. <<M(t, "accept")>> \in Seq(Msg) /\ Notifies(t, n) \in Seq(Msg)
      BY <1>t, <2>1, MsgsType
    <2>3. /\ ReceivedAll(t, "multi", <<M(t, "accept")>>) = "accepted"
          /\ ReceivedAll(t, "accepted", Notifies(t, n)) = "accepted"
          /\ \A u \in TaIds \ {t} : \A st : /\ ReceivedAll(u, st, <<M(t, "accept")>>) = st
                                          /\ ReceivedAll(u, st, Notifies(t, n)) = st
      BY <1>t, <2>1, OneMessage, OneMessageOthers, ManyNotifies
    <2> DEFINE a == <<M(t, "accept")>>
               b == Notifies(t, n)
    <2> HIDE DEF a, b
    <2>4. a \in Seq(Msg) /\ b \in Seq(Msg)
      BY <2>2 DEF a, b
    <2>5. a \o b \in Seq(Msg)
      BY <2>4, ConcatProperties
    <2>6. \A u, st : ReceivedAll(u, st, a \o b) = ReceivedAll(u, ReceivedAll(u, st, a), b)
      BY <2>4, ReceivedConcat
    <2> QED BY <2>3, <2>5, <2>6 DEF a, b, LeavesAlone
  <1>l. ASSUME o \in Listing(t), st0 = "multi" PROVE Ends(o, t, st0)
    <2>1. PICK n \in 0..MaxMatches :
              o.msgs = <<M(t, "accept")>> \o Notifies(t, n) \o Complete(t)
      BY <1>l DEF Listing, Replies, Outcome
    <2>2. o.sub_tas = sub_tas
      BY <1>l DEF Listing, Replies, Outcome
    <2> DEFINE a == <<M(t, "accept")>> \o Notifies(t, n)
    <2>3. a \in Seq(Msg) /\ Complete(t) \in Seq(Msg) /\ o.msgs = a \o Complete(t)
      BY <1>a, <1>t, <2>1, MsgsType
    <2>4. /\ ReceivedAll(t, "multi", a) = "accepted"
          /\ \A u \in TaIds \ {t} : LeavesAlone(u, a)
      BY <1>a
    <2> HIDE DEF a
    <2>5. \A u, st : ReceivedAll(u, st, o.msgs) = ReceivedAll(u, ReceivedAll(u, st, a), Complete(t))
      BY <2>3, ReceivedConcat
    <2>6. ReceivedAll(t, "accepted", Complete(t)) = "idle"
      BY <1>t, OneMessage
    <2>7. \A u \in TaIds \ {t} : \A st : ReceivedAll(u, st, Complete(t)) = st
      BY <1>t, OneMessageOthers
    <2>8. ReceivedAll(t, st0, o.msgs) = "idle"
      BY <1>l, <2>4, <2>5, <2>6
    <2>9. \A u \in TaIds \ {t} : LeavesAlone(u, o.msgs)
      BY <2>4, <2>5, <2>7 DEF LeavesAlone
    <2> QED BY <2>2, <2>8, <2>9 DEF Ends
  <1>1. CASE r.cmd = "garbage"
    BY <1>1 DEF handle_req
  <1>2. CASE r.cmd = "hello"
    <2>1. o \in handle_hello(t) /\ st0 = "single"
      BY <1>2 DEF handle_req, proto_ta_req, multi_response
    <2>2. CASE o \in Replies({Fail(t)})
      BY <1>f, <2>2 DEF Answers
    <2>3. CASE o = Outcome(Complete(t), TRUE, sub_tas)
      BY <1>c, <2>1, <2>3 DEF Outcome, Answers
    <2> QED BY <2>1, <2>2, <2>3 DEF handle_hello
  <1>3. CASE r.cmd \notin {"garbage", "hello"} /\ ~finished
    BY <1>f, <1>3 DEF handle_req, handle_no_hello, Answers
  <1>4. CASE r.cmd = "subscribe" /\ finished
    <2>1. o \in handle_subscribe(t, r.sub) /\ r.sub \in SubIds /\ st0 = "multi"
      BY <1>4 DEF handle_req, Req, OnSubscription, proto_ta_req, multi_response
    <2>2. CASE o \in Replies({Fail(t)})
      BY <1>f, <2>2 DEF Answers
    <2>3. CASE o \notin Replies({Fail(t)})
      <3>1. PICK n \in 0..MaxMatches :
                /\ sub_tas[r.sub] = Nil
                /\ o = Outcome(<<M(t, "accept")>> \o Notifies(t, n), finished, Installed(t, r.sub))
        BY <2>1, <2>3 DEF handle_subscribe
      <3>2. /\ o.msgs = <<M(t, "accept")>> \o Notifies(t, n)
            /\ o.sub_tas = [sub_tas EXCEPT ![r.sub] = t]
        BY <3>1 DEF Outcome, Installed
      <3>3. Subscribes(o, t, st0, r.sub)
        BY <1>a, <2>1, <3>1, <3>2 DEF Subscribes
      <3> QED BY <2>1, <3>3 DEF Answers
    <2> QED BY <2>2, <2>3
  <1>5. CASE r.cmd = "unsubscribe" /\ finished
    <2>1. o \in handle_unsubscribe(t, r.sub) /\ r.sub \in SubIds /\ st0 = "single"
      BY <1>5 DEF handle_req, Req, OnSubscription, proto_ta_req, multi_response
    <2>2. CASE sub_tas[r.sub] = Nil
      BY <1>f, <2>1, <2>2 DEF handle_unsubscribe, Answers
    <2>3. CASE sub_tas[r.sub] # Nil
      <3> DEFINE v == sub_tas[r.sub]
      <3>1. v \in TaIds
        BY <1>s, <2>1, <2>3 DEF TasType
      <3>2. /\ o.msgs = Complete(t) \o Complete(v)
            /\ o.sub_tas = [sub_tas EXCEPT ![r.sub] = Nil]
        BY <2>1, <2>3 DEF handle_unsubscribe, Outcome
      <3> HIDE DEF v
      <3>3. Complete(t) \in Seq(Msg) /\ Complete(v) \in Seq(Msg)
        BY <1>t, <3>1, MsgsType
      <3>4. \A u, st : ReceivedAll(u, st, o.msgs) =
                       ReceivedAll(u, ReceivedAll(u, st, Complete(t)), Complete(v))
        BY <3>2, <3>3, ReceivedConcat
      <3>5. /\ \A w \in TaIds : /\ ReceivedAll(w, "single", Complete(w)) = "idle"
                                /\ ReceivedAll(w, "accepted", Complete(w)) = "idle"
            /\ \A w \in TaIds : \A u \in TaIds \ {w} : \A st :
                  ReceivedAll(u, st, Complete(w)) = st
        <4>1. \A w \in TaIds : /\ ReceivedAll(w, "single", Complete(w)) = "idle"
                               /\ ReceivedAll(w, "accepted", Complete(w)) = "idle"
          BY OneMessage
        <4>2. \A w \in TaIds : \A u \in TaIds \ {w} : \A st :
                  ReceivedAll(u, st, Complete(w)) = st
          BY OneMessageOthers
        <4> QED BY <4>1, <4>2
      <3>6. ASSUME v # t
            PROVE  /\ ReceivedAll(t, st0, o.msgs) = "idle"
                   /\ ReceivedAll(v, "accepted", o.msgs) = "idle"
                   /\ \A u \in TaIds \ {t, v} : LeavesAlone(u, o.msgs)
        BY <1>t, <2>1, <3>1, <3>4, <3>5, <3>6 DEF LeavesAlone
      <3>7. Unsubscribes(o, t, st0, r.sub)
        BY <3>1, <3>2, <3>6 DEF Unsubscribes, v
      <3> QED BY <2>1, <3>7 DEF Answers
    <2> QED BY <2>2, <2>3
  <1>6. CASE r.cmd \in {"publish", "unpublish", "ping"} /\ finished
    <2>1. st0 = "single"
      BY <1>6 DEF proto_ta_req, multi_response
    <2>2. CASE r.cmd = "ping"
      <3>1. o \in handle_ping(t)
        BY <1>6, <2>2 DEF handle_req
      <3>2. o.msgs = Complete(t) /\ o.sub_tas = sub_tas
        BY <3>1 DEF handle_ping, Replies, Outcome
      <3> QED BY <1>c, <2>1, <3>2 DEF Answers
    <2>3. CASE r.cmd \in {"publish", "unpublish"}
      <3>1. o \in handle_publish(t) \cup handle_unpublish(t)
        BY <1>6, <2>3 DEF handle_req
      <3>2. o \in Replies({Fail(t)}) \/ o \in Replies(Told(t))
        BY <3>1, PublishTells
      <3> QED BY <1>f, <1>n, <2>1, <3>2 DEF Answers
    <2> QED BY <1>6, <2>2, <2>3
  <1>7. CASE r.cmd \in {"services", "subscriptions", "clients"} /\ finished
    <2>1. st0 = "multi"
      BY <1>7 DEF proto_ta_req, multi_response
    <2>2. o \in Replies({Fail(t)}) \/ o \in Listing(t)
      BY <1>7 DEF handle_req, handle_services, handle_subscriptions, handle_clients
    <2> QED BY <1>f, <1>l, <2>1, <2>2 DEF Answers
  <1> QED BY <1>t, <1>1, <1>2, <1>3, <1>4, <1>5, <1>6, <1>7 DEF AllCommands

-----------------------------------------------------------------------------
(* Every transaction is accounted for.                                     *)

\* No transaction waits in two requests or is that of two subscriptions.
InboxOnce(reqs) ==
    \A i, j \in 1..Len(reqs) : reqs[i].ta = reqs[j].ta => i = j

SubsApart(tas) ==
    \A a, b \in SubIds : tas[a] # Nil /\ tas[a] = tas[b] => a = b

\* A transaction is as its request made it while that waits, accepted while it
\* is a subscription's, and over otherwise.
Accounted(S, reqs, tas) ==
    /\ \A i \in 1..Len(reqs) : S[reqs[i].ta] = proto_ta_req(reqs[i].cmd)
    /\ \A b \in SubIds : tas[b] # Nil => S[tas[b]] = "accepted"
    /\ \A t \in TaIds :
          /\ \A i \in 1..Len(reqs) : reqs[i].ta # t
          /\ \A b \in SubIds : tas[b] # t
          => S[t] = "idle"

Books(S, reqs, tas) == InboxOnce(reqs) /\ SubsApart(tas) /\ Accounted(S, reqs, tas)

\* The states the transactions are in once the client has received what is
\* under way; with every one of them the daemon's books agree.
AllSettled == [t \in TaIds |-> Settled(t)]

TaInv ==
    /\ \A t \in TaIds : AllSettled[t] # "garbled"
    /\ up => Books(AllSettled, inbox, sub_tas)

\* A transaction that is over and will not be garbled has nothing under way.
LEMMA OverMeansQuiet ==
    ASSUME NEW t, NEW q \in Seq(Msg), ReceivedAll(t, "idle", q) # "garbled"
    PROVE  LeavesAlone(t, q)
  <1>1. ASSUME NEW i \in 1..Len(q), q[i].ta = t PROVE FALSE
    <2> DEFINE a == SubSeq(q, 1, i - 1)
               b == SubSeq(q, i + 1, Len(q))
               m == <<q[i]>>
    <2>1. Len(q) \in Nat /\ q[i] \in Msg
      BY ElementOfSeq
    <2>2. a \in Seq(Msg) /\ b \in Seq(Msg) /\ m \in Seq(Msg)
      <3>1. \A j \in 1..Len(q) : q[j] \in Msg
        BY ElementOfSeq
      <3> QED BY <2>1, <3>1, SubSeqProperties
    <2>3. SubSeq(q, 1, i) = a \o m
      BY <2>1, SubSeqRecursiveSecond
    <2>4. SubSeq(q, 1, i) \o b = q
      <3>1. /\ 1 \in 1..Len(q)+1 /\ i \in (1 - 1)..Len(q) /\ Len(q) \in i..Len(q)
        BY <2>1
      <3>2. SubSeq(q, 1, i) \o b = SubSeq(q, 1, Len(q))
        BY <3>1, ConcatAdjacentSubSeq
      <3> QED BY <3>2, SubSeqFull
    <2> HIDE DEF a, b, m
    <2>5. a \o m \in Seq(Msg) /\ (a \o m) \o b = q
      BY <2>2, <2>3, <2>4, ConcatProperties
    <2> DEFINE x == ReceivedAll(t, "idle", a)
               y == ReceivedAll(t, x, m)
    <2>6. x \in {"idle", "garbled"}
      BY <2>2, ReceivedIdle
    <2>7. y = "garbled"
      <3>1. q[i].type \in MsgTypes
        BY <2>1 DEF Msg
      <3>2. y = proto_ta_response(x, q[i].type)
        BY <1>1, ReceivedOne DEF m, Received
      <3> HIDE DEF x, y
      <3> QED BY <2>6, <3>1, <3>2, Responses
    <2>8. ReceivedAll(t, "idle", a \o m) = y
      BY <2>2, ReceivedConcat
    <2>9. ReceivedAll(t, "garbled", b) = "garbled"
      BY <2>2, ReceivedIdle
    <2> HIDE DEF y
    <2>10. ASSUME NEW am \in Seq(Msg), am = a \o m PROVE FALSE
      <3>1. ReceivedAll(t, "idle", am \o b) = ReceivedAll(t, ReceivedAll(t, "idle", am), b)
        BY <2>2, ReceivedConcat
      <3> QED BY <2>5, <2>7, <2>8, <2>9, <2>10, <3>1
    <2> QED BY <2>5, <2>10
  <1> QED BY <1>1, OthersLeaveAlone DEF LeavesAlone

\* A send moves messages from the queue to the socket in order.
LEMMA SendKeepsOrder ==
    ASSUME TypeOK, NEW q \in Seq(Msg), try_send(q)
    PROVE  outbox' \o out_queue' = outbox \o q
  <1>1. PICK n \in 0..Len(q) : /\ outbox' = outbox \o SubSeq(q, 1, n)
                               /\ out_queue' = SubSeq(q, n + 1, Len(q))
    BY SendTakesPrefix
  <1>2. Len(q) \in Nat /\ n \in 0..Len(q)
    BY <1>1
  <1>3. SubSeq(q, 1, n) \in Seq(Msg) /\ SubSeq(q, n + 1, Len(q)) \in Seq(Msg)
    <2>1. \A j \in 1..Len(q) : q[j] \in Msg
      BY ElementOfSeq
    <2> QED BY <1>2, <2>1, SubSeqProperties
  <1>4. SubSeq(q, 1, n) \o SubSeq(q, n + 1, Len(q)) = q
    <2>1. 1 \in 1..Len(q)+1 /\ n \in (1 - 1)..Len(q) /\ Len(q) \in n..Len(q)
      BY <1>2
    <2>2. SubSeq(q, 1, n) \o SubSeq(q, n + 1, Len(q)) = SubSeq(q, 1, Len(q))
      BY <2>1, ConcatAdjacentSubSeq
    <2> QED BY <2>2, SubSeqFull
  <1>5. outbox \in Seq(Msg)
    BY DEF TypeOK
  <1> DEFINE sent == SubSeq(q, 1, n)
             left == SubSeq(q, n + 1, Len(q))
  <1> HIDE DEF sent, left
  <1>6. sent \in Seq(Msg) /\ left \in Seq(Msg)
    BY <1>3 DEF sent, left
  <1>7. (outbox \o sent) \o left = outbox \o (sent \o left)
    BY <1>5, <1>6, ConcatAssociative
  <1> QED BY <1>1, <1>4, <1>7 DEF sent, left

\* The books still agree once a request is answered.
LEMMA AnswerKeepsBooks ==
    ASSUME TypeOK, NEW S, NEW T, NEW reqs \in Seq(Req), reqs # <<>>,
           Books(S, reqs, sub_tas), \A u \in TaIds : S[u] # "garbled",
           NEW o, Answers(o, reqs[1].ta, proto_ta_req(reqs[1].cmd)),
           \A u \in TaIds : T[u] = ReceivedAll(u, S[u], o.msgs)
    PROVE  /\ Books(T, Tail(reqs), o.sub_tas)
           /\ \A u \in TaIds : T[u] # "garbled"
  <1> DEFINE t == reqs[1].ta
             st == proto_ta_req(reqs[1].cmd)
             rest == Tail(reqs)
  <1>1. \A i \in 1..Len(reqs) : reqs[i].ta \in TaIds
    <2>1. \A i \in 1..Len(reqs) : reqs[i] \in Req
      BY ElementOfSeq
    <2>2. \A r \in Req : r.ta \in TaIds
      BY DEF Req
    <2> QED BY <2>1, <2>2
  <1>2. /\ Len(reqs) \in Nat \ {0} /\ Len(rest) = Len(reqs) - 1
        /\ \A i \in 1..Len(rest) : rest[i] = reqs[i + 1]
    BY HeadTailProperties, EmptySeq
  <1>3. \A r : proto_ta_req(r) \in {"single", "multi"}
    BY DEF proto_ta_req
  <1>4. sub_tas \in TasType
    BY DEF TypeOK, TasType
  <1>5. /\ \A i, j \in 1..Len(reqs) : reqs[i].ta = reqs[j].ta => i = j
        /\ \A a, b \in SubIds : sub_tas[a] # Nil /\ sub_tas[a] = sub_tas[b] => a = b
        /\ \A i \in 1..Len(reqs) : S[reqs[i].ta] = proto_ta_req(reqs[i].cmd)
        /\ \A b \in SubIds : sub_tas[b] # Nil => S[sub_tas[b]] = "accepted"
        /\ \A u \in TaIds :
              /\ \A i \in 1..Len(reqs) : reqs[i].ta # u
              /\ \A b \in SubIds : sub_tas[b] # u
              => S[u] = "idle"
    BY DEF Books, InboxOnce, SubsApart, Accounted
  <1>6. \A i \in 1..Len(reqs), b \in SubIds : sub_tas[b] # reqs[i].ta
    BY <1>1, <1>3, <1>5, ProtoNilAssumption
  <1>7. t \in TaIds /\ S[t] = st /\ \A b \in SubIds : sub_tas[b] # t
    BY <1>1, <1>2, <1>5, <1>6
  <1>8. \A i \in 1..Len(rest) : /\ i + 1 \in 1..Len(reqs) /\ rest[i] = reqs[i + 1]
                                /\ rest[i].ta \in TaIds \ {t}
    BY <1>1, <1>2, <1>5
  <1>9. \A u \in TaIds \ {t} : (\A i \in 1..Len(rest) : rest[i].ta # u)
                                => (\A i \in 1..Len(reqs) : reqs[i].ta # u)
    <2> SUFFICES ASSUME NEW u \in TaIds \ {t}, NEW i \in 1..Len(reqs), reqs[i].ta = u
                 PROVE  \E j \in 1..Len(rest) : rest[j].ta = u
      OBVIOUS
    <2>1. i # 1 /\ i - 1 \in 1..Len(rest) /\ rest[i - 1] = reqs[i]
      BY <1>2
    <2> QED BY <2>1
  <1>10. InboxOnce(rest)
    <2> SUFFICES ASSUME NEW i \in 1..Len(rest), NEW j \in 1..Len(rest), rest[i].ta = rest[j].ta
                 PROVE  i = j
      BY DEF InboxOnce
    <2>1. i + 1 = j + 1
      BY <1>5, <1>8
    <2> QED BY <2>1
  <1> HIDE DEF t, st, rest
  <1>11. CASE Ends(o, t, st) \/ Tells(o, t, st)
    <2>1. /\ o.sub_tas = sub_tas /\ T[t] = "idle"
          /\ \A u \in TaIds \ {t} : T[u] = S[u]
      <3>1. CASE Ends(o, t, st)
        BY <1>7, <3>1 DEF Ends, LeavesAlone
      <3>2. CASE Tells(o, t, st)
        <4>1. o.sub_tas = sub_tas /\ T[t] = "idle"
          BY <1>7, <3>2 DEF Tells
        <4>2. ASSUME NEW u \in TaIds \ {t} PROVE T[u] = S[u]
          <5>1. CASE LeavesAlone(u, o.msgs)
            BY <4>2, <5>1 DEF LeavesAlone
          <5>2. CASE (\E b \in SubIds : sub_tas[b] = u) /\ ReceivedAll(u, "accepted", o.msgs) = "accepted"
            <6>1. S[u] = "accepted"
              BY <1>5, <5>2, ProtoNilAssumption
            <6> QED BY <4>2, <5>2, <6>1
          <5> QED BY <1>7, <3>2, <4>2, <5>1, <5>2 DEF Tells
        <4> QED BY <4>1, <4>2
      <3> QED BY <1>11, <3>1, <3>2
    <2>2. Accounted(T, rest, sub_tas)
      <3>1. \A i \in 1..Len(rest) : T[rest[i].ta] = proto_ta_req(rest[i].cmd)
        BY <1>5, <1>8, <2>1
      <3>2. \A b \in SubIds : sub_tas[b] # Nil => T[sub_tas[b]] = "accepted"
        BY <1>4, <1>5, <1>7, <2>1 DEF TasType
      <3>3. ASSUME NEW u \in TaIds, \A i \in 1..Len(rest) : rest[i].ta # u,
                   \A b \in SubIds : sub_tas[b] # u
            PROVE  T[u] = "idle"
        BY <1>5, <1>9, <2>1, <3>3
      <3> QED BY <3>1, <3>2, <3>3 DEF Accounted
    <2>3. \A u \in TaIds : T[u] # "garbled"
      BY <2>1
    <2> QED BY <1>10, <2>1, <2>2, <2>3 DEF Books, rest
  <1>12. ASSUME NEW b \in SubIds, Subscribes(o, t, st, b)
         PROVE  Books(T, rest, o.sub_tas) /\ \A u \in TaIds : T[u] # "garbled"
    <2>1. /\ o.sub_tas = [sub_tas EXCEPT ![b] = t] /\ T[t] = "accepted"
          /\ \A u \in TaIds \ {t} : T[u] = S[u]
      BY <1>7, <1>12 DEF Subscribes, LeavesAlone
    <2>2. \A c \in SubIds : o.sub_tas[c] = IF c = b THEN t ELSE sub_tas[c]
      BY <1>4, <2>1 DEF TasType
    <2>3. SubsApart(o.sub_tas)
      BY <1>5, <1>7, <2>2 DEF SubsApart
    <2>4. Accounted(T, rest, o.sub_tas)
      <3>1. \A i \in 1..Len(rest) : T[rest[i].ta] = proto_ta_req(rest[i].cmd)
        BY <1>5, <1>8, <2>1
      <3>2. \A c \in SubIds : o.sub_tas[c] # Nil => T[o.sub_tas[c]] = "accepted"
        BY <1>4, <1>5, <1>7, <2>1, <2>2 DEF TasType
      <3>3. ASSUME NEW u \in TaIds, \A i \in 1..Len(rest) : rest[i].ta # u,
                   \A c \in SubIds : o.sub_tas[c] # u
            PROVE  T[u] = "idle"
        <4>1. u # t
          BY <2>2, <3>3
        <4>2. \A c \in SubIds : sub_tas[c] # u
          BY <1>12, <2>2, <3>3, ProtoNilAssumption DEF Subscribes
        <4> QED BY <1>5, <1>9, <2>1, <3>3, <4>1, <4>2
      <3> QED BY <3>1, <3>2, <3>3 DEF Accounted
    <2>5. \A u \in TaIds : T[u] # "garbled"
      BY <2>1
    <2> QED BY <1>10, <2>3, <2>4, <2>5 DEF Books
  <1>13. ASSUME NEW b \in SubIds, Unsubscribes(o, t, st, b)
         PROVE  Books(T, rest, o.sub_tas) /\ \A u \in TaIds : T[u] # "garbled"
    <2> DEFINE v == sub_tas[b]
    <2>0. v \in TaIds /\ v # t /\ S[v] = "accepted"
      BY <1>5, <1>7, <1>13, ProtoNilAssumption DEF Unsubscribes
    <2>1. /\ o.sub_tas = [sub_tas EXCEPT ![b] = Nil] /\ T[t] = "idle" /\ T[v] = "idle"
          /\ \A u \in TaIds \ {t, v} : T[u] = S[u]
      BY <1>7, <1>13, <2>0 DEF Unsubscribes, LeavesAlone
    <2>2. \A c \in SubIds : o.sub_tas[c] = IF c = b THEN Nil ELSE sub_tas[c]
      BY <1>4, <2>1 DEF TasType
    <2>3. SubsApart(o.sub_tas)
      BY <1>5, <2>2 DEF SubsApart
    <2>4. Accounted(T, rest, o.sub_tas)
      <3>1. \A i \in 1..Len(rest) : T[rest[i].ta] = proto_ta_req(rest[i].cmd)
        BY <1>5, <1>6, <1>8, <2>1
      <3>2. \A c \in SubIds : o.sub_tas[c] # Nil => T[o.sub_tas[c]] = "accepted"
        BY <1>4, <1>5, <1>7, <2>1, <2>2 DEF TasType
      <3>3. ASSUME NEW u \in TaIds, \A i \in 1..Len(rest) : rest[i].ta # u,
                   \A c \in SubIds : o.sub_tas[c] # u
            PROVE  T[u] = "idle"
        <4>1. CASE u \in {t, v}
          BY <2>1, <4>1
        <4>2. CASE u \notin {t, v}
          <5>1. \A c \in SubIds : sub_tas[c] # u
            BY <2>2, <3>3, <4>2
          <5> QED BY <1>5, <1>9, <2>1, <3>3, <4>2, <5>1
        <4> QED BY <4>1, <4>2
      <3> QED BY <3>1, <3>2, <3>3 DEF Accounted
    <2>5. \A u \in TaIds : T[u] # "garbled"
      BY <2>1
    <2> QED BY <1>10, <2>3, <2>4, <2>5 DEF Books
  <1> QED BY <1>11, <1>12, <1>13 DEF Answers, t, st, rest

\* What is under way is messages of the protocol.
LEMMA UnderWay ==
    ASSUME TypeOK
    PROVE  /\ outbox \in Seq(Msg) /\ out_queue \in Seq(Msg)
           /\ outbox \o out_queue \in Seq(Msg)
  <1>1. outbox \in Seq(Msg) /\ out_queue \in Seq(Msg)
    BY DEF TypeOK
  <1> QED BY <1>1, ConcatProperties

\* A step that changes neither what is under way nor the books.
LEMMA QuietStep ==
    ASSUME TaInv, outbox' \o out_queue' = outbox \o out_queue,
           UNCHANGED <<ta, inbox, sub_tas, up>>
    PROVE  TaInv'
  <1>1. AllSettled' = AllSettled
    BY DEF AllSettled, Settled
  <1> QED BY <1>1 DEF TaInv, Books, InboxOnce, SubsApart, Accounted

\* What was queued and not sent when the connection ends never arrives, which
\* garbles nothing.
LEMMA TermTaInv ==
    ASSUME PInv, TaInv, term
    PROVE  TaInv'
  <1>1. outbox \in Seq(Msg) /\ out_queue \in Seq(Msg)
    BY UnderWay DEF PInv
  <1>2. outbox' \o out_queue' = outbox /\ ta' = ta /\ ~up'
    <2>1. outbox' = outbox /\ out_queue' = <<>> /\ ta' = ta /\ up' = FALSE
      BY DEF term
    <2>2. outbox \o <<>> = outbox
      BY <1>1, ConcatEmptySeq
    <2> QED BY <2>1, <2>2
  <1>3. ASSUME NEW t \in TaIds PROVE AllSettled'[t] # "garbled"
    <2> DEFINE st == ReceivedAll(t, ta[t], outbox)
    <2>1. AllSettled'[t] = st
      BY <1>2 DEF AllSettled, Settled
    <2>2. AllSettled[t] = ReceivedAll(t, st, out_queue)
      <3>1. AllSettled[t] = ReceivedAll(t, ta[t], outbox \o out_queue)
        BY DEF AllSettled, Settled
      <3>2. ReceivedAll(t, ta[t], outbox \o out_queue)
              = ReceivedAll(t, ReceivedAll(t, ta[t], outbox), out_queue)
        BY <1>1, ReceivedConcat
      <3> QED BY <3>1, <3>2
    <2>3. AllSettled[t] # "garbled"
      BY DEF TaInv
    <2> HIDE DEF st
    <2>4. ReceivedAll(t, "garbled", out_queue) = "garbled"
      BY <1>1, ReceivedIdle
    <2> QED BY <2>1, <2>2, <2>3, <2>4
  <1> QED BY <1>2, <1>3 DEF TaInv

\* What is queued behind all that is under way finds each transaction settled.
LEMMA QueuedSettles ==
    ASSUME TypeOK, NEW msgs \in Seq(Msg), ta' = ta,
           outbox' \o out_queue' = outbox \o (out_queue \o msgs)
    PROVE  \A u \in TaIds : AllSettled'[u] = ReceivedAll(u, AllSettled[u], msgs)
  <1>1. outbox \in Seq(Msg) /\ out_queue \in Seq(Msg) /\ outbox \o out_queue \in Seq(Msg)
    BY UnderWay
  <1> DEFINE q == outbox \o out_queue
  <1>2. outbox' \o out_queue' = q \o msgs
    BY <1>1, ConcatAssociative
  <1> SUFFICES ASSUME NEW u \in TaIds
               PROVE  AllSettled'[u] = ReceivedAll(u, AllSettled[u], msgs)
    OBVIOUS
  <1>3. AllSettled[u] = ReceivedAll(u, ta[u], q)
    BY DEF AllSettled, Settled
  <1>4. AllSettled'[u] = ReceivedAll(u, ta[u], q \o msgs)
    BY <1>2 DEF AllSettled, Settled
  <1>5. q \in Seq(Msg)
    BY <1>1
  <1> HIDE DEF q
  <1>6. ReceivedAll(u, ta[u], q \o msgs) = ReceivedAll(u, ReceivedAll(u, ta[u], q), msgs)
    BY <1>5, ReceivedConcat
  <1> QED BY <1>3, <1>4, <1>6

LEMMA RequestTaInv ==
    ASSUME PInv, TaInv, conn_process_request
    PROVE  TaInv'
  <1>t. TypeOK /\ up /\ inbox \in Seq(Req) /\ inbox # <<>> /\ inbox' = Tail(inbox)
    BY DEF PInv, TypeOK, conn_process_request
  <1>1. ASSUME NEW o \in handle_req(Head(inbox)),
               SendOrTerm(out_queue \o o.msgs, o.finished, o.sub_tas)
        PROVE  TaInv'
    <2>1. Head(inbox) \in Req /\ Head(inbox) = inbox[1]
      BY <1>t, HeadTailProperties
    <2>2. o \in OutcomeType /\ Answers(o, inbox[1].ta, proto_ta_req(inbox[1].cmd))
      BY <1>t, <2>1, HandlerType, HandlerAnswers
    <2>3. CASE try_send(out_queue \o o.msgs) /\ sub_tas' = o.sub_tas
      <3>1. o.msgs \in Seq(Msg) /\ out_queue \in Seq(Msg) /\ ta' = ta
        BY <1>t, <2>2, <2>3, UnderWay DEF OutcomeType, try_send
      <3>2. out_queue \o o.msgs \in Seq(Msg)
        BY <3>1, ConcatProperties
      <3>3. outbox' \o out_queue' = outbox \o (out_queue \o o.msgs)
        BY <1>t, <2>3, <3>2, SendKeepsOrder
      <3>4. \A u \in TaIds : AllSettled'[u] = ReceivedAll(u, AllSettled[u], o.msgs)
        BY <1>t, <3>1, <3>3, QueuedSettles
      <3>5. /\ Books(AllSettled, inbox, sub_tas)
            /\ \A u \in TaIds : AllSettled[u] # "garbled"
        BY <1>t DEF TaInv
      <3>6. /\ Books(AllSettled', Tail(inbox), o.sub_tas)
            /\ \A u \in TaIds : AllSettled'[u] # "garbled"
        BY <1>t, <2>2, <3>4, <3>5, AnswerKeepsBooks
      <3>7. Books(AllSettled', inbox', sub_tas')
        BY <1>t, <2>3, <3>6
      <3> QED BY <3>6, <3>7 DEF TaInv, Books, InboxOnce, SubsApart, Accounted
    <2> QED BY <1>1, <2>3, TermTaInv DEF SendOrTerm
  <1> QED BY <1>1, TermTaInv DEF conn_process_request

\* A notification is queued only for the transaction of a subscription, which
\* has been accepted by the time it arrives.
LEMMA NotifyTaInv ==
    ASSUME PInv, TaInv, NEW b \in SubIds, notify_sub_match(b)
    PROVE  TaInv'
  <1> DEFINE t == sub_tas[b]
             m == M(t, "notify")
  <1>t. /\ TypeOK /\ up /\ t \in TaIds /\ UNCHANGED <<ta, inbox, sub_tas, up, outbox>>
        /\ out_queue' = Append(out_queue, m)
    BY DEF PInv, TypeOK, notify_sub_match
  <1>1. /\ Books(AllSettled, inbox, sub_tas)
        /\ \A u \in TaIds : AllSettled[u] # "garbled"
    BY <1>t DEF TaInv
  <1>2. AllSettled[t] = "accepted"
    BY <1>1, <1>t, ProtoNilAssumption DEF Books, Accounted
  <1>3. m \in Msg /\ m.ta = t /\ m.type = "notify"
    BY <1>t DEF M, Msg, MsgTypes
  <1> HIDE DEF t, m
  <1>4. <<m>> \in Seq(Msg) /\ out_queue \in Seq(Msg)
    BY <1>3, <1>t, UnderWay
  <1>5. out_queue' = out_queue \o <<m>>
    BY <1>3, <1>4, <1>t, AppendIsConcat
  <1>6. \A u \in TaIds : AllSettled'[u] = ReceivedAll(u, AllSettled[u], <<m>>)
    BY <1>t, <1>4, <1>5, QueuedSettles
  <1>7. \A u \in TaIds : AllSettled'[u] = AllSettled[u]
    <2> SUFFICES ASSUME NEW u \in TaIds PROVE AllSettled'[u] = AllSettled[u]
      OBVIOUS
    <2>1. AllSettled'[u] = Received(u, AllSettled[u], m)
      BY <1>6, ReceivedOne
    <2>2. Received(u, AllSettled[u], m) = AllSettled[u]
      BY <1>2, <1>3, Responses DEF Received
    <2> QED BY <2>1, <2>2
  <1>8. AllSettled' = AllSettled
    <2>1. AllSettled = [u \in TaIds |-> AllSettled[u]] /\ AllSettled' = [u \in TaIds |-> AllSettled'[u]]
      BY DEF AllSettled
    <2> QED BY <1>7, <2>1
  <1> QED BY <1>1, <1>8, <1>t DEF TaInv, Books, InboxOnce, SubsApart, Accounted

\* An id is free for another transaction only when nothing of the last one is
\* under way.
LEMMA ClientRequestTaInv ==
    ASSUME PInv, TaInv, NEW r \in Req, ClientRequest(r)
    PROVE  TaInv'
  <1> DEFINE t == r.ta
             st == proto_ta_req(r.cmd)
             q == outbox \o out_queue
             n == Len(inbox)
  <1>t. /\ TypeOK /\ up /\ t \in TaIds /\ UNCHANGED <<sub_tas, out_queue, up, outbox>>
        /\ inbox \in Seq(Req) /\ inbox' = Append(inbox, r) /\ ta[t] = "idle"
        /\ ta' = [ta EXCEPT ![t] = st] /\ ta \in [TaIds -> TaStates]
    BY DEF PInv, TypeOK, ClientRequest, Req
  <1>b. /\ Books(AllSettled, inbox, sub_tas)
        /\ \A u \in TaIds : AllSettled[u] # "garbled"
    BY <1>t DEF TaInv
  <1>k. \A cmd : proto_ta_req(cmd) \in {"single", "multi"}
    BY DEF proto_ta_req
  <1>q. q \in Seq(Msg)
    BY <1>t, UnderWay
  <1>1. \A u \in TaIds : /\ AllSettled[u] = ReceivedAll(u, ta[u], q)
                         /\ AllSettled'[u] = ReceivedAll(u, ta'[u], q)
    BY <1>t DEF AllSettled, Settled
  <1> HIDE DEF q
  <1>2. \A s : ReceivedAll(t, s, q) = s
    <2>1. ReceivedAll(t, "idle", q) # "garbled"
      BY <1>1, <1>b, <1>t
    <2> QED BY <1>q, <2>1, OverMeansQuiet DEF LeavesAlone
  <1>3. AllSettled[t] = "idle" /\ AllSettled'[t] = st
    BY <1>1, <1>2, <1>t
  <1>4. \A u \in TaIds \ {t} : AllSettled'[u] = AllSettled[u]
    BY <1>1, <1>t
  <1>5. /\ n \in Nat /\ Len(inbox') = n + 1 /\ inbox'[n + 1] = r
        /\ \A i \in 1..n : inbox'[i] = inbox[i]
    BY <1>t
  <1>6. \A i \in 1..n : inbox[i].ta \in TaIds /\ inbox[i].ta # t
    <2>1. \A i \in 1..n : inbox[i] \in Req
      BY <1>t, ElementOfSeq
    <2>2. \A i \in 1..n : AllSettled[inbox[i].ta] = proto_ta_req(inbox[i].cmd)
      BY <1>b DEF Books, Accounted
    <2>3. \A x \in Req : x.ta \in TaIds
      BY DEF Req
    <2> QED BY <1>3, <1>k, <2>1, <2>2, <2>3
  <1>7. \A b \in SubIds : sub_tas[b] \in TaIds \cup {Nil} /\ sub_tas[b] # t
    BY <1>3, <1>b, <1>t, ProtoNilAssumption DEF Books, Accounted, TypeOK
  <1> HIDE DEF t, st, n
  <1>8. InboxOnce(inbox')
    <2>1. \A i, j \in 1..n : inbox[i].ta = inbox[j].ta => i = j
      BY <1>b DEF Books, InboxOnce, n
    <2> SUFFICES ASSUME NEW i \in 1..(n + 1), NEW j \in 1..(n + 1),
                        inbox'[i].ta = inbox'[j].ta
                 PROVE  i = j
      BY <1>5 DEF InboxOnce
    <2> QED BY <1>5, <1>6, <2>1 DEF t
  <1>9. Accounted(AllSettled', inbox', sub_tas)
    <2>1. ASSUME NEW i \in 1..Len(inbox')
          PROVE  AllSettled'[inbox'[i].ta] = proto_ta_req(inbox'[i].cmd)
      <3>1. CASE i = n + 1
        BY <1>3, <1>5, <3>1 DEF t, st
      <3>2. CASE i # n + 1
        <4>1. i \in 1..n /\ inbox'[i] = inbox[i]
          BY <1>5, <3>2
        <4>2. AllSettled[inbox[i].ta] = proto_ta_req(inbox[i].cmd)
          BY <1>b, <4>1 DEF Books, Accounted, n
        <4> QED BY <1>4, <1>6, <4>1, <4>2
      <3> QED BY <3>1, <3>2
    <2>2. \A b \in SubIds : sub_tas[b] # Nil => AllSettled'[sub_tas[b]] = "accepted"
      BY <1>4, <1>7, <1>b DEF Books, Accounted
    <2>3. ASSUME NEW u \in TaIds, \A i \in 1..Len(inbox') : inbox'[i].ta # u,
                 \A b \in SubIds : sub_tas[b] # u
          PROVE  AllSettled'[u] = "idle"
      <3>1. u # t /\ \A i \in 1..n : inbox[i].ta # u
        BY <1>5, <2>3 DEF t
      <3>2. AllSettled[u] = "idle"
        BY <1>b, <2>3, <3>1 DEF Books, Accounted, n
      <3> QED BY <1>4, <3>1, <3>2
    <2> QED BY <2>1, <2>2, <2>3 DEF Accounted
  <1>10. \A u \in TaIds : AllSettled'[u] # "garbled"
    BY <1>3, <1>4, <1>b, <1>k DEF st
  <1>11. Books(AllSettled', inbox', sub_tas')
    BY <1>8, <1>9, <1>b, <1>t DEF Books
  <1> QED BY <1>10, <1>11 DEF TaInv, Books, InboxOnce, SubsApart, Accounted

\* Receiving a message takes it from what is under way and counts it.
LEMMA ClientReceiveTaInv ==
    ASSUME PInv, TaInv, ClientReceive
    PROVE  TaInv'
  <1> DEFINE h == Head(outbox)
             rest == Tail(outbox) \o out_queue
  <1>t. /\ TypeOK /\ outbox # <<>> /\ UNCHANGED <<inbox, sub_tas, up, out_queue>>
        /\ outbox' = Tail(outbox) /\ ta \in [TaIds -> TaStates]
        /\ ta' = [ta EXCEPT ![h.ta] = proto_ta_response(@, h.type)]
    BY DEF PInv, TypeOK, ClientReceive
  <1>1. outbox \in Seq(Msg) /\ out_queue \in Seq(Msg)
    BY <1>t, UnderWay
  <1>2. h \in Msg /\ Tail(outbox) \in Seq(Msg) /\ outbox = <<h>> \o Tail(outbox)
    BY <1>1, <1>t, HeadTailProperties
  <1>3. rest \in Seq(Msg)
    BY <1>1, <1>2, ConcatProperties
  <1> HIDE DEF h
  <1>4. <<h>> \in Seq(Msg)
    BY <1>2
  <1>5. outbox \o out_queue = <<h>> \o rest
    <2>1. ASSUME NEW a \in Seq(Msg), NEW b \in Seq(Msg), outbox = a \o b
          PROVE  outbox \o out_queue = a \o (b \o out_queue)
      BY <1>1, <2>1, ConcatAssociative
    <2> QED BY <1>2, <1>4, <2>1
  <1>6. outbox' \o out_queue' = rest
    BY <1>t
  <1> HIDE DEF rest
  <1>7. \A u \in TaIds : AllSettled'[u] = AllSettled[u]
    <2> SUFFICES ASSUME NEW u \in TaIds PROVE AllSettled'[u] = AllSettled[u]
      OBVIOUS
    <2>1. ta'[u] = Received(u, ta[u], h)
      <3>1. ta'[u] = IF u = h.ta THEN proto_ta_response(ta[u], h.type) ELSE ta[u]
        BY <1>t DEF h
      <3> QED BY <3>1 DEF Received
    <2>2. ReceivedAll(u, ta[u], <<h>> \o rest)
            = ReceivedAll(u, ReceivedAll(u, ta[u], <<h>>), rest)
      <3>1. \A one \in Seq(Msg) : ReceivedAll(u, ta[u], one \o rest)
                                  = ReceivedAll(u, ReceivedAll(u, ta[u], one), rest)
        BY <1>3, ReceivedConcat
      <3> QED BY <1>4, <3>1
    <2>3. ReceivedAll(u, ta[u], <<h>>) = Received(u, ta[u], h)
      BY ReceivedOne
    <2>4. AllSettled[u] = ReceivedAll(u, ta[u], <<h>> \o rest)
      BY <1>5 DEF AllSettled, Settled
    <2>5. AllSettled'[u] = ReceivedAll(u, ta'[u], rest)
      BY <1>6 DEF AllSettled, Settled
    <2> QED BY <2>1, <2>2, <2>3, <2>4, <2>5
  <1>8. AllSettled' = AllSettled
    <2>1. AllSettled = [u \in TaIds |-> AllSettled[u]] /\ AllSettled' = [u \in TaIds |-> AllSettled'[u]]
      BY DEF AllSettled
    <2> QED BY <1>7, <2>1
  <1> QED BY <1>8, <1>t DEF TaInv, Books, InboxOnce, SubsApart, Accounted

-----------------------------------------------------------------------------
LEMMA InitTaInv == Init => TaInv
  <1> SUFFICES ASSUME Init PROVE TaInv
    OBVIOUS
  <1>1. outbox \o out_queue = <<>> /\ Len(inbox) = 0
    BY DEF Init
  <1>2. \A t \in TaIds : AllSettled[t] = "idle"
    BY <1>1, ReceivedNone DEF Init, AllSettled, Settled
  <1>3. \A b \in SubIds : sub_tas[b] = Nil
    BY DEF Init
  <1>4. Books(AllSettled, inbox, sub_tas)
    BY <1>1, <1>2, <1>3 DEF Books, InboxOnce, SubsApart, Accounted
  <1> QED BY <1>2, <1>4 DEF TaInv

LEMMA NextTaInv == PInv /\ TaInv /\ [Next]_vars => TaInv'
  <1> SUFFICES ASSUME PInv, TaInv, [Next]_vars PROVE TaInv'
    OBVIOUS
  <1>1. CASE conn_process_request
    BY <1>1, RequestTaInv
  <1>2. CASE conn_process_nothing
    <2>1. /\ TypeOK /\ out_queue \in Seq(Msg) /\ try_send(out_queue)
          /\ UNCHANGED <<ta, inbox, sub_tas, up>>
      BY <1>2 DEF conn_process_nothing, try_send, PInv, TypeOK
    <2>2. outbox' \o out_queue' = outbox \o out_queue
      BY <2>1, SendKeepsOrder
    <2> QED BY <2>1, <2>2, QuietStep
  <1>3. CASE conn_process_closed
    BY <1>3, TermTaInv DEF conn_process_closed
  <1>4. ASSUME NEW b \in SubIds, notify_sub_match(b) PROVE TaInv'
    BY <1>4, NotifyTaInv
  <1>5. ASSUME NEW r \in Req, ClientRequest(r) PROVE TaInv'
    BY <1>5, ClientRequestTaInv
  <1>6. CASE ClientReceive
    BY <1>6, ClientReceiveTaInv
  <1>7. CASE ClientCloses \/ UNCHANGED vars
    BY <1>7, QuietStep DEF ClientCloses, vars
  <1> QED BY <1>1, <1>2, <1>3, <1>4, <1>5, <1>6, <1>7 DEF Next, conn_process

\* The client and the daemon agree on every transaction, across all that is
\* buffered between them.
LEMMA BooksAgree == Spec => [](PInv /\ TaInv)
  BY InitPInv, NextPInv, InitTaInv, NextTaInv, PTL DEF Spec

\* Whatever the order in which requests are answered, notifications queued and
\* messages sent, no client receives a response that is not its transaction's
\* due: what has been received garbled would stay so, whatever is under way.
THEOREM ResponsesAreDue == Spec => []ResponsesConform
  <1>1. PInv /\ TaInv => ResponsesConform
    <2> SUFFICES ASSUME PInv, TaInv, NEW t \in TaIds, ta[t] = "garbled"
                 PROVE  FALSE
      BY DEF ResponsesConform
    <2>1. outbox \o out_queue \in Seq(Msg)
      BY UnderWay DEF PInv
    <2>2. AllSettled[t] = ReceivedAll(t, "garbled", outbox \o out_queue)
      BY DEF AllSettled, Settled
    <2>3. ReceivedAll(t, "garbled", outbox \o out_queue) = "garbled"
      BY <2>1, ReceivedIdle
    <2> QED BY <2>2, <2>3 DEF TaInv
  <1> QED BY <1>1, BooksAgree, PTL

\* The daemon forgets no transaction that its client has open, and keeps none
\* that is over.
THEOREM TransactionsAreKept == Spec => []NoTransactionForgotten
  <1>1. PInv /\ TaInv => NoTransactionForgotten
    <2> SUFFICES ASSUME PInv, TaInv, up, NEW t \in TaIds
                 PROVE  Settled(t) = IF \E i \in DOMAIN inbox : inbox[i].ta = t
                                     THEN LET i == CHOOSE j \in DOMAIN inbox : inbox[j].ta = t
                                          IN  proto_ta_req(inbox[i].cmd)
                                     ELSE IF \E b \in SubIds : sub_tas[b] = t
                                          THEN "accepted" ELSE "idle"
      BY DEF NoTransactionForgotten
    <2>1. Settled(t) = AllSettled[t]
      BY DEF AllSettled
    <2>2. DOMAIN inbox = 1..Len(inbox)
      BY DEF PInv, TypeOK
    <2>3. Accounted(AllSettled, inbox, sub_tas)
      BY DEF TaInv, Books
    <2>4. CASE \E i \in DOMAIN inbox : inbox[i].ta = t
      <3> DEFINE k == CHOOSE j \in DOMAIN inbox : inbox[j].ta = t
      <3>1. k \in DOMAIN inbox /\ inbox[k].ta = t
        BY <2>4
      <3>2. AllSettled[inbox[k].ta] = proto_ta_req(inbox[k].cmd)
        <4> HIDE DEF k
        <4> QED BY <2>2, <2>3, <3>1 DEF Accounted
      <3> QED BY <2>1, <2>4, <3>1, <3>2
    <2>5. CASE ~\E i \in DOMAIN inbox : inbox[i].ta = t
      <3>1. CASE \E b \in SubIds : sub_tas[b] = t
        BY <2>1, <2>3, <2>5, <3>1, ProtoNilAssumption DEF Accounted
      <3>2. CASE ~\E b \in SubIds : sub_tas[b] = t
        BY <2>1, <2>2, <2>3, <2>5, <3>2 DEF Accounted
      <3> QED BY <3>1, <3>2
    <2> QED BY <2>4, <2>5
  <1> QED BY <1>1, BooksAgree, PTL
=============================================================================
