---------------------------- MODULE Server_proofs ----------------------------
(***************************************************************************)
(* Proofs about Server, for every set of connections, clients, services    *)
(* and subscriptions and every handshake time.  The server only ever takes *)
(* steps the database specification allows, so what is proved of           *)
(* ServiceDiscovery holds in the server too, and its invariants carry the  *)
(* proof that sessions and subscriptions agree with the connections.       *)
(***************************************************************************)
EXTENDS Server, ServiceDiscovery_proofs

\* What the proof needs of the database.
DbInv == TypeOK /\ ConnOwnership /\ SubsOfActiveConns

\* The server's part of the inductive invariant.
SInv ==
    /\ ServerTypeOK
    /\ ListsMatchHandshake
    /\ SessionsMatchDatabase
    /\ SubsReportToLiveConns

-----------------------------------------------------------------------------
(* The server's steps are database steps.                                  *)

LEMMA IdIsClient ==
    ASSUME ServerTypeOK, NEW k \in ProtoConns, has_finished_handshake(k)
    PROVE  client_id[k] \in Clients
  BY DEF ServerTypeOK, has_finished_handshake

LEMMA StepIsDatabaseStep ==
    ASSUME ServerTypeOK, [ServerNext]_serverVars
    PROVE  [Next]_vars
  <1>1. CASE UNCHANGED serverVars
    BY <1>1 DEF serverVars
  <1>2. CASE ServerNext
    <2>a. ~aborted
      BY <1>2 DEF ServerNext
    <2>1. ASSUME NEW k \in ProtoConns, ConnStep(k)
          PROVE  [Next]_vars
      <3>1. CASE accept_cb(k)
        BY <3>1 DEF accept_cb
      <3>2. CASE term(k)
        <4>1. CASE has_finished_handshake(k)
          <5>1. sd_client_disconnect(client_id[k]) /\ client_id[k] \in Clients
            BY <3>2, <4>1, IdIsClient DEF term
          <5> QED BY <2>a, <5>1 DEF Next, Request
        <4>2. CASE ~has_finished_handshake(k)
          BY <3>2, <4>2 DEF term
        <4> QED BY <4>1, <4>2
      <3>3. ASSUME NEW c \in Clients, handle_hello(k, c)
            PROVE  [Next]_vars
        BY <2>a, <3>3 DEF handle_hello, Next, Request
      <3>4. ASSUME NEW b \in SubIds, handle_subscribe(k, b)
            PROVE  [Next]_vars
        <4>1. sd_subscribe(client_id[k]) /\ client_id[k] \in Clients
          BY <3>4, IdIsClient DEF handle_subscribe, Ready, sd_subscribe
        <4> QED BY <2>a, <4>1 DEF Next, Request
      <3>5. ASSUME NEW b \in SubIds, handle_unsubscribe(k, b)
            PROVE  [Next]_vars
        <4>1. sd_unsubscribe(client_id[k]) /\ client_id[k] \in Clients
          BY <3>5, IdIsClient DEF handle_unsubscribe, Ready, sd_unsubscribe
        <4> QED BY <2>a, <4>1 DEF Next, Request
      <3>6. CASE handle_publish(k)
        <4>1. sd_publish(client_id[k]) /\ client_id[k] \in Clients
          BY <3>6, IdIsClient DEF handle_publish, Ready
        <4> QED BY <2>a, <4>1 DEF Next, Request
      <3>7. CASE handle_unpublish(k)
        <4>1. sd_unpublish(client_id[k]) /\ client_id[k] \in Clients
          BY <3>7, IdIsClient DEF handle_unpublish, Ready
        <4> QED BY <2>a, <4>1 DEF Next, Request
      <3> QED BY <2>1, <3>1, <3>2, <3>3, <3>4, <3>5, <3>6, <3>7 DEF ConnStep
    <2>2. CASE clean_out_cb
      BY <2>2 DEF clean_out_cb
    <2>3. CASE DatabaseStep
      BY <2>a, <2>3 DEF DatabaseStep, TimerFires, Next
    <2> QED BY <1>2, <2>1, <2>2, <2>3 DEF ServerNext
  <1> QED BY <1>1, <1>2

-----------------------------------------------------------------------------
(* What the database calls do to the sessions and the subscriptions.       *)

\* A client that connects was not connected; the others stay as they are.
LEMMA ConnectEffect ==
    ASSUME DbInv, NEW c \in Clients, sd_client_connect(c)
    PROVE  /\ sub' = sub /\ now' = now
           /\ rc' = "OK" => /\ ~client_is_connected(c)
                            /\ active'[c] # Nil
                            /\ \A d \in Clients \ {c} : active'[d] = active[d]
           /\ rc' # "OK" => active' = active
  <1>t. active \in [Clients -> Conns \cup {Nil}]
    BY DEF DbInv, TypeOK
  <1>1. CASE client_connect(c)
    <2>1. active[c] = Nil
      BY <1>1, <1>t DEF DbInv, ConnOwnership, client_conns, client_connect
    <2>2. PICK k \in FreeConns : active' = [active EXCEPT ![c] = k]
      BY <1>1 DEF client_connect
    <2>3. k # Nil
      BY NilAssumption DEF FreeConns
    <2> QED BY <1>1, <1>t, <2>1, <2>2, <2>3
            DEF client_connect, Return, Unchanged_db, client_is_connected
  <1>2. CASE client_reconnect(c)
    <2>2. PICK k \in FreeConns : active' = [active EXCEPT ![c] = k]
      BY <1>2 DEF client_reconnect
    <2>3. k # Nil
      BY NilAssumption DEF FreeConns
    <2> QED BY <1>2, <1>t, <2>2, <2>3
            DEF client_reconnect, Return, Unchanged_db, client_is_connected
  <1>3. CASE client_reconnect_rejected(c)
    BY <1>3 DEF client_reconnect_rejected, Return, Unchanged_db
  <1> QED BY <1>1, <1>2, <1>3 DEF sd_client_connect

\* A client that disconnects takes its subscriptions with it, and no others.
LEMMA DisconnectEffect ==
    ASSUME DbInv, NEW c \in Clients, client_disconnect(c)
    PROVE  /\ active'[c] = Nil /\ now' = now
           /\ \A d \in Clients \ {c} : active'[d] = active[d]
           /\ \A b \in SubIds :
                 sub'[b] = IF sub[b] # Nil /\ sub[b].client_id = c THEN Nil ELSE sub[b]
  <1>t. active \in [Clients -> Conns \cup {Nil}] /\ client_is_connected(c)
    BY DEF DbInv, TypeOK, client_disconnect
  <1>1. active' = [active EXCEPT ![c] = Nil] /\ now' = now
    BY DEF client_disconnect
  <1>2. sub' = [b \in SubIds |-> IF b \in subs[active[c]] THEN Nil ELSE sub[b]]
    BY DEF client_disconnect
  <1>3. ASSUME NEW b \in SubIds
        PROVE  b \in subs[active[c]] <=> sub[b] # Nil /\ sub[b].client_id = c
    <2>1. active[c] \in Conns
      BY <1>t DEF client_is_connected
    <2>2. sub[b] # Nil => sub[b].client_id \in Clients
      BY DEF DbInv, TypeOK, SubRec
    <2>3. ASSUME b \in subs[active[c]] PROVE sub[b] # Nil /\ sub[b].client_id = c
      <3>1. sub[b] # Nil /\ active[c] = active[sub[b].client_id]
        BY <2>1, <2>3 DEF DbInv, SubsOfActiveConns
      <3>2. \A d, e \in Clients : d # e => client_conns(d) \cap client_conns(e) = {}
        BY DEF DbInv, ConnOwnership
      <3>3. \A d \in Clients : active[d] # Nil => active[d] \in client_conns(d)
        BY DEF client_conns
      <3> QED BY <1>t, <2>2, <3>1, <3>2, <3>3 DEF client_is_connected
    <2>4. ASSUME sub[b] # Nil, sub[b].client_id = c PROVE b \in subs[active[c]]
      BY <2>4 DEF DbInv, SubsOfActiveConns
    <2> QED BY <2>3, <2>4
  <1> QED BY <1>t, <1>1, <1>2, <1>3

\* Publishing, unpublishing, timers and time touch neither.
LEMMA OtherEffect ==
    ASSUME \/ \E c \in Clients : sd_publish(c) \/ sd_unpublish(c)
           \/ \E s \in Services : TimerFires(s)
           \/ Tick
    PROVE  active' = active /\ sub' = sub
  <1>1. ASSUME NEW c \in Clients, sd_publish(c)
        PROVE  active' = active /\ sub' = sub
    BY <1>1 DEF sd_publish, client_publish, publish_new, publish_newer_generation,
                publish_same_generation, publish_rejected, Unchanged_db
  <1>2. ASSUME NEW c \in Clients, sd_unpublish(c)
        PROVE  active' = active /\ sub' = sub
    BY <1>2 DEF sd_unpublish, client_unpublish, client_unpublish_rejected, Unchanged_db
  <1>3. ASSUME NEW s \in Services, TimerFires(s)
        PROVE  active' = active /\ sub' = sub
    BY <1>3 DEF TimerFires, orphan_timeout_cb, purge_orphan_assert_fails, Unchanged_db
  <1>4. ASSUME Tick
        PROVE  active' = active /\ sub' = sub
    BY <1>4 DEF Tick, Unchanged_db
  <1> QED BY <1>1, <1>2, <1>3, <1>4

-----------------------------------------------------------------------------
(* The server's invariant is inductive.                                    *)

USE DEF client_is_connected, has_finished_handshake

LEMMA InitSInv == ServerInit => SInv
  <1> SUFFICES ASSUME ServerInit PROVE SInv
    OBVIOUS
  <1>1. ServerTypeOK
    BY NumbersAssumption DEF ServerInit, ServerTypeOK
  <1>2. ListsMatchHandshake /\ SessionsMatchDatabase /\ SubsReportToLiveConns
    BY DEF ServerInit, Init, ListsMatchHandshake, SessionsMatchDatabase,
           SubsReportToLiveConns
  <1> QED BY <1>1, <1>2 DEF SInv

\* A step that leaves the connections, the sessions and the subscriptions alone.
LEMMA SInvUnchanged ==
    ASSUME SInv, UNCHANGED <<connVars, cb_data>>, active' = active, sub' = sub
    PROVE  SInv'
  BY DEF SInv, connVars, ServerTypeOK, ListsMatchHandshake, SessionsMatchDatabase,
         SubsReportToLiveConns

LEMMA AcceptSInv ==
    ASSUME SInv, DbInv, NEW k \in ProtoConns, accept_cb(k)
    PROVE  SInv'
  <1>1. active' = active /\ sub' = sub
    BY DEF accept_cb, vars
  <1>2. ServerTypeOK'
    BY DEF SInv, DbInv, TypeOK, ServerTypeOK, accept_cb
  <1>3. ListsMatchHandshake'
    BY DEF SInv, ListsMatchHandshake, accept_cb, Live
  <1>4. SessionsMatchDatabase' /\ SubsReportToLiveConns'
    BY <1>1 DEF SInv, SessionsMatchDatabase, SubsReportToLiveConns, accept_cb
  <1> QED BY <1>2, <1>3, <1>4 DEF SInv

LEMMA HelloSInv ==
    ASSUME SInv, DbInv, NEW k \in ProtoConns, NEW c \in Clients, handle_hello(k, c)
    PROVE  SInv'
  <1>1. /\ sub' = sub
        /\ rc' = "OK" => /\ active[c] = Nil /\ active'[c] # Nil
                         /\ \A d \in Clients \ {c} : active'[d] = active[d]
        /\ rc' # "OK" => active' = active
    BY ConnectEffect DEF handle_hello
  <1>2. CASE rc' # "OK"
    BY <1>1, <1>2, SInvUnchanged DEF handle_hello
  <1>3. CASE rc' = "OK"
    <2>1. /\ client_id' = [client_id EXCEPT ![k] = c]
          /\ clientless_conns' = clientless_conns \ {k}
          /\ clientful_conns' = clientful_conns \cup {k}
          /\ UNCHANGED <<established_at, sub_tas, cb_data>>
          /\ k \in clientless_conns /\ client_id[k] = Nil
      BY <1>3 DEF handle_hello, conn_handshake_cb
    <2>t. client_id \in [ProtoConns -> Clients \cup {Nil}]
      BY DEF SInv, ServerTypeOK
    <2>2. ServerTypeOK'
      BY <2>1 DEF SInv, ServerTypeOK
    <2>3. ListsMatchHandshake'
      BY <2>1, <2>t, ServerNilAssumption DEF SInv, ListsMatchHandshake
    <2>4. k \notin clientful_conns /\ \A l \in clientful_conns : client_id[l] # c
      BY <1>1, <1>3, <2>1 DEF SInv, ListsMatchHandshake, SessionsMatchDatabase
    <2>5. clientful_conns \subseteq ProtoConns
      BY DEF SInv, ServerTypeOK
    <2>6. \A l \in clientful_conns : client_id'[l] = client_id[l]
      BY <2>1, <2>t, <2>4, <2>5
    <2>7. client_id'[k] = c
      BY <2>1, <2>t
    <2>8. SessionsMatchDatabase'
      <3>1. ASSUME NEW d \in Clients
            PROVE  active'[d] # Nil <=> \E l \in clientful_conns' : client_id'[l] = d
        <4>1. active[d] # Nil <=> \E l \in clientful_conns : client_id[l] = d
          BY DEF SInv, SessionsMatchDatabase
        <4>2. CASE d = c
          BY <1>1, <1>3, <2>1, <2>7, <4>2
        <4>3. CASE d # c
          BY <1>1, <1>3, <2>1, <2>6, <2>7, <4>1, <4>3
        <4> QED BY <4>2, <4>3
      <3>2. \A l, m \in clientful_conns' : client_id'[l] = client_id'[m] => l = m
        BY <2>1, <2>4, <2>6, <2>7 DEF SInv, SessionsMatchDatabase
      <3> QED BY <3>1, <3>2 DEF SessionsMatchDatabase
    <2>9. SubsReportToLiveConns'
      BY <1>1, <2>1, <2>6 DEF SInv, SubsReportToLiveConns
    <2> QED BY <2>2, <2>3, <2>8, <2>9 DEF SInv
  <1> QED BY <1>2, <1>3

LEMMA SubscribeSInv ==
    ASSUME SInv, DbInv, NEW k \in ProtoConns, NEW b \in SubIds, handle_subscribe(k, b)
    PROVE  SInv'
  <1>c. client_id[k] \in Clients /\ client_id[k] # Nil
    BY IdIsClient DEF SInv, handle_subscribe, Ready
  <1>1. CASE client_create_sub_rejected(client_id[k], b) /\ UNCHANGED <<connVars, cb_data>>
    BY <1>1, SInvUnchanged DEF client_create_sub_rejected, Unchanged_db
  <1>2. ASSUME NEW f \in Filters, client_create_sub(client_id[k], b, f),
               sub_tas' = [sub_tas EXCEPT ![k] = @ \cup {b}],
               cb_data' = [cb_data EXCEPT ![b] = k],
               UNCHANGED <<clientless_conns, clientful_conns, client_id, established_at>>
        PROVE  SInv'
    <2>1. /\ active' = active /\ sub[b] = Nil
          /\ sub' = [sub EXCEPT ![b] = [client_id |-> client_id[k], filter |-> f]]
      BY <1>2 DEF client_create_sub
    <2>t. /\ sub \in [SubIds -> SubRec \cup {Nil}]
          /\ sub_tas \in [ProtoConns -> SUBSET SubIds]
          /\ cb_data \in [SubIds -> ProtoConns \cup {Nil}]
      BY DEF SInv, ServerTypeOK, DbInv, TypeOK
    <2>2. ServerTypeOK'
      BY <1>2 DEF SInv, ServerTypeOK
    <2>3. ListsMatchHandshake' /\ SessionsMatchDatabase'
      BY <1>2, <2>1 DEF SInv, ListsMatchHandshake, SessionsMatchDatabase
    <2>4. k \in clientful_conns
      BY <1>c DEF SInv, ListsMatchHandshake
    <2>5. sub'[b] # Nil /\ sub'[b].client_id = client_id[k] /\ cb_data'[b] = k
      <3>1. sub'[b] = [client_id |-> client_id[k], filter |-> f]
        BY <2>1, <2>t
      <3>2. sub'[b] \in SubRec
        BY <1>c, <3>1 DEF SubRec
      <3> QED BY <1>2, <2>t, <3>1, <3>2, NilAssumption
    <2>6. \A a \in SubIds \ {b} : sub'[a] = sub[a] /\ cb_data'[a] = cb_data[a]
      BY <1>2, <2>1, <2>t
    <2>7. SubsReportToLiveConns'
      <3>1. ASSUME NEW a \in SubIds, sub'[a] # Nil
            PROVE  /\ cb_data'[a] \in clientful_conns'
                   /\ client_id'[cb_data'[a]] = sub'[a].client_id
        BY <1>2, <2>4, <2>5, <2>6, <3>1 DEF SInv, SubsReportToLiveConns
      <3>2. ASSUME NEW l \in ProtoConns, NEW a \in SubIds
            PROVE  a \in sub_tas'[l] <=> sub'[a] # Nil /\ cb_data'[a] = l
        <4>1. a \in sub_tas[l] <=> sub[a] # Nil /\ cb_data[a] = l
          BY DEF SInv, SubsReportToLiveConns
        <4>2. a \in sub_tas'[l] <=> a \in sub_tas[l] \/ (a = b /\ l = k)
          BY <1>2, <2>t
        <4> QED BY <2>1, <2>5, <2>6, <4>1, <4>2
      <3> QED BY <3>1, <3>2 DEF SubsReportToLiveConns
    <2> QED BY <2>2, <2>3, <2>7 DEF SInv
  <1> QED BY <1>1, <1>2 DEF handle_subscribe

LEMMA UnsubscribeSInv ==
    ASSUME SInv, DbInv, NEW k \in ProtoConns, NEW b \in SubIds, handle_unsubscribe(k, b)
    PROVE  SInv'
  <1>c. client_id[k] \in Clients /\ client_id[k] # Nil
    BY IdIsClient DEF SInv, handle_unsubscribe, Ready
  <1>1. CASE client_unsubscribe_rejected(client_id[k], b) /\ UNCHANGED <<connVars, cb_data>>
    BY <1>1, SInvUnchanged DEF client_unsubscribe_rejected, Unchanged_db
  <1>2. ASSUME client_unsubscribe(client_id[k], b),
               sub_tas' = [sub_tas EXCEPT ![k] = @ \ {b}],
               cb_data' = cb_data_of_subs,
               UNCHANGED <<clientless_conns, clientful_conns, client_id, established_at>>
        PROVE  SInv'
    <2>1. /\ active' = active /\ sub[b] # Nil
          /\ sub' = [sub EXCEPT ![b] = Nil]
          /\ b \in subs[active[client_id[k]]]
      BY <1>2 DEF client_unsubscribe
    <2>t. /\ sub \in [SubIds -> SubRec \cup {Nil}]
          /\ sub_tas \in [ProtoConns -> SUBSET SubIds]
          /\ cb_data \in [SubIds -> ProtoConns \cup {Nil}]
      BY DEF SInv, ServerTypeOK, DbInv, TypeOK
    <2>2. ServerTypeOK'
      BY <1>2 DEF SInv, ServerTypeOK, cb_data_of_subs
    <2>3. ListsMatchHandshake' /\ SessionsMatchDatabase'
      BY <1>2, <2>1 DEF SInv, ListsMatchHandshake, SessionsMatchDatabase
    <2>4. cb_data[b] = k
      <3>1. k \in clientful_conns
        BY <1>c DEF SInv, ListsMatchHandshake
      <3>2. cb_data[b] \in clientful_conns /\ client_id[cb_data[b]] = sub[b].client_id
        BY <2>1 DEF SInv, SubsReportToLiveConns
      <3>3. sub[b].client_id = client_id[k]
        <4>1. sub[b].client_id \in Clients
          BY <2>1, <2>t DEF SubRec
        <4>2. active[client_id[k]] \in Conns
          BY <1>2, <1>c DEF client_unsubscribe, DbInv, TypeOK
        <4>3. active[client_id[k]] = active[sub[b].client_id]
          BY <2>1, <4>2 DEF DbInv, SubsOfActiveConns
        <4>4. \A d, e \in Clients : d # e => client_conns(d) \cap client_conns(e) = {}
          BY DEF DbInv, ConnOwnership
        <4>5. \A d \in Clients : active[d] # Nil => active[d] \in client_conns(d)
          BY DEF client_conns
        <4> QED BY <1>c, <4>1, <4>2, <4>3, <4>4, <4>5, NilAssumption
      <3> QED BY <3>1, <3>2, <3>3 DEF SInv, SessionsMatchDatabase
    <2>5. sub'[b] = Nil /\ cb_data'[b] = Nil
      BY <1>2, <2>1, <2>t DEF cb_data_of_subs
    <2>6. ASSUME NEW a \in SubIds \ {b}
          PROVE  sub'[a] = sub[a] /\ (sub[a] # Nil => cb_data'[a] = cb_data[a])
      BY <1>2, <2>1, <2>t DEF cb_data_of_subs
    <2>7. SubsReportToLiveConns'
      <3>1. ASSUME NEW a \in SubIds, sub'[a] # Nil
            PROVE  /\ cb_data'[a] \in clientful_conns'
                   /\ client_id'[cb_data'[a]] = sub'[a].client_id
        BY <1>2, <2>5, <2>6, <3>1 DEF SInv, SubsReportToLiveConns
      <3>2. ASSUME NEW l \in ProtoConns, NEW a \in SubIds
            PROVE  a \in sub_tas'[l] <=> sub'[a] # Nil /\ cb_data'[a] = l
        <4>1. a \in sub_tas[l] <=> sub[a] # Nil /\ cb_data[a] = l
          BY DEF SInv, SubsReportToLiveConns
        <4>2. a \in sub_tas'[l] <=> a \in sub_tas[l] /\ ~(a = b /\ l = k)
          BY <1>2, <2>t
        <4> QED BY <2>4, <2>5, <2>6, <4>1, <4>2
      <3> QED BY <3>1, <3>2 DEF SubsReportToLiveConns
    <2> QED BY <2>2, <2>3, <2>7 DEF SInv
  <1> QED BY <1>1, <1>2 DEF handle_unsubscribe

\* The fields and the list places of destroyed connections K.
LEMMA DestroyEffect ==
    ASSUME SInv, NEW K \in SUBSET ProtoConns, proto_conn_destroy(K)
    PROVE  /\ client_id' \in [ProtoConns -> Clients \cup {Nil}]
           /\ established_at' \in [ProtoConns -> 0..MaxTime]
           /\ sub_tas' \in [ProtoConns -> SUBSET SubIds]
           /\ \A k \in K : client_id'[k] = Nil /\ sub_tas'[k] = {}
           /\ \A k \in ProtoConns \ K : client_id'[k] = client_id[k]
                                        /\ sub_tas'[k] = sub_tas[k]
  BY NumbersAssumption DEF SInv, ServerTypeOK, proto_conn_destroy

LEMMA TermSInv ==
    ASSUME SInv, DbInv, NEW k \in ProtoConns, term(k)
    PROVE  SInv'
  <1>1. /\ client_id' \in [ProtoConns -> Clients \cup {Nil}]
        /\ established_at' \in [ProtoConns -> 0..MaxTime]
        /\ sub_tas' \in [ProtoConns -> SUBSET SubIds]
        /\ client_id'[k] = Nil /\ sub_tas'[k] = {}
        /\ \A l \in ProtoConns \ {k} : client_id'[l] = client_id[l]
                                       /\ sub_tas'[l] = sub_tas[l]
    BY DestroyEffect DEF term, conn_term_cb
  <1>2. clientless_conns' = clientless_conns \ {k} /\ clientful_conns' = clientful_conns \ {k}
    BY DEF term, conn_term_cb, SInv, ListsMatchHandshake
  <1>3. cb_data' = cb_data_of_subs
    BY DEF term
  <1>t. /\ client_id \in [ProtoConns -> Clients \cup {Nil}]
        /\ clientful_conns \subseteq ProtoConns
        /\ cb_data \in [SubIds -> ProtoConns \cup {Nil}]
    BY DEF SInv, ServerTypeOK
  <1>4. ServerTypeOK'
    BY <1>1, <1>2, <1>3 DEF SInv, ServerTypeOK, cb_data_of_subs
  <1>5. ListsMatchHandshake'
    BY <1>1, <1>2 DEF SInv, ListsMatchHandshake
  <1>6. ASSUME client_id[k] = Nil
        PROVE  SessionsMatchDatabase' /\ SubsReportToLiveConns'
    <2>1. active' = active /\ sub' = sub
      BY <1>6 DEF term, vars
    <2>2. clientful_conns' = clientful_conns /\ \A l \in clientful_conns : client_id'[l] = client_id[l]
      BY <1>1, <1>2, <1>6, <1>t DEF SInv, ListsMatchHandshake
    <2>3. SessionsMatchDatabase'
      BY <2>1, <2>2 DEF SInv, SessionsMatchDatabase
    <2>4. \A b \in SubIds : sub[b] # Nil => cb_data'[b] = cb_data[b]
      BY <1>3, <2>1 DEF cb_data_of_subs
    <2>5. \A b \in SubIds : sub[b] # Nil => cb_data[b] # k
      BY <1>6, <2>2 DEF SInv, SubsReportToLiveConns, ListsMatchHandshake
    <2>6. SubsReportToLiveConns'
      BY <1>1, <1>2, <2>1, <2>2, <2>4, <2>5 DEF SInv, SubsReportToLiveConns
    <2> QED BY <2>3, <2>6
  <1>7. ASSUME client_id[k] # Nil
        PROVE  SessionsMatchDatabase' /\ SubsReportToLiveConns'
    <2> DEFINE c == client_id[k]
    <2>c. c \in Clients
      BY <1>7, <1>t
    <2>1. client_disconnect(c)
      BY <1>7 DEF term, sd_client_disconnect
    <2>2. /\ active'[c] = Nil
          /\ \A d \in Clients \ {c} : active'[d] = active[d]
          /\ \A b \in SubIds :
                sub'[b] = IF sub[b] # Nil /\ sub[b].client_id = c THEN Nil ELSE sub[b]
      BY <2>c, <2>1, DisconnectEffect
    <2>3. k \in clientful_conns /\ \A l \in clientful_conns \ {k} : client_id[l] # c
      BY <1>7 DEF SInv, ListsMatchHandshake, SessionsMatchDatabase
    <2>4. \A l \in clientful_conns' : client_id'[l] = client_id[l] /\ l \in clientful_conns \ {k}
      BY <1>1, <1>2, <1>t
    <2>5. SessionsMatchDatabase'
      <3>1. ASSUME NEW d \in Clients
            PROVE  active'[d] # Nil <=> \E l \in clientful_conns' : client_id'[l] = d
        <4>1. active[d] # Nil <=> \E l \in clientful_conns : client_id[l] = d
          BY DEF SInv, SessionsMatchDatabase
        <4>2. CASE d = c
          BY <2>2, <2>3, <2>4, <4>2
        <4>3. CASE d # c
          BY <1>2, <2>2, <2>4, <4>1, <4>3
        <4> QED BY <4>2, <4>3
      <3>2. \A l, m \in clientful_conns' : client_id'[l] = client_id'[m] => l = m
        BY <2>4 DEF SInv, SessionsMatchDatabase
      <3> QED BY <3>1, <3>2 DEF SessionsMatchDatabase
    <2>6. ASSUME NEW b \in SubIds, sub[b] # Nil
          PROVE  sub[b].client_id = c <=> cb_data[b] = k
      <3>1. cb_data[b] \in clientful_conns /\ client_id[cb_data[b]] = sub[b].client_id
        BY <2>6 DEF SInv, SubsReportToLiveConns
      <3> QED BY <2>3, <3>1
    <2>7. ASSUME NEW b \in SubIds, sub'[b] # Nil
          PROVE  sub[b] # Nil /\ sub'[b] = sub[b] /\ cb_data[b] # k /\ cb_data'[b] = cb_data[b]
      BY <1>3, <2>2, <2>6, <2>7 DEF cb_data_of_subs
    <2>8. SubsReportToLiveConns'
      <3>1. ASSUME NEW b \in SubIds, sub'[b] # Nil
            PROVE  /\ cb_data'[b] \in clientful_conns'
                   /\ client_id'[cb_data'[b]] = sub'[b].client_id
        <4>1. cb_data[b] \in clientful_conns /\ client_id[cb_data[b]] = sub[b].client_id
          BY <2>7, <3>1 DEF SInv, SubsReportToLiveConns
        <4> QED BY <1>2, <2>4, <2>7, <3>1, <4>1
      <3>2. ASSUME NEW l \in ProtoConns, NEW b \in SubIds
            PROVE  b \in sub_tas'[l] <=> sub'[b] # Nil /\ cb_data'[b] = l
        <4>1. b \in sub_tas[l] <=> sub[b] # Nil /\ cb_data[b] = l
          BY DEF SInv, SubsReportToLiveConns
        <4>2. CASE l = k
          BY <1>1, <2>7, <4>2
        <4>3. CASE l # k
          BY <1>1, <2>2, <2>6, <2>7, <4>1, <4>3
        <4> QED BY <4>2, <4>3
      <3> QED BY <3>1, <3>2 DEF SubsReportToLiveConns
    <2> QED BY <2>5, <2>8
  <1> QED BY <1>4, <1>5, <1>6, <1>7 DEF SInv

LEMMA CleanOutSInv ==
    ASSUME SInv, DbInv, clean_out_cb
    PROVE  SInv'
  <1> DEFINE K == {k \in ProtoConns : expired(k)}
  <1>1. active' = active /\ sub' = sub /\ cb_data' = cb_data
    BY DEF clean_out_cb, vars
  <1>2. /\ clientless_conns' = clientless_conns \ K
        /\ clientful_conns' = clientful_conns
        /\ proto_conn_destroy(K)
    BY DEF clean_out_cb
  <1>3. K \subseteq clientless_conns /\ K \subseteq ProtoConns
    BY DEF expired
  <1> HIDE DEF K
  <1>4. /\ client_id' \in [ProtoConns -> Clients \cup {Nil}]
        /\ established_at' \in [ProtoConns -> 0..MaxTime]
        /\ sub_tas' \in [ProtoConns -> SUBSET SubIds]
        /\ \A k \in K : client_id'[k] = Nil /\ sub_tas'[k] = {}
        /\ \A k \in ProtoConns \ K : client_id'[k] = client_id[k]
                                     /\ sub_tas'[k] = sub_tas[k]
    BY <1>2, <1>3, DestroyEffect
  <1>5. ServerTypeOK'
    BY <1>1, <1>2, <1>4 DEF SInv, ServerTypeOK
  <1>6. \A k \in K : k \notin clientful_conns /\ client_id[k] = Nil
    BY <1>3 DEF SInv, ListsMatchHandshake
  <1>7. \A k \in ProtoConns : client_id'[k] = client_id[k]
    BY <1>4, <1>6
  <1>8. ListsMatchHandshake'
    BY <1>2, <1>7 DEF SInv, ListsMatchHandshake
  <1>9. clientful_conns \subseteq ProtoConns
    BY DEF SInv, ServerTypeOK
  <1>10. SessionsMatchDatabase'
    BY <1>1, <1>2, <1>7, <1>9 DEF SInv, SessionsMatchDatabase
  <1>11. \A k \in ProtoConns : sub_tas'[k] = sub_tas[k]
    <2>1. ASSUME NEW k \in K PROVE sub_tas[k] = {}
      <3>1. k \in ProtoConns /\ sub_tas[k] \subseteq SubIds
        BY <1>3 DEF SInv, ServerTypeOK
      <3>2. ASSUME NEW b \in SubIds, b \in sub_tas[k] PROVE FALSE
        BY <1>6, <3>1, <3>2 DEF SInv, SubsReportToLiveConns
      <3> QED BY <3>1, <3>2
    <2> QED BY <1>4, <2>1
  <1>12. SubsReportToLiveConns'
    BY <1>1, <1>2, <1>7, <1>9, <1>11 DEF SInv, SubsReportToLiveConns
  <1> QED BY <1>5, <1>8, <1>10, <1>12 DEF SInv

LEMMA NextSInv ==
    ASSUME SInv, DbInv, [ServerNext]_serverVars
    PROVE  SInv'
  <1>1. CASE UNCHANGED serverVars
    BY <1>1, SInvUnchanged DEF serverVars, vars
  <1>2. ASSUME NEW k \in ProtoConns, ConnStep(k)
        PROVE  SInv'
    <2>1. CASE handle_publish(k)
      <3>1. sd_publish(client_id[k]) /\ client_id[k] \in Clients
        BY <2>1, IdIsClient DEF SInv, handle_publish, Ready
      <3> QED BY <2>1, <3>1, OtherEffect, SInvUnchanged DEF handle_publish
    <2>2. CASE handle_unpublish(k)
      <3>1. sd_unpublish(client_id[k]) /\ client_id[k] \in Clients
        BY <2>2, IdIsClient DEF SInv, handle_unpublish, Ready
      <3> QED BY <2>2, <3>1, OtherEffect, SInvUnchanged DEF handle_unpublish
    <2> QED BY <1>2, <2>1, <2>2, AcceptSInv, TermSInv, HelloSInv, SubscribeSInv,
               UnsubscribeSInv DEF ConnStep
  <1>3. CASE clean_out_cb
    BY <1>3, CleanOutSInv
  <1>4. CASE DatabaseStep
    <2>1. active' = active /\ sub' = sub
      BY <1>4, OtherEffect DEF DatabaseStep
    <2> QED BY <1>4, <2>1, SInvUnchanged DEF DatabaseStep
  <1> QED BY <1>1, <1>2, <1>3, <1>4 DEF ServerNext

-----------------------------------------------------------------------------
(* Theorems.                                                               *)

\* The inductive invariant: the database's, and the server's on top of it.
THEOREM ServerInductive == ServerSpec => [](IInv /\ SInv)
  <1>1. ServerInit => IInv /\ SInv
    BY InitSInv, InitIInv DEF ServerInit
  <1>2. IInv /\ SInv /\ [ServerNext]_serverVars => (IInv /\ SInv)'
    <2> SUFFICES ASSUME IInv, SInv, [ServerNext]_serverVars PROVE IInv' /\ SInv'
      OBVIOUS
    <2>1. [Next]_vars
      BY StepIsDatabaseStep DEF SInv
    <2>2. DbInv
      BY IInvImplies DEF DbInv
    <2> QED BY <2>1, <2>2, NextIInv, NextSInv
  <1> QED BY <1>1, <1>2, PTL DEF ServerSpec

\* The server drives the database only as ServiceDiscovery says, so that all
\* that is proved of the database holds of the daemon.
THEOREM ServerImplementsDatabase == ServerSpec => Spec
  <1>1. ServerInit => Init
    BY DEF ServerInit
  <1>2. SInv /\ [ServerNext]_serverVars => [Next]_vars
    BY StepIsDatabaseStep DEF SInv
  <1> QED BY <1>1, <1>2, ServerInductive, PTL DEF ServerSpec, Spec

\* The server's variables keep their types.
THEOREM ServerTypeCorrect == ServerSpec => []ServerTypeOK
  <1>1. SInv => ServerTypeOK
    BY DEF SInv
  <1> QED BY <1>1, ServerInductive, PTL

\* The connection lists of struct server are disjoint and agree with the
\* handshakes.
THEOREM ListsAgree == ServerSpec => []ListsMatchHandshake
  <1>1. SInv => ListsMatchHandshake
    BY DEF SInv
  <1> QED BY <1>1, ServerInductive, PTL

\* A client is connected in the database exactly while one connection, and
\* one only, speaks for it.
THEOREM SessionsAgree == ServerSpec => []SessionsMatchDatabase
  <1>1. SInv => SessionsMatchDatabase
    BY DEF SInv
  <1> QED BY <1>1, ServerInductive, PTL

\* No match is ever reported to a connection that is gone or to a transaction
\* that is not open.
THEOREM SubsAgree == ServerSpec => []SubsReportToLiveConns
  <1>1. SInv => SubsReportToLiveConns
    BY DEF SInv
  <1> QED BY <1>1, ServerInductive, PTL

\* A connection ends only when its peer breaks it or, without a handshake,
\* when it is overdue: the clean-out drops nobody else.
THEOREM CleanOutIsFair == ServerSpec => CleanOutOnlyOverdue
  <1> DEFINE Ends(k) == k \in Live /\ k \notin clientless_conns' \cup clientful_conns'
             Due(k) == k \notin clientful_conns /\ now > established_at[k] + MAX_HANDSHAKE_TIME
  <1>1. ASSUME IInv, SInv, ServerNext, NEW k \in ProtoConns, Ends(k)
        PROVE  term(k) \/ Due(k)
    <2>t. /\ now \in Nat /\ established_at[k] \in Nat
          /\ MAX_HANDSHAKE_TIME \in Nat
      BY <1>1, IInvImplies, HandshakeTimeAssumption, NumbersAssumption
         DEF SInv, ServerTypeOK, TypeOK
    <2>1. ASSUME NEW j \in ProtoConns, ConnStep(j)
          PROVE  term(k)
      <3>1. ASSUME ~term(j) PROVE Live \subseteq clientless_conns' \cup clientful_conns'
        BY <2>1, <3>1 DEF ConnStep, accept_cb, handle_hello, conn_handshake_cb, connVars,
            handle_subscribe, handle_unsubscribe, handle_publish, handle_unpublish, Live
      <3>2. ASSUME term(j) PROVE Live \ {j} \subseteq clientless_conns' \cup clientful_conns'
        BY <3>2 DEF term, conn_term_cb, Live
      <3> QED BY <1>1, <3>1, <3>2
    <2>2. CASE clean_out_cb
      <3>1. expired(k)
        BY <1>1, <2>2 DEF clean_out_cb, Live
      <3>2. k \notin clientful_conns
        BY <1>1, <3>1 DEF expired, SInv, ListsMatchHandshake
      <3> QED BY <2>t, <3>1, <3>2 DEF expired
    <2>3. CASE DatabaseStep
      BY <1>1, <2>3 DEF DatabaseStep, connVars, Live
    <2> QED BY <1>1, <2>1, <2>2, <2>3 DEF ServerNext
  <1>2. IInv /\ SInv /\ [ServerNext]_serverVars =>
      [\A k \in ProtoConns :
          k \in Live /\ k \notin clientless_conns' \cup clientful_conns' =>
              \/ term(k)
              \/ k \notin clientful_conns /\ now > established_at[k] + MAX_HANDSHAKE_TIME]_serverVars
    BY <1>1
  <1> QED BY <1>2, ServerInductive, PTL DEF ServerSpec, CleanOutOnlyOverdue
=============================================================================
