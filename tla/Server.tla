------------------------------- MODULE Server -------------------------------
(***************************************************************************)
(* A domain server of tpafd: the protocol connections of src/proto on top  *)
(* of the service discovery database.  Models server.c, and what the       *)
(* request handlers of proto_conn.c do to the database, to the list of     *)
(* connections and to the subscription transactions they keep.  What the   *)
(* handlers answer, and how the answers reach the client, is ProtoConn's.  *)
(*                                                                         *)
(* Every action is one callback of the event loop, so it takes the action  *)
(* of ServiceDiscovery for the sd_*() call it makes as a conjunct.         *)
(***************************************************************************)
EXTENDS ServiceDiscovery

CONSTANTS
    ProtoConns,        \* the struct proto_conn objects the heap can hold (a bound)
    MAX_HANDSHAKE_TIME \* how long a connection may take to say hello

ASSUME HandshakeTimeAssumption == MAX_HANDSHAKE_TIME \in Nat

ASSUME ServerNilAssumption == Nil \notin Clients /\ Nil \notin ProtoConns

VARIABLES
    clientless_conns,  \* connections that have not finished the handshake
    clientful_conns,   \* server->client_conns: connections that have
    client_id,         \* conn -> the client it speaks for, or Nil
    established_at,    \* conn -> when it was accepted
    sub_tas,           \* conn -> the subscriptions it has an open transaction for
    cb_data            \* sub id -> the conn its matches are reported to, or Nil

connVars == <<clientless_conns, clientful_conns, client_id, established_at, sub_tas>>
serverVars == <<vars, connVars, cb_data>>

ServerTypeOK ==
    /\ clientless_conns \in SUBSET ProtoConns
    /\ clientful_conns \in SUBSET ProtoConns
    /\ client_id \in [ProtoConns -> Clients \cup {Nil}]
    /\ established_at \in [ProtoConns -> 0..MaxTime]
    /\ sub_tas \in [ProtoConns -> SUBSET SubIds]
    /\ cb_data \in [SubIds -> ProtoConns \cup {Nil}]

-----------------------------------------------------------------------------
(* Accepting, dropping and destroying connections.                         *)

Live == clientless_conns \cup clientful_conns

has_finished_handshake(k) == client_id[k] # Nil

\* The fields of the conns K are gone with them.
proto_conn_destroy(K) ==
    /\ client_id' = [k \in ProtoConns |-> IF k \in K THEN Nil ELSE client_id[k]]
    /\ established_at' = [k \in ProtoConns |-> IF k \in K THEN 0 ELSE established_at[k]]
    /\ sub_tas' = [k \in ProtoConns |-> IF k \in K THEN {} ELSE sub_tas[k]]

\* The callback argument is a field of the subscription and goes with it.
cb_data_of_subs == [b \in SubIds |-> IF sub'[b] = Nil THEN Nil ELSE cb_data[b]]

\* accept() and proto_conn_create(), in any proto_conn that is not in use.
accept_cb(k) ==
    /\ k \in ProtoConns \ Live
    /\ clientless_conns' = clientless_conns \cup {k}
    /\ established_at' = [established_at EXCEPT ![k] = now]
    /\ UNCHANGED <<vars, clientful_conns, client_id, sub_tas, cb_data>>

conn_handshake_cb_KeepingClientless(k) ==
    /\ clientful_conns' = clientful_conns \cup {k}
    /\ UNCHANGED clientless_conns
conn_handshake_cb(k) ==
    /\ clientless_conns' = clientless_conns \ {k}
    /\ clientful_conns' = clientful_conns \cup {k}

conn_term_cb(k) ==
    /\ IF k \in clientless_conns
       THEN clientless_conns' = clientless_conns \ {k} /\ UNCHANGED clientful_conns
       ELSE clientful_conns' = clientful_conns \ {k} /\ UNCHANGED clientless_conns
    /\ proto_conn_destroy({k})

\* The peer has closed or broken the connection, or sent what is no request.
term_KeepingSession(k) ==
    /\ k \in Live
    /\ conn_term_cb(k)
    /\ UNCHANGED <<vars, cb_data>>
term(k) ==
    /\ k \in Live
    /\ IF has_finished_handshake(k) THEN sd_client_disconnect(client_id[k])
                                    ELSE UNCHANGED vars
    /\ cb_data' = cb_data_of_subs
    /\ conn_term_cb(k)

expired_AtLimit(k) ==
    k \in clientless_conns /\ now - established_at[k] >= MAX_HANDSHAKE_TIME
expired_Swapped(k) ==
    k \in clientless_conns /\ established_at[k] - now > MAX_HANDSHAKE_TIME

\* consider_disconnect(): the handshake has taken too long.
expired(k) == k \in clientless_conns /\ now - established_at[k] > MAX_HANDSHAKE_TIME

\* The periodic clean-out, when it finds connections that are overdue.
clean_out_cb ==
    LET K == {k \in ProtoConns : expired(k)}
    IN  /\ K # {}
        /\ clientless_conns' = clientless_conns \ K
        /\ proto_conn_destroy(K)
        /\ UNCHANGED <<vars, clientful_conns, cb_data>>

-----------------------------------------------------------------------------
(* Requests.                                                               *)

\* The hello of a connection that has not finished the handshake, with a
\* protocol version the server supports.
handle_hello(k, c) ==
    /\ k \in clientless_conns
    /\ ~has_finished_handshake(k)
    /\ sd_client_connect(c)
    /\ IF rc' = "OK"
       THEN /\ client_id' = [client_id EXCEPT ![k] = c]
            /\ conn_handshake_cb(k)
            /\ UNCHANGED <<established_at, sub_tas>>
       ELSE UNCHANGED connVars
    /\ UNCHANGED cb_data

\* handle_req() lets any other request through only after the handshake.
Ready(k) == k \in Live /\ has_finished_handshake(k)

handle_subscribe(k, b) ==
    /\ Ready(k)
    /\ \/ /\ \E f \in Filters : client_create_sub(client_id[k], b, f)
          /\ sub_tas' = [sub_tas EXCEPT ![k] = @ \cup {b}]
          /\ cb_data' = [cb_data EXCEPT ![b] = k]
          /\ UNCHANGED <<clientless_conns, clientful_conns, client_id, established_at>>
       \/ /\ client_create_sub_rejected(client_id[k], b)
          /\ UNCHANGED <<connVars, cb_data>>

handle_unsubscribe_KeepingTa(k, b) ==
    /\ Ready(k)
    /\ \/ client_unsubscribe(client_id[k], b)
       \/ client_unsubscribe_rejected(client_id[k], b)
    /\ cb_data' = cb_data_of_subs
    /\ UNCHANGED connVars
handle_unsubscribe(k, b) ==
    /\ Ready(k)
    /\ \/ /\ client_unsubscribe(client_id[k], b)
          /\ sub_tas' = [sub_tas EXCEPT ![k] = @ \ {b}]
          /\ cb_data' = cb_data_of_subs
          /\ UNCHANGED <<clientless_conns, clientful_conns, client_id, established_at>>
       \/ /\ client_unsubscribe_rejected(client_id[k], b)
          /\ UNCHANGED <<connVars, cb_data>>

handle_publish(k) ==
    /\ Ready(k)
    /\ sd_publish(client_id[k])
    /\ UNCHANGED <<connVars, cb_data>>

handle_unpublish(k) ==
    /\ Ready(k)
    /\ sd_unpublish(client_id[k])
    /\ UNCHANGED <<connVars, cb_data>>

-----------------------------------------------------------------------------
\* An orphan timer, or the clock: the database's own steps.
DatabaseStep ==
    /\ \/ \E s \in Services : TimerFires(s)
       \/ Tick
    /\ UNCHANGED <<connVars, cb_data>>

ServerInit ==
    /\ Init
    /\ clientless_conns = {}
    /\ clientful_conns = {}
    /\ client_id = [k \in ProtoConns |-> Nil]
    /\ established_at = [k \in ProtoConns |-> 0]
    /\ sub_tas = [k \in ProtoConns |-> {}]
    /\ cb_data = [b \in SubIds |-> Nil]

ConnStep(k) ==
    \/ accept_cb(k)
    \/ term(k)
    \/ \E c \in Clients : handle_hello(k, c)
    \/ \E b \in SubIds : handle_subscribe(k, b) \/ handle_unsubscribe(k, b)
    \/ handle_publish(k)
    \/ handle_unpublish(k)

ServerNext ==
    /\ ~aborted
    /\ \/ \E k \in ProtoConns : ConnStep(k)
       \/ clean_out_cb
       \/ DatabaseStep

ServerSpec == ServerInit /\ [][ServerNext]_serverVars

\* Time passes, the persistent clean-out timer keeps firing, and libevent
\* runs the callback of an orphan timer that is due.
ServerFairSpec ==
    /\ ServerSpec
    /\ WF_serverVars(~aborted /\ Tick /\ UNCHANGED <<connVars, cb_data>>)
    /\ WF_serverVars(~aborted /\ clean_out_cb)
    /\ \A s \in Services :
          WF_serverVars(~aborted /\ TimerFires(s) /\ UNCHANGED <<connVars, cb_data>>)

-----------------------------------------------------------------------------
(* Safety.                                                                 *)

\* The two lists are disjoint and a connection is in the one its client_id
\* says: conn_handshake_cb() and conn_term_cb() delete at the index they look
\* up without checking that there is one, and what is in neither list is free.
ListsMatchHandshake ==
    /\ clientless_conns \cap clientful_conns = {}
    /\ \A k \in ProtoConns : k \in clientful_conns <=> has_finished_handshake(k)

\* A client is connected in the database exactly while one connection speaks
\* for it, and never two: so no sd_*() call of a handler returns
\* SD_ERR_NO_SUCH_CLIENT, which every handler's switch asserts away, no two
\* connections act as one client, and a dropped connection frees its id.
SessionsMatchDatabase ==
    /\ \A c \in Clients :
          client_is_connected(c) <=> \E k \in clientful_conns : client_id[k] = c
    /\ \A k, l \in clientful_conns : client_id[k] = client_id[l] => k = l

\* A subscription reports its matches to a connection that is alive, speaks
\* for its client and holds an open transaction for it, and no transaction
\* is left behind: notify_sub_match() and handle_unsubscribe() use the
\* connection and the transaction they look up without a check.
SubsReportToLiveConns ==
    /\ \A b \in SubIds : sub[b] # Nil =>
          /\ cb_data[b] \in clientful_conns
          /\ client_id[cb_data[b]] = sub[b].client_id
    /\ \A k \in ProtoConns, b \in SubIds :
          b \in sub_tas[k] <=> sub[b] # Nil /\ cb_data[b] = k

\* A connection that ends without a hello was broken by its peer or has had
\* its time, and one that has said hello is never cleaned out.
CleanOutOnlyOverdue ==
    [][\A k \in ProtoConns :
          k \in Live /\ k \notin clientless_conns' \cup clientful_conns' =>
              \/ term(k)
              \/ k \notin clientful_conns /\ now > established_at[k] + MAX_HANDSHAKE_TIME]_serverVars

-----------------------------------------------------------------------------
(* Liveness.                                                               *)

\* A connection does not linger without a handshake (its time being up
\* within the horizon): it says hello, breaks or is cleaned out.
HandshakeOrDropped ==
    \A k \in ProtoConns :
        (k \in clientless_conns /\ established_at[k] + MAX_HANDSHAKE_TIME < MaxTime)
            ~> (k \notin clientless_conns \/ aborted)
=============================================================================
