-------------------------- MODULE ServiceDiscovery --------------------------
(***************************************************************************)
(* The service discovery database of tpafd: clients, their connections,    *)
(* the services they publish, the subscriptions they hold and the timers   *)
(* that purge orphaned services.  Models src/sd: sd.c, client.c, conn.c,   *)
(* db.c, service.c, generation.c and sub.c.                                *)
(*                                                                         *)
(* The daemon is single threaded: every sd_*() call and every timer        *)
(* callback runs to completion before the event loop dispatches the next   *)
(* one, so each is one action.  A failing ut_assert() kills the process    *)
(* (the asserts are not compiled out); aborted records that.               *)
(***************************************************************************)
EXTENDS Integers, FiniteSets

CONSTANTS
    Clients,      \* client ids
    Services,     \* service ids
    SubIds,       \* subscription ids
    Conns,        \* the struct conn objects the heap can hold (a bound)
    Generations,  \* generation numbers clients publish
    Props,        \* service property sets, up to props_equal()
    Filters,      \* what a filter means: the set of the Props it matches
    TTLs,         \* times to live clients publish
    MaxTime,      \* horizon of the clock (a bound)
    Nil           \* C's NULL: no service, no sub, no conn, no timer

ServiceRec == [generation: Generations, props: Props, ttl: TTLs,
               orphan_since: Int, client_id: Clients]
SubRec == [client_id: Clients, filter: Filters]

ASSUME NumbersAssumption ==
    /\ Generations \subseteq Nat
    /\ TTLs \subseteq Nat
    /\ MaxTime \in Nat

ASSUME FiltersAssumption == Filters \subseteq SUBSET Props

ASSUME NilAssumption ==
    /\ Nil \notin Conns
    /\ Nil \notin Nat
    /\ Nil \notin ServiceRec
    /\ Nil \notin SubRec

VARIABLES
    known,     \* db->clients: the client ids in the database
    active,    \* client -> its active_conn, or Nil
    inactive,  \* client -> its inactive_conns
    held,      \* conn -> the services map of the conn
    subs,      \* conn -> the subs map of the conn
    service,   \* db->services: service id -> current generation, or Nil
    sub,       \* db->subs: sub id -> subscription, or Nil
    timer,     \* sd->orphans: service id -> expiry time of its timer, or Nil
    now,       \* ut_ftime()
    rc,        \* what the last sd_*() call returned
    aborted,   \* a ut_assert() has failed
    view       \* auxiliary: what the match callbacks have told each subscriber

vars == <<known, active, inactive, held, subs, service, sub, timer, now, rc,
          aborted, view>>

-----------------------------------------------------------------------------
(* What a subscriber that replays its match notifications knows of a       *)
(* service.  "unpublished" and "expired" are what it concludes from a      *)
(* disappearance, by whether the service was last reported as an orphan;   *)
(* "garbled" records a notification that makes no sense where it arrives.  *)

ViewState == {"unseen", "present", "unpublished", "expired", "garbled"}
ViewEntry == [state: ViewState, data: ServiceRec \cup {Nil}]

Seen(st) == [state |-> st, data |-> Nil]
Unseen == [s \in Services |-> Seen("unseen")]

\* sd_err.h.
ReturnCodes == {"OK", "CLIENT_ALREADY_EXISTS", "NO_SUCH_CLIENT",
                "SAME_GENERATION_BUT_DIFFERENT_DATA",
                "NEWER_SERVICE_GENERATION_EXISTS", "NO_SUCH_SERVICE",
                "INVALID_FILTER", "SUB_ALREADY_EXISTS", "NO_SUCH_SUB",
                "PERM_DENIED"}

TypeOK ==
    /\ known \in SUBSET Clients
    /\ active \in [Clients -> Conns \cup {Nil}]
    /\ inactive \in [Clients -> SUBSET Conns]
    /\ held \in [Conns -> SUBSET Services]
    /\ subs \in [Conns -> SUBSET SubIds]
    /\ service \in [Services -> ServiceRec \cup {Nil}]
    /\ sub \in [SubIds -> SubRec \cup {Nil}]
    /\ timer \in [Services -> Nat \cup {Nil}]
    /\ now \in 0..MaxTime
    /\ rc \in ReturnCodes
    /\ aborted \in BOOLEAN
    /\ view \in [SubIds -> [Services -> ViewEntry]]

-----------------------------------------------------------------------------
(* Clients and their connections.                                          *)

client_is_connected(c) == active[c] # Nil

\* All connections of a client, the active one first in the code's order.
client_conns(c) == inactive[c] \cup (IF active[c] = Nil THEN {} ELSE {active[c]})

\* malloc() can return any struct conn that is not in use.
FreeConns == Conns \ UNION {client_conns(c) : c \in Clients}

\* The conn of client c that holds service s in the services maps h: empty
\* when the code's search returns NULL.  The code returns the first hit;
\* ServiceHeldOnce says there is never a second one.
get_service_conn(h, c, s) == {k \in client_conns(c) : s \in h[k]}

\* conn_is_stale() for an inactive conn, and client_is_stale() for a client
\* with active conn a and inactive conns I, both under the services maps h.
conn_is_stale_Never(h, k) == FALSE
conn_is_stale(h, k) == h[k] = {}
client_is_stale_IgnoringInactive(h, a, I) == a = Nil
client_is_stale(h, a, I) == a = Nil /\ \A k \in I : conn_is_stale(h, k)

conn_del_service(h, K, s) == [k \in Conns |-> IF k \in K THEN h[k] \ {s} ELSE h[k]]
conn_add_service(h, k, s) == [h EXCEPT ![k] = @ \cup {s}]

-----------------------------------------------------------------------------
(* Services: an attribute record while published, and how a change of it   *)
(* reaches the subscribers and the orphan timers.                          *)

service_is_orphan(r) == r # Nil /\ r.orphan_since >= 0

service_orphan_time_left_Elapsed(r) == 0
service_orphan_time_left(r) ==
    LET left == r.ttl - (now - r.orphan_since)
    IN  IF left < 0 THEN 0 ELSE left

\* The generation a client's publish request commits.
Published_Swapped(c, g, p, t) ==
    [generation |-> t, props |-> p, ttl |-> g, orphan_since |-> -1,
     client_id |-> c]
Published(c, g, p, t) ==
    [generation |-> g, props |-> p, ttl |-> t, orphan_since |-> -1,
     client_id |-> c]

matches(f, r) == r # Nil /\ r.props \in f

match_type_NoAppear(f, before, after) ==
    CASE ~matches(f, before) /\ ~matches(f, after) -> "none"
      [] matches(f, before) /\ ~matches(f, after)  -> "disappeared"
      [] before # Nil /\ matches(f, after)         -> "modified"
      [] before = Nil /\ matches(f, after)         -> "appeared"

\* Which notification a change of a service from before to after yields.
\* An addition has no before and a removal no after.
match_type(f, before, after) ==
    CASE ~matches(f, before) /\ ~matches(f, after) -> "none"
      [] matches(f, before) /\ matches(f, after)   -> "modified"
      [] ~matches(f, before) /\ matches(f, after)  -> "appeared"
      [] matches(f, before) /\ ~matches(f, after)  -> "disappeared"

\* A subscriber's reading of a notification, given what it knows already.
Replay(entry, type, after) ==
    CASE type = "none" -> entry
      [] type = "appeared" /\ entry.state # "present" ->
            [state |-> "present", data |-> after]
      [] type = "modified" /\ entry.state = "present" ->
            [state |-> "present", data |-> after]
      [] type = "disappeared" /\ entry.state = "present" ->
            Seen(IF service_is_orphan(entry.data) THEN "expired" ELSE "unpublished")
      [] OTHER -> Seen("garbled")

sub_notify(entry, f, before, after) ==
    Replay(entry, match_type(f, before, after), after)

\* The notifications sent to the subscriptions B of the database for the
\* changes of the services S.
notify_subs(v, B, S, before, after) ==
    [b \in SubIds |->
        IF B[b] = Nil THEN v[b]
        ELSE [s \in Services |->
                IF s \in S THEN sub_notify(v[b][s], B[b].filter, before[s], after[s])
                ELSE v[b][s]]]

maintain_orphans_NoRemove(t, S, before, after) ==
    [s \in Services |->
        IF s \in S /\ service_is_orphan(after[s])
        THEN now + service_orphan_time_left(after[s]) ELSE t[s]]
maintain_orphans_NoAdd(t, S, before, after) ==
    [s \in Services |-> IF s \in S THEN Nil ELSE t[s]]

\* What maintain_orphans() does to the timers t: one is added or restarted
\* for a service that is now an orphan and deleted for one that was.
maintain_orphans(t, S, before, after) ==
    [s \in Services |->
        IF s \notin S THEN t[s]
        ELSE IF service_is_orphan(after[s])
             THEN now + service_orphan_time_left(after[s])
             ELSE IF service_is_orphan(before[s]) THEN Nil ELSE t[s]]

\* service_commit() and the service_changed() callback it ends in.
service_commit(S, after) ==
    /\ service' = after
    /\ timer' = maintain_orphans(timer, S, service, after)
    /\ view' = notify_subs(view, sub, S, service, after)

-----------------------------------------------------------------------------
(* Connecting and disconnecting.                                           *)

Unchanged_db == UNCHANGED <<held, subs, service, sub, timer, view>>

Return(code) == rc' = code

client_connect(c) ==
    /\ c \notin known
    /\ \E k \in FreeConns : active' = [active EXCEPT ![c] = k]
    /\ known' = known \cup {c}
    /\ Return("OK")
    /\ Unchanged_db
    /\ UNCHANGED <<inactive, now, aborted>>

client_reconnect_ReusingConn(c) ==
    /\ c \in known
    /\ ~client_is_connected(c)
    /\ \E k \in inactive[c] : /\ active' = [active EXCEPT ![c] = k]
                             /\ inactive' = [inactive EXCEPT ![c] = @ \ {k}]
    /\ Return("OK")
    /\ Unchanged_db
    /\ UNCHANGED <<known, now, aborted>>
client_reconnect(c) ==
    /\ c \in known
    /\ ~client_is_connected(c)
    /\ \E k \in FreeConns : active' = [active EXCEPT ![c] = k]
    /\ Return("OK")
    /\ Unchanged_db
    /\ UNCHANGED <<known, inactive, now, aborted>>

client_reconnect_rejected(c) ==
    /\ c \in known
    /\ client_is_connected(c)
    /\ Return("CLIENT_ALREADY_EXISTS")
    /\ Unchanged_db
    /\ UNCHANGED <<known, active, inactive, now, aborted>>

\* A call on behalf of a client that is not in the database.
no_such_client(c) ==
    /\ c \notin known
    /\ Return("NO_SUCH_CLIENT")
    /\ Unchanged_db
    /\ UNCHANGED <<known, active, inactive, now, aborted>>

\* The subscriptions go first, so the client is not told of its own orphans;
\* then every service of the conn becomes an orphan; then an empty conn and a
\* client with nothing left are destroyed.
client_disconnect(c) ==
    /\ client_is_connected(c)
    /\ LET k == active[c]
           S == held[k]
           I == IF conn_is_stale(held, k) THEN inactive[c] ELSE inactive[c] \cup {k}
           B == [b \in SubIds |-> IF b \in subs[k] THEN Nil ELSE sub[b]]
           V == [b \in SubIds |-> IF b \in subs[k] THEN Unseen ELSE view[b]]
           after == [s \in Services |->
                        IF s \in S THEN [service[s] EXCEPT !.orphan_since = now]
                        ELSE service[s]]
           gone == client_is_stale(held, Nil, I)
       IN  /\ sub' = B
           /\ subs' = [subs EXCEPT ![k] = {}]
           /\ service' = after
           /\ timer' = maintain_orphans(timer, S, service, after)
           /\ view' = notify_subs(V, B, S, service, after)
           /\ active' = [active EXCEPT ![c] = Nil]
           /\ inactive' = [inactive EXCEPT ![c] = IF gone THEN {} ELSE I]
           /\ known' = IF gone THEN known \ {c} ELSE known
    /\ Return("OK")
    /\ UNCHANGED <<held, now, aborted>>
-----------------------------------------------------------------------------
(* Publishing and unpublishing.                                            *)

\* The two tests of client_publish() on a service r that exists.
newer_generation_OrSame(g, r) == g >= r.generation
newer_generation(g, r) == g > r.generation
same_data(p, t, r) == p = r.props /\ t = r.ttl

\* Whether client c has to adopt service r: another owner's, or an orphan.
adopts_OthersOnly(c, r) == r.client_id # c
adopts(c, r) == r.client_id # c \/ service_is_orphan(r)

Adopted(c, r) == [r EXCEPT !.orphan_since = -1, !.client_id = c]

\* Moves service s from the conn of its owner to the active conn of client c.
\* The victim conn stays, and so does its client, even when nothing is left.
capture_service_KeepingVictim(c, s) == conn_add_service(held, active[c], s)
capture_service(c, s) ==
    conn_add_service(
        conn_del_service(held, get_service_conn(held, service[s].client_id, s), s),
        active[c], s)

\* The conns' services maps after client c has taken over service s, if it
\* is not the owner already.
TakenOver(c, s) ==
    IF service[s].client_id # c THEN capture_service(c, s) ELSE held

publish_new(c, s, g, p, t) ==
    /\ client_is_connected(c)
    /\ service[s] = Nil
    /\ service_commit({s}, [service EXCEPT ![s] = Published(c, g, p, t)])
    /\ held' = conn_add_service(held, active[c], s)
    /\ Return("OK")
    /\ UNCHANGED <<known, active, inactive, subs, sub, now, aborted>>

publish_newer_generation(c, s, g, p, t) ==
    /\ client_is_connected(c)
    /\ service[s] # Nil
    /\ newer_generation(g, service[s])
    /\ held' = TakenOver(c, s)
    /\ service_commit({s}, [service EXCEPT ![s] = Published(c, g, p, t)])
    /\ Return("OK")
    /\ UNCHANGED <<known, active, inactive, subs, sub, now, aborted>>

\* The same data again: adopts the service when it has another owner or is
\* an orphan ("old parent is back"), and does nothing otherwise.
publish_same_generation(c, s, g, p, t) ==
    /\ client_is_connected(c)
    /\ service[s] # Nil
    /\ g = service[s].generation
    /\ same_data(p, t, service[s])
    /\ IF adopts(c, service[s])
       THEN service_commit({s}, [service EXCEPT ![s] = Adopted(c, @)])
       ELSE UNCHANGED <<service, timer, view>>
    /\ held' = TakenOver(c, s)
    /\ Return("OK")
    /\ UNCHANGED <<known, active, inactive, subs, sub, now, aborted>>

publish_rejected(c, s, g, p, t) ==
    /\ client_is_connected(c)
    /\ service[s] # Nil
    /\ \/ /\ g = service[s].generation
          /\ ~same_data(p, t, service[s])
          /\ Return("SAME_GENERATION_BUT_DIFFERENT_DATA")
       \/ /\ g < service[s].generation
          /\ Return("NEWER_SERVICE_GENERATION_EXISTS")
    /\ Unchanged_db
    /\ UNCHANGED <<known, active, inactive, now, aborted>>

client_publish(c, s, g, p, t) ==
    \/ publish_new(c, s, g, p, t)
    \/ publish_newer_generation(c, s, g, p, t)
    \/ publish_same_generation(c, s, g, p, t)
    \/ publish_rejected(c, s, g, p, t)

\* Deletes service s, held by client c in the services maps h, together with
\* the conn and the client that are left with nothing.  r and t and v are the
\* service, the timers and the views as they are just before the removal.
remove_service(c, s, h, r, t, v) ==
    LET K == get_service_conn(h, c, s)
        H == conn_del_service(h, K, s)
        before == [service EXCEPT ![s] = r]
        after == [service EXCEPT ![s] = Nil]
        I == {k \in inactive[c] : ~(k \in K /\ conn_is_stale(H, k))}
        gone == client_is_stale(H, active[c], I)
    IN  /\ held' = H
        /\ inactive' = [inactive EXCEPT ![c] = IF gone THEN {} ELSE I]
        /\ known' = IF gone THEN known \ {c} ELSE known
        /\ service' = after
        /\ timer' = maintain_orphans(t, {s}, before, after)
        /\ view' = notify_subs(v, sub, {s}, before, after)

\* Unpublishing a service of another client, or an orphan, republishes it
\* first: the subscribers see it owned again before it disappears.
client_unpublish(c, s) ==
    /\ client_is_connected(c)
    /\ service[s] # Nil
    /\ LET r == service[s]
           republished == [service EXCEPT ![s] = Adopted(c, r)]
       IN  IF adopts(c, r)
           THEN remove_service(c, s, TakenOver(c, s), Adopted(c, r),
                    maintain_orphans(timer, {s}, service, republished),
                    notify_subs(view, sub, {s}, service, republished))
           ELSE remove_service(c, s, held, r, timer, view)
    /\ Return("OK")
    /\ UNCHANGED <<active, subs, sub, now, aborted>>

client_unpublish_rejected(c, s) ==
    /\ client_is_connected(c)
    /\ service[s] = Nil
    /\ Return("NO_SUCH_SERVICE")
    /\ Unchanged_db
    /\ UNCHANGED <<known, active, inactive, now, aborted>>

-----------------------------------------------------------------------------
(* Subscribing.  sd_create_sub() and sd_activate_sub() are called in one   *)
(* request handler, so nothing happens between them.                       *)

client_create_sub(c, b, f) ==
    /\ client_is_connected(c)
    /\ sub[b] = Nil
    /\ sub' = [sub EXCEPT ![b] = [client_id |-> c, filter |-> f]]
    /\ view' = [view EXCEPT ![b] =
            [s \in Services |-> sub_notify(view[b][s], f, Nil, service[s])]]
    /\ subs' = [subs EXCEPT ![active[c]] = @ \cup {b}]
    /\ Return("OK")
    /\ UNCHANGED <<known, active, inactive, held, service, timer, now, aborted>>

client_create_sub_rejected(c, b) ==
    /\ client_is_connected(c)
    /\ \/ Return("INVALID_FILTER")
       \/ sub[b] # Nil /\ Return("SUB_ALREADY_EXISTS")
    /\ Unchanged_db
    /\ UNCHANGED <<known, active, inactive, now, aborted>>

client_unsubscribe_Anyones(c, b) ==
    /\ client_is_connected(c)
    /\ sub[b] # Nil
    /\ subs' = [subs EXCEPT ![active[c]] = @ \ {b}]
    /\ sub' = [sub EXCEPT ![b] = Nil]
    /\ view' = [view EXCEPT ![b] = Unseen]
    /\ Return("OK")
    /\ UNCHANGED <<known, active, inactive, held, service, timer, now, aborted>>
client_unsubscribe(c, b) ==
    /\ client_is_connected(c)
    /\ sub[b] # Nil
    /\ b \in subs[active[c]]
    /\ subs' = [subs EXCEPT ![active[c]] = @ \ {b}]
    /\ sub' = [sub EXCEPT ![b] = Nil]
    /\ view' = [view EXCEPT ![b] = Unseen]
    /\ Return("OK")
    /\ UNCHANGED <<known, active, inactive, held, service, timer, now, aborted>>

client_unsubscribe_rejected(c, b) ==
    /\ client_is_connected(c)
    /\ \/ sub[b] = Nil /\ Return("NO_SUCH_SUB")
       \/ /\ sub[b] # Nil
          /\ b \notin subs[active[c]]
          /\ Return("PERM_DENIED")
    /\ Unchanged_db
    /\ UNCHANGED <<known, active, inactive, now, aborted>>

-----------------------------------------------------------------------------
(* Time and the orphan timers.                                             *)

Tick ==
    /\ now < MaxTime
    /\ now' = now + 1
    /\ Unchanged_db
    /\ UNCHANGED <<known, active, inactive, rc, aborted>>

TimerDue(s) == timer[s] # Nil /\ now >= timer[s]

\* A due timer fires some time after its expiry, as the event loop gets to it.
orphan_timeout_cb(s) ==
    /\ TimerDue(s)
    /\ ~client_is_connected(service[s].client_id)
    /\ remove_service(service[s].client_id, s, held, service[s], timer, view)
    /\ UNCHANGED <<active, subs, sub, now, rc, aborted>>

\* client_purge_orphan() asserts that the owner is not connected.
purge_orphan_assert_fails(s) ==
    /\ TimerDue(s)
    /\ client_is_connected(service[s].client_id)
    /\ aborted' = TRUE
    /\ Unchanged_db
    /\ UNCHANGED <<known, active, inactive, now, rc>>

-----------------------------------------------------------------------------
Init ==
    /\ known = {}
    /\ active = [c \in Clients |-> Nil]
    /\ inactive = [c \in Clients |-> {}]
    /\ held = [k \in Conns |-> {}]
    /\ subs = [k \in Conns |-> {}]
    /\ service = [s \in Services |-> Nil]
    /\ sub = [b \in SubIds |-> Nil]
    /\ timer = [s \in Services |-> Nil]
    /\ now = 0
    /\ rc = "OK"
    /\ aborted = FALSE
    /\ view = [b \in SubIds |-> Unseen]

sd_client_connect(c) ==
    client_connect(c) \/ client_reconnect(c) \/ client_reconnect_rejected(c)

sd_client_disconnect(c) == client_disconnect(c)

sd_publish(c) ==
    \E s \in Services, g \in Generations, p \in Props, t \in TTLs :
        client_publish(c, s, g, p, t)

sd_unpublish(c) ==
    \E s \in Services : client_unpublish(c, s) \/ client_unpublish_rejected(c, s)

sd_subscribe(c) ==
    \E b \in SubIds :
        \/ \E f \in Filters : client_create_sub(c, b, f)
        \/ client_create_sub_rejected(c, b)

sd_unsubscribe(c) ==
    \E b \in SubIds : client_unsubscribe(c, b) \/ client_unsubscribe_rejected(c, b)

\* One call on behalf of a client.
Request(c) ==
    \/ sd_client_connect(c)
    \/ sd_client_disconnect(c)
    \/ sd_publish(c)
    \/ sd_unpublish(c)
    \/ sd_subscribe(c)
    \/ sd_unsubscribe(c)
    \/ no_such_client(c)

Next ==
    /\ ~aborted
    /\ \/ \E c \in Clients : Request(c)
       \/ \E s \in Services : orphan_timeout_cb(s)
       \/ \E s \in Services : purge_orphan_assert_fails(s)
       \/ Tick

Spec == Init /\ [][Next]_vars

\* What the callback of an orphan timer does when it is due.
TimerFires(s) == orphan_timeout_cb(s) \/ purge_orphan_assert_fails(s)

-----------------------------------------------------------------------------
(* Safety.                                                                 *)

\* Every struct conn has at most one owner and one role, a client is in the
\* database exactly while it has a conn, and a conn that is free holds
\* nothing: client_disconnect(), remove_service() and the garbage collection
\* they end in neither lose a conn nor free one that is still in use.
ConnOwnership ==
    /\ \A c \in Clients : /\ active[c] \notin inactive[c]
                          /\ c \in known <=> client_conns(c) # {}
    /\ \A c, d \in Clients : c # d => client_conns(c) \cap client_conns(d) = {}
    /\ \A k \in FreeConns : held[k] = {} /\ subs[k] = {}

\* A published service is in the services map of exactly one conn, a conn of
\* the client it names as its owner, and a conn holds no other services.
\* capture_service() and remove_service() dereference that client and that
\* conn without a check.
ServiceHeldOnce ==
    \A s \in Services :
        /\ service[s] # Nil =>
              \E k \in client_conns(service[s].client_id) : s \in held[k]
        /\ \A k \in Conns : s \in held[k] => service[s] # Nil
        /\ \A k, l \in Conns : s \in held[k] /\ s \in held[l] => k = l

\* An orphan is never held by an active conn: the services client_disconnect()
\* orphans were not orphans, so maintain_orphans() never has to restart a
\* timer that is running.
OrphansInInactiveConns ==
    \A c \in Clients : client_is_connected(c) =>
        \A s \in held[active[c]] : ~service_is_orphan(service[s])

\* maintain_orphans() keeps a timer for every orphan and for no other
\* service, set to expire when the TTL has passed since the disconnect.
OrphanTimerArmed ==
    \A s \in Services :
        timer[s] = IF service_is_orphan(service[s])
                   THEN service[s].orphan_since + service[s].ttl ELSE Nil

\* The database and the conns agree on the subscriptions: each one is in the
\* subs map of exactly the active conn of the client that made it, so none
\* outlives its connection.
SubsOfActiveConns ==
    \A b \in SubIds :
        /\ sub[b] # Nil => /\ client_is_connected(sub[b].client_id)
                          /\ b \in subs[active[sub[b].client_id]]
        /\ \A k \in Conns : b \in subs[k] =>
              sub[b] # Nil /\ k = active[sub[b].client_id]

\* A subscriber that replays its notifications knows exactly the services
\* that match its filter, with their current attributes, and never gets a
\* notification that makes no sense (an appearance of what it has already, a
\* modification or disappearance of what it has not).
SubscriberViewExact ==
    \A b \in SubIds, s \in Services :
        IF sub[b] # Nil /\ matches(sub[b].filter, service[s])
        THEN view[b][s] = [state |-> "present", data |-> service[s]]
        ELSE /\ view[b][s].state \notin {"present", "garbled"}
             /\ sub[b] = Nil => view[b][s] = Seen("unseen")

\* What a subscriber concludes from a disappearance is what happened:
\* client_unpublish() republishes an orphan before it removes it so that an
\* unpublish can be told from an orphan timeout.
DisappearanceTellsCause ==
    [][\A b \in SubIds, s \in Services :
          sub[b] # Nil /\ matches(sub[b].filter, service[s]) =>
            /\ (\E c \in Clients : client_unpublish(c, s)) =>
                  view'[b][s].state = "unpublished"
            /\ orphan_timeout_cb(s) => view'[b][s].state = "expired"]_vars

\* While a service is published its generation never goes back, and its
\* properties and TTL change only with a newer generation.
GenerationsImmutable ==
    [][\A s \in Services : service[s] # Nil /\ service'[s] # Nil =>
          \/ service'[s].generation > service[s].generation
          \/ /\ service'[s].generation = service[s].generation
             /\ service'[s].props = service[s].props
             /\ service'[s].ttl = service[s].ttl]_vars

\* A publish that returns success leaves the service owned by its publisher,
\* not an orphan, with the data it published, whoever had it before.
PublishTakesEffect ==
    [][\A c \in Clients, s \in Services, g \in Generations, p \in Props, t \in TTLs :
          client_publish(c, s, g, p, t) /\ rc' = "OK" =>
              service'[s] = Published(c, g, p, t)]_vars

\* No service is lost: it is deleted by an unpublish of a connected client,
\* or as an orphan whose TTL has passed, and not a moment earlier.
RemovedOnlyWhenDue ==
    [][\A s \in Services : service[s] # Nil /\ service'[s] = Nil =>
          \/ \E c \in Clients : client_unpublish(c, s)
          \/ /\ service_is_orphan(service[s])
             /\ now >= service[s].orphan_since + service[s].ttl]_vars

\* Garbage is collected, with one exception that is known by its cause: an
\* inactive conn with no services (and with it a client that nothing refers
\* to) is left behind only by a take-over, when client d publishes or
\* unpublishes a service that c's conn held.  A disconnect, an unpublish of
\* the owner and an orphan timeout leave none.
EmptyConnsAreVictims ==
    [][\A c \in Clients : \A k \in inactive'[c] :
          held'[k] = {} =>
            /\ k \in inactive[c]
            /\ held[k] = {} \/ \E d \in Clients \ {c} : sd_publish(d) \/ sd_unpublish(d)]_vars

\* The database is a registry of leases: see ServiceRegistry.
Registry == INSTANCE ServiceRegistry WITH entry <- service

\* Every call and callback of the sd, connections and subscriptions
\* forgotten, is one step of that registry, or none.
ImplementsRegistry == Registry!Spec

-----------------------------------------------------------------------------
(* Liveness.                                                               *)

\* An orphan whose TTL ends within the horizon does not stay: it is adopted,
\* unpublished or purged, unless the daemon has died.
OrphansEndEventually ==
    \A s \in Services :
        (service_is_orphan(service[s]) /\ service[s].orphan_since + service[s].ttl <= MaxTime)
            ~> (~service_is_orphan(service[s]) \/ aborted)

-----------------------------------------------------------------------------
(* What the code or its tests say, and the code does not do.               *)

\* client_purge_orphan() asserts that the owner of an orphan that times out
\* is not connected.
PurgeAssertHolds == ~aborted

\* The sd test suite checks that the services of a client that disconnects
\* are orphans.
DisconnectOrphansServices ==
    \A s \in Services :
        service[s] # Nil /\ ~client_is_connected(service[s].client_id) =>
            service_is_orphan(service[s])
=============================================================================
