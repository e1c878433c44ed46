----------------------------- MODULE RefCounts ------------------------------
(***************************************************************************)
(* Who keeps the clients, services and subscriptions of the database       *)
(* alive.  The same calls as in ServiceDiscovery, but statement by         *)
(* statement: a call leaves in todo what it still has to do, innermost     *)
(* function first, and every step runs one statement of it.  Generations,  *)
(* properties, filters and time are left out: where they decide, both      *)
(* outcomes are possible here.                                             *)
(***************************************************************************)
EXTENDS Integers, Sequences, FiniteSets, SequencesExt

CONSTANTS Clients, Services, Subs,
          Conns,   \* the connection objects (a bound on how many there are)
          Db,      \* the database itself, which has maps as a connection has
          Nil

Objects == Clients \cup Services \cup Subs

\* Objects of different types, connections, the database and NULL differ.
ASSUME DistinctConstants ==
    /\ Clients \cap Services = {} /\ Clients \cap Subs = {} /\ Services \cap Subs = {}
    /\ Objects \cap Conns = {}
    /\ Db \notin Objects \cup Conns
    /\ Nil \notin Objects \cup Conns \cup {Db}

\* The maps of the database; a connection has services and subs.  "timers" is
\* the sd's map of orphan timers, under the services they are for.
Maps == {"clients", "services", "subs", "timers"}

VARIABLES
    heap,      \* what is allocated: objects, connections and the database
    ref_cnt,
    map,       \* map[h][m]: the keys of map m of h, in the order they were added
    active,    \* of each client: its active connection or Nil
    inactive,  \* and its inactive connections, in order
    connected, \* the connections that are not marked as disconnected
    svc,       \* of each service: its owner and whether it is and was an orphan
    todo       \* the statements still to run

vars == <<heap, ref_cnt, map, active, inactive, connected, svc, todo>>

-----------------------------------------------------------------------------
(* Statements: o is the object a statement is about, uses the others that  *)
(* it dereferences.                                                        *)

Inc(o) == [op |-> "inc_ref", o |-> o, uses |-> {}]
Dec(o) == [op |-> "dec_ref", o |-> o, uses |-> {}]
Free(o) == [op |-> "free", o |-> o, uses |-> {}]
Add(h, m, o, c) == [op |-> "add", h |-> h, m |-> m, o |-> o, uses |-> {h, c}]
Del(h, m, o, c) == [op |-> "del", h |-> h, m |-> m, o |-> o, uses |-> {h, c}]
Clear(h, m) == [op |-> "clear", m |-> m, o |-> h, uses |-> {}]
Foreach(h, m, i, cb, o) == [op |-> "foreach", h |-> h, m |-> m, i |-> i, cb |-> cb,
                            o |-> o, uses |-> {h}]
Notify(b, s) == [op |-> "notify", o |-> b, uses |-> {s}]
Commit(s, c, orphan, change) == [op |-> "commit", o |-> s, c |-> c, orphan |-> orphan,
                                 change |-> change, uses |-> {}]
Maintain(s, change) == [op |-> "maintain_orphans", o |-> s, change |-> change, uses |-> {}]
Capture(c, s) == [op |-> "capture_service", o |-> c, s |-> s, uses |-> {s}]
RemoveService(c, s) == [op |-> "remove_service", o |-> c, s |-> s, uses |-> {s}]
NewConn(c) == [op |-> "conn_create", o |-> c, uses |-> {}]
KeepConn(c, k) == [op |-> "keep_conn", o |-> c, k |-> k, uses |-> {k}]
DropConn(c, k) == [op |-> "drop_conn", o |-> c, k |-> k, uses |-> {k}]
DropClient(c) == [op |-> "drop_client", o |-> c, uses |-> {}]
DestroyConns(c, i) == [op |-> "destroy_conns", o |-> c, i |-> i, uses |-> {}]

\* The statement to run, and what is run next: the statements of a function it
\* calls come before the rest of its own.
At(op) == todo # <<>> /\ Head(todo).op = op
this == Head(todo)
Run(program) == todo' = program \o Tail(todo)

-----------------------------------------------------------------------------
client_conns(c) == (IF active[c] = Nil THEN <<>> ELSE <<active[c]>>) \o inactive[c]

\* The connection of client c that has service s, or NULL.
get_service_conn(c, s) ==
    LET K == {k \in ToSet(client_conns(c)) : Contains(map[k]["services"], s)}
    IN  IF K = {} THEN Nil ELSE CHOOSE k \in K : TRUE

conn_is_stale(k) == k \notin connected /\ map[k]["services"] = <<>>

client_is_stale(c) == \A k \in ToSet(client_conns(c)) : conn_is_stale(k)

db_get_client(c) == IF Contains(map[Db]["clients"], c) THEN c ELSE Nil

\* plist_index_of() and plist_del(): the elements behind x move up.
Deleted(list, x) ==
    IF Contains(list, x) THEN RemoveAt(list, CHOOSE i \in DOMAIN list : list[i] = x) ELSE list

\* pmap_destroy_cnted() and pmap_clear_cnted().
ClearCounted(h, m) == <<Foreach(h, m, 1, "dec_ref", h), Clear(h, m)>>

conn_destroy(k) ==
    ClearCounted(k, "services") \o ClearCounted(k, "subs") \o <<Free(k)>>

\* The destroy() of clients, services and subscriptions.
destroy(o) == IF o \in Clients THEN <<DestroyConns(o, 1), Free(o)>> ELSE <<Free(o)>>

\* What plist_foreach() has its callbacks do with element x.
Callback_DeletingFromConn(cb, x, o) ==
    CASE cb = "dec_ref" -> <<Dec(x)>>
      [] cb = "sub_handle_conn_inactivation" -> <<Del(o, "subs", x, Db), Del(Db, "subs", x, Db)>>
      [] cb = "service_handle_conn_inactivation" ->
            <<Commit(x, svc[x].client_id, TRUE, "modified")>>
      [] cb = "notify_sub_service_changed" -> <<Notify(x, o)>>
      [] cb = "notify_sub_service_added" -> <<Notify(o, x)>>
Callback(cb, x, o) ==
    CASE cb = "dec_ref" -> <<Dec(x)>>
      [] cb = "sub_handle_conn_inactivation" -> <<Del(Db, "subs", x, Db)>>
      [] cb = "service_handle_conn_inactivation" ->
            <<Commit(x, svc[x].client_id, TRUE, "modified")>>
      [] cb = "notify_sub_service_changed" -> <<Notify(x, o)>>
      [] cb = "notify_sub_service_added" -> <<Notify(o, x)>>

-----------------------------------------------------------------------------
(* References, maps and iteration.                                         *)

inc_ref ==
    /\ At("inc_ref")
    /\ ref_cnt' = [ref_cnt EXCEPT ![this.o] = @ + 1]
    /\ Run(<<>>)
    /\ UNCHANGED <<heap, map, active, inactive, connected, svc>>

dec_ref ==
    /\ At("dec_ref")
    /\ ref_cnt' = [ref_cnt EXCEPT ![this.o] = @ - 1]
    /\ Run(IF ref_cnt[this.o] = 1 THEN destroy(this.o) ELSE <<>>)
    /\ UNCHANGED <<heap, map, active, inactive, connected, svc>>

ut_free ==
    /\ At("free")
    /\ heap' = heap \ {this.o}
    /\ active' = [c \in Clients |-> IF c = this.o THEN Nil ELSE active[c]]
    /\ inactive' = [c \in Clients |-> IF c = this.o THEN <<>> ELSE inactive[c]]
    /\ Run(<<>>)
    /\ UNCHANGED <<ref_cnt, map, connected, svc>>

pmap_add_cnted ==
    /\ At("add")
    /\ ref_cnt' = [ref_cnt EXCEPT ![this.o] = @ + 1]
    /\ map' = [map EXCEPT ![this.h][this.m] = Append(@, this.o)]
    /\ Run(<<>>)
    /\ UNCHANGED <<heap, active, inactive, connected, svc>>

pmap_del_cnted ==
    /\ At("del")
    /\ map' = [map EXCEPT ![this.h][this.m] = Deleted(@, this.o)]
    /\ Run(<<Dec(this.o)>>)
    /\ UNCHANGED <<heap, ref_cnt, active, inactive, connected, svc>>

pmap_clear ==
    /\ At("clear")
    /\ map' = [map EXCEPT ![this.o][this.m] = <<>>]
    /\ Run(<<>>)
    /\ UNCHANGED <<heap, ref_cnt, active, inactive, connected, svc>>

\* The index is compared with the length as it is now.
plist_foreach ==
    /\ At("foreach")
    /\ LET list == map[this.h][this.m]
       IN  Run(IF this.i <= Len(list)
               THEN Append(Callback(this.cb, list[this.i], this.o), [this EXCEPT !.i = @ + 1])
               ELSE <<>>)
    /\ UNCHANGED <<heap, ref_cnt, map, active, inactive, connected, svc>>

-----------------------------------------------------------------------------
(* Services and their change callback.                                     *)

\* match_cb() queues a message and calls nothing of the sd.
sub_notify ==
    /\ At("notify")
    /\ Run(<<>>)
    /\ UNCHANGED <<heap, ref_cnt, map, active, inactive, connected, svc>>

\* service_add_begin(), service_modify_begin(), service_commit() and
\* service_remove() with their call of service_changed().
service_commit ==
    /\ At("commit")
    /\ LET s == this.o
       IN  /\ svc' = [svc EXCEPT ![s] = [client_id |-> this.c, orphan |-> this.orphan,
                           was_orphan |-> this.change # "added" /\ svc[s].orphan]]
           /\ Run(<<Foreach(Db, "subs", 1, "notify_sub_service_changed", s),
                    Maintain(s, this.change)>>)
    /\ UNCHANGED <<heap, ref_cnt, map, active, inactive, connected>>

\* A timer holds a reference to its service.
add_orphan_timer(s) ==
    /\ map' = [map EXCEPT ![Db]["timers"] = Append(@, s)]
    /\ ref_cnt' = [ref_cnt EXCEPT ![s] = @ + 1]
    /\ Run(<<>>)

remove_orphan_timer(s) ==
    /\ map' = [map EXCEPT ![Db]["timers"] = Deleted(@, s)]
    /\ Run(<<Dec(s)>>)
    /\ UNCHANGED ref_cnt

maintain_orphans ==
    /\ At("maintain_orphans")
    /\ LET s == this.o
           is == svc[s].orphan /\ this.change # "removed"
           was == svc[s].was_orphan
       IN  \/ is /\ ~was /\ add_orphan_timer(s)
           \/ was /\ ~is /\ remove_orphan_timer(s)
           \/ is = was /\ Run(<<>>) /\ UNCHANGED <<map, ref_cnt>>
    /\ UNCHANGED <<heap, active, inactive, connected, svc>>

capture_service ==
    /\ At("capture_service")
    /\ LET victim == db_get_client(svc[this.s].client_id)
           k == IF victim = Nil THEN Nil ELSE get_service_conn(victim, this.s)
       IN  Run(<<Del(k, "services", this.s, victim),
                 Add(active[this.o], "services", this.s, this.o)>>)
    /\ UNCHANGED <<heap, ref_cnt, map, active, inactive, connected, svc>>

\* The program of remove_service() for service s in connection k of client c.
RemoveProgram_NoClientRef(c, s, k) ==
    <<Inc(s), Del(k, "services", s, c), DropConn(c, k), DropClient(c),
      Del(Db, "services", s, c), Commit(s, Nil, FALSE, "removed"), Dec(s)>>
RemoveProgram(c, s, k) ==
    <<Inc(s), Inc(c), Del(k, "services", s, c), DropConn(c, k), DropClient(c),
      Del(Db, "services", s, c), Commit(s, Nil, FALSE, "removed"), Dec(s), Dec(c)>>

remove_service ==
    /\ At("remove_service")
    /\ Run(RemoveProgram(this.o, this.s, get_service_conn(this.o, this.s)))
    /\ UNCHANGED <<heap, ref_cnt, map, active, inactive, connected, svc>>

-----------------------------------------------------------------------------
(* Clients and connections.                                                *)

conn_create ==
    /\ At("conn_create")
    /\ LET k == CHOOSE x \in Conns \ heap : TRUE
       IN  /\ heap' = heap \cup {k}
           /\ active' = [active EXCEPT ![this.o] = k]
           /\ connected' = connected \cup {k}
    /\ Run(<<>>)
    /\ UNCHANGED <<ref_cnt, map, inactive, svc>>

\* client_disconnect() with the connection it has inactivated.
keep_conn ==
    /\ At("keep_conn")
    /\ LET stale == conn_is_stale(this.k)
       IN  /\ inactive' = [inactive EXCEPT ![this.o] = IF stale THEN @ ELSE Append(@, this.k)]
           /\ Run(IF stale THEN conn_destroy(this.k) ELSE <<>>)
    /\ UNCHANGED <<heap, ref_cnt, map, active, connected, svc>>

\* remove_service() with the connection that had the service.
drop_conn ==
    /\ At("drop_conn")
    /\ LET stale == conn_is_stale(this.k)
       IN  /\ inactive' = [inactive EXCEPT ![this.o] = IF stale THEN Deleted(@, this.k) ELSE @]
           /\ Run(IF stale THEN conn_destroy(this.k) ELSE <<>>)
    /\ UNCHANGED <<heap, ref_cnt, map, active, connected, svc>>

\* client_conn_foreach() with destroy_conn().
destroy_conns ==
    /\ At("destroy_conns")
    /\ LET conns == client_conns(this.o)
       IN  Run(IF this.i <= Len(conns)
               THEN Append(conn_destroy(conns[this.i]), [this EXCEPT !.i = @ + 1])
               ELSE <<>>)
    /\ UNCHANGED <<heap, ref_cnt, map, active, inactive, connected, svc>>

drop_client ==
    /\ At("drop_client")
    /\ Run(IF client_is_stale(this.o) THEN <<Del(Db, "clients", this.o, this.o)>> ELSE <<>>)
    /\ UNCHANGED <<heap, ref_cnt, map, active, inactive, connected, svc>>

-----------------------------------------------------------------------------
(* The calls, each made from the event loop, one at a time.                *)

Call == todo = <<>> /\ Db \in heap

Known(c) == Contains(map[Db]["clients"], c)
Connected(c) == Known(c) /\ active[c] # Nil

\* An object is created with the reference of the function that creates it.
Create(o) ==
    /\ heap' = heap \cup {o}
    /\ ref_cnt' = [ref_cnt EXCEPT ![o] = 1]

sd_client_connect(c) ==
    /\ Call /\ Conns \ heap # {}
    /\ \/ /\ ~Known(c)
          /\ Create(c)
          /\ todo' = <<NewConn(c), Add(Db, "clients", c, c), Dec(c)>>
       \/ /\ Known(c) /\ active[c] = Nil
          /\ todo' = <<NewConn(c)>>
          /\ UNCHANGED <<heap, ref_cnt>>
    /\ UNCHANGED <<map, active, inactive, connected, svc>>

sd_client_disconnect(c) ==
    /\ Call /\ Connected(c)
    /\ LET k == active[c]
       IN  /\ active' = [active EXCEPT ![c] = Nil]
           /\ connected' = connected \ {k}
           /\ todo' = <<Foreach(k, "subs", 1, "sub_handle_conn_inactivation", k)>>
                        \o ClearCounted(k, "subs")
                        \o <<Foreach(k, "services", 1, "service_handle_conn_inactivation", k),
                             KeepConn(c, k), DropClient(c)>>
    /\ UNCHANGED <<heap, ref_cnt, map, inactive, svc>>

PublishNew_KeepingRef(c, s) ==
    <<Commit(s, c, FALSE, "added"), Add(Db, "services", s, c),
      Add(active[c], "services", s, c)>>
PublishNew(c, s) ==
    <<Commit(s, c, FALSE, "added"), Add(Db, "services", s, c),
      Add(active[c], "services", s, c), Dec(s)>>

sd_publish(c, s) ==
    /\ Call /\ Connected(c)
    /\ \/ /\ ~Contains(map[Db]["services"], s)
          /\ Create(s)
          /\ todo' = PublishNew(c, s)
       \/ /\ Contains(map[Db]["services"], s)
          /\ todo' = (IF svc[s].client_id # c THEN <<Capture(c, s)>> ELSE <<>>)
                        \o <<Commit(s, c, FALSE, "modified")>>
          /\ UNCHANGED <<heap, ref_cnt>>
    /\ UNCHANGED <<map, active, inactive, connected, svc>>

sd_unpublish(c, s) ==
    /\ Call /\ Connected(c)
    /\ Contains(map[Db]["services"], s)
    /\ LET changed_client_id == svc[s].client_id # c
       IN  todo' = (IF changed_client_id THEN <<Capture(c, s)>> ELSE <<>>)
                     \o (IF changed_client_id \/ svc[s].orphan
                         THEN <<Commit(s, c, FALSE, "modified")>> ELSE <<>>)
                     \o <<RemoveService(c, s)>>
    /\ UNCHANGED <<heap, ref_cnt, map, active, inactive, connected, svc>>

\* sd_create_sub() and sd_activate_sub().
sd_create_sub(c, b) ==
    /\ Call /\ Connected(c)
    /\ ~Contains(map[Db]["subs"], b)
    /\ Create(b)
    /\ todo' = <<Add(active[c], "subs", b, c), Add(Db, "subs", b, c), Dec(b),
                 Foreach(Db, "services", 1, "notify_sub_service_added", b)>>
    /\ UNCHANGED <<map, active, inactive, connected, svc>>

Unsubscribe_KeepingInConn(k, b, c) == <<Del(Db, "subs", b, c)>>
Unsubscribe(k, b, c) == <<Del(k, "subs", b, c), Del(Db, "subs", b, c)>>

sd_unsubscribe(c, b) ==
    /\ Call /\ Connected(c)
    /\ Contains(map[Db]["subs"], b) /\ Contains(map[active[c]]["subs"], b)
    /\ todo' = Unsubscribe(active[c], b, c)
    /\ UNCHANGED <<heap, ref_cnt, map, active, inactive, connected, svc>>

\* The timer's own reference keeps the service until the timer is destroyed,
\* which the removal of the service ends in.  With a connected owner the
\* assert of client_purge_orphan() stops the daemon.
orphan_timeout_cb(s) ==
    /\ Call /\ Contains(map[Db]["timers"], s)
    /\ active[svc[s].client_id] = Nil
    /\ todo' = <<RemoveService(db_get_client(svc[s].client_id), s)>>
    /\ UNCHANGED <<heap, ref_cnt, map, active, inactive, connected, svc>>

\* With clients connected, services published and timers running.
sd_destroy ==
    /\ Call
    /\ todo' = ClearCounted(Db, "timers") \o ClearCounted(Db, "clients")
                 \o ClearCounted(Db, "services") \o ClearCounted(Db, "subs") \o <<Free(Db)>>
    /\ UNCHANGED <<heap, ref_cnt, map, active, inactive, connected, svc>>

Init ==
    /\ heap = {Db}
    /\ ref_cnt = [o \in Objects |-> 0]
    /\ map = [h \in Conns \cup {Db} |-> [m \in Maps |-> <<>>]]
    /\ active = [c \in Clients |-> Nil]
    /\ inactive = [c \in Clients |-> <<>>]
    /\ connected = {}
    /\ svc = [s \in Services |-> [client_id |-> Nil, orphan |-> FALSE, was_orphan |-> FALSE]]
    /\ todo = <<>>

Statement ==
    \/ inc_ref \/ dec_ref \/ ut_free
    \/ pmap_add_cnted \/ pmap_del_cnted \/ pmap_clear \/ plist_foreach
    \/ sub_notify \/ service_commit \/ maintain_orphans
    \/ capture_service \/ remove_service
    \/ conn_create \/ keep_conn \/ drop_conn \/ destroy_conns \/ drop_client

Next ==
    \/ Statement
    \/ \E c \in Clients : sd_client_connect(c) \/ sd_client_disconnect(c)
    \/ \E c \in Clients, s \in Services : sd_publish(c, s) \/ sd_unpublish(c, s)
    \/ \E c \in Clients, b \in Subs : sd_create_sub(c, b) \/ sd_unsubscribe(c, b)
    \/ \E s \in Services : orphan_timeout_cb(s)
    \/ sd_destroy

Spec == Init /\ [][Next]_vars

-----------------------------------------------------------------------------
\* No statement touches an object, a connection or a database that has been
\* freed, or NULL: in particular remove_service() and the callbacks it ends
\* in, after the connection, the client and the maps have let go of what
\* they work on.
NoUseAfterFree == todo # <<>> => {this.o} \cup this.uses \subseteq heap

\* The asserts on references and maps hold: a reference is taken and dropped
\* only on an object that has one, a key is added to a map that does not have
\* it and deleted from one that does, and a timer is added or looked up as
\* the service's history says.
AssertsHold ==
    /\ todo # <<>> /\ this.op \in {"inc_ref", "dec_ref", "add"} => ref_cnt[this.o] > 0
    /\ At("add") => ~Contains(map[this.h][this.m], this.o)
    /\ At("del") => Contains(map[this.h][this.m], this.o)
    /\ At("maintain_orphans") =>
          (Contains(map[Db]["timers"], this.o) <=> svc[this.o].was_orphan)

\* The places an object is kept in.
Holders(o) ==
    {x \in (Conns \cup {Db}) \X Maps : x[1] \in heap /\ Contains(map[x[1]][x[2]], o)}

\* Between calls every object has one reference for each map and timer that
\* has it, and nothing else is allocated: no call leaks one or drops one too
\* many, and after sd_destroy() nothing is left.
NothingLeaks ==
    todo = <<>> =>
        /\ \A o \in Objects : ref_cnt[o] = Cardinality(Holders(o))
        /\ heap = {o \in Objects : ref_cnt[o] > 0}
                    \cup (UNION {ToSet(client_conns(c)) : c \in heap \cap Clients})
                    \cup (heap \cap {Db})

\* While a list is iterated over, the callbacks leave it alone: deleting from
\* it would make plist_foreach() skip the next element.
IterationStable ==
    [][\A j \in DOMAIN todo :
          j > 1 /\ todo[j].op = "foreach" =>
              map'[todo[j].h][todo[j].m] = map[todo[j].h][todo[j].m]]_vars
=============================================================================
