----------------------- MODULE RefCountsPoints_proofs -----------------------
(***************************************************************************)
(* The program points of RefCounts and how one leads to the next.          *)
(*                                                                         *)
(* A point says which statements are left in todo and what then holds of   *)
(* the data, all of which is one record here.  Points are predicates on    *)
(* constants (t for todo, d for the data), so that they can also be stated *)
(* of data the program has not reached: "what is left once this reference  *)
(* is given back" or "once the rest of this list has been swept".  First   *)
(* the points, then lemmas on the data, what each statement does, and the  *)
(* steps of every call but sd_destroy().                                   *)
(***************************************************************************)
EXTENDS RefCounts, SequenceTheorems, FiniteSetTheorems, TLAPS

Data == [heap |-> heap, ref |-> ref_cnt, map |-> map, active |-> active,
         inactive |-> inactive, connected |-> connected, svc |-> svc]

Hosts == Conns \cup {Db}

Kind(m) ==
    CASE m = "clients" -> Clients
      [] m = "subs" -> Subs
      [] OTHER -> Services

Injective(q) == \A i, j \in DOMAIN q : q[i] = q[j] => i = j

MapsOK(mp) ==
    /\ mp \in [Hosts -> [Maps -> Seq(Objects)]]
    /\ \A h \in Hosts, m \in Maps : mp[h][m] \in Seq(Kind(m)) /\ Injective(mp[h][m])

SvcType == [client_id : Clients \cup {Nil}, orphan : BOOLEAN, was_orphan : BOOLEAN]

IsData(d) ==
    d = [heap |-> d.heap, ref |-> d.ref, map |-> d.map, active |-> d.active,
         inactive |-> d.inactive, connected |-> d.connected, svc |-> d.svc]

TypeOK(d) ==
    /\ IsData(d)
    /\ d.heap \subseteq Objects \cup Hosts
    /\ d.ref \in [Objects -> Int]
    /\ MapsOK(d.map)
    /\ d.active \in [Clients -> Conns \cup {Nil}]
    /\ d.inactive \in [Clients -> Seq(Conns)]
    /\ \A c \in Clients : Injective(d.inactive[c]) /\ d.active[c] \notin ToSet(d.inactive[c])
    /\ d.connected \subseteq Conns
    /\ d.svc \in [Services -> SvcType]

\* The maps that object o is in.
Places(mp, o) == {x \in Hosts \X Maps : Contains(mp[x[1]][x[2]], o)}

-----------------------------------------------------------------------------
(* The data between two calls, but for the objects in X, which a call is    *)
(* working on, and the connections in L, which their clients have let go of *)
(* and which are not freed yet.                                             *)

Own(d, c) == ({d.active[c]} \ {Nil}) \cup ToSet(d.inactive[c])
Owned(d, L, c) == Own(d, c) \cup {k \in Conns : <<c, k>> \in L}

Structure(d, L) ==
    /\ TypeOK(d)
    /\ Db \in d.heap
    /\ \A c, c2 \in Clients : c # c2 => Owned(d, L, c) \cap Owned(d, L, c2) = {}
    /\ \A c \in Clients, k \in Conns : <<c, k>> \in L => k \notin Own(d, c)
    /\ \A c \in Clients : Owned(d, L, c) \subseteq d.heap
    /\ \A k \in Conns \cap d.heap : \E c \in Clients : k \in Owned(d, L, c)

\* The connections that are not marked as disconnected are the active ones.
Linked(d) ==
    /\ \A k \in d.connected : \E c \in Clients : d.active[c] = k
    /\ \A c \in Clients : d.active[c] # Nil => d.active[c] \in d.connected

Held(d, o, r, P) == o \in d.heap /\ d.ref[o] = r /\ Places(d.map, o) = P
Gone(d, o) == o \notin d.heap /\ d.ref[o] = 0 /\ Places(d.map, o) = {}

ClientOK(d, L, c) ==
    \/ Held(d, c, 1, {<<Db, "clients">>})
    \/ Gone(d, c) /\ Owned(d, L, c) = {}

\* A service with a timer has one more reference.
TimerPlace(timer) == IF timer THEN {<<Db, "timers">>} ELSE {}
TimerRef(timer) == IF timer THEN 1 ELSE 0
HeldService(d, s, r, P, timer) ==
    Held(d, s, r + TimerRef(timer), P \cup TimerPlace(timer))

Published(k) == {<<Db, "services">>, <<k, "services">>}

ServiceIn(d, L, s, k) ==
    /\ HeldService(d, s, 2, Published(k), d.svc[s].orphan)
    /\ d.svc[s].client_id \in Clients
    /\ k \in Owned(d, L, d.svc[s].client_id)
    /\ d.svc[s].orphan => k \notin d.connected
ServiceOK(d, L, s) == Gone(d, s) \/ \E k \in Conns : ServiceIn(d, L, s, k)

SubOK(d, b) ==
    \/ Gone(d, b)
    \/ \E k \in d.connected : Held(d, b, 2, {<<Db, "subs">>, <<k, "subs">>})

Good(d, L, X) ==
    /\ Structure(d, L)
    /\ Linked(d)
    /\ \A c \in Clients \ X : ClientOK(d, L, c)
    /\ \A s \in Services \ X : ServiceOK(d, L, s)
    /\ \A b \in Subs \ X : SubOK(d, b)

\* A client without services or an active connection.
Idles(d, k) == k \notin d.connected /\ d.map[k]["services"] = <<>>
Stale(d, c) == \A k \in Own(d, c) : Idles(d, k)

-----------------------------------------------------------------------------
(* Data after a step, or a few steps later.                                 *)

SetList(mp, h, m, q) == [mp EXCEPT ![h] = [mp[h] EXCEPT ![m] = q]]
WithList(d, h, m, q) == [d EXCEPT !.map = SetList(d.map, h, m, q)]
WithRef(d, o, n) == [d EXCEPT !.ref = [d.ref EXCEPT ![o] = n]]

Inced(d, o) == WithRef(d, o, d.ref[o] + 1)
Dropped(d, o) == WithRef(d, o, d.ref[o] - 1)
Put(d, h, m, o) == WithList(Inced(d, o), h, m, Append(d.map[h][m], o))
Taken(d, h, m, o) == WithList(d, h, m, Deleted(d.map[h][m], o))
Cleared(d, h, m) == WithList(d, h, m, <<>>)

\* o has been freed.
Freed(d, o) ==
    [heap |-> d.heap \ {o}, ref |-> [d.ref EXCEPT ![o] = 0], map |-> d.map,
     active |-> d.active, inactive |-> d.inactive, connected |-> d.connected, svc |-> d.svc]

\* The elements before i have given back the reference of the list.
Swept(d, h, m, i) == WithList(d, h, m, SubSeq(d.map[h][m], i, Len(d.map[h][m])))

\* The client's lists are gone with the client.
Disowned(d, c) ==
    [heap |-> d.heap, ref |-> d.ref, map |-> d.map,
     active |-> [d.active EXCEPT ![c] = Nil], inactive |-> [d.inactive EXCEPT ![c] = <<>>],
     connected |-> d.connected, svc |-> d.svc]

-----------------------------------------------------------------------------
(* Programs.                                                                *)

IsSeq(t) == t \in Seq(ToSet(t))
Starts(t, a) == t # <<>> /\ Head(t) = a
Only(t, a) == Starts(t, a) /\ Tail(t) = <<>>

\* What remains of client_disconnect().
KeepTail(t, c, k) == Starts(t, KeepConn(c, k)) /\ Only(Tail(t), DropClient(c))
ServicesTail(t, c, k, i) ==
    /\ Starts(t, Foreach(k, "services", i, "service_handle_conn_inactivation", k))
    /\ KeepTail(Tail(t), c, k)
ClearTail(t, c, k) == Starts(t, Clear(k, "subs")) /\ ServicesTail(Tail(t), c, k, 1)
SweepTail(t, c, k, i) ==
    Starts(t, Foreach(k, "subs", i, "dec_ref", k)) /\ ClearTail(Tail(t), c, k)
SubsTail(t, c, k, i) ==
    /\ Starts(t, Foreach(k, "subs", i, "sub_handle_conn_inactivation", k))
    /\ SweepTail(Tail(t), c, k, 1)

\* Of client_publish() and client_unpublish().
NewTail(t, c, s, k) ==
    /\ Starts(t, Add(Db, "services", s, c))
    /\ Starts(Tail(t), Add(k, "services", s, c))
    /\ Only(Tail(Tail(t)), Dec(s))
UnpublishTail(t, c, s) == t = <<>> \/ Only(t, RemoveService(c, s))
CommitTail(t, c, s) ==
    Starts(t, Commit(s, c, FALSE, "modified")) /\ UnpublishTail(Tail(t), c, s)
CaptureTail(t, c, s, a) ==
    Starts(t, Add(a, "services", s, c)) /\ CommitTail(Tail(t), c, s)

\* Of remove_service(), by its statements.
Remove8(t, c, s) == Starts(t, Dec(s)) /\ Only(Tail(t), Dec(c))
Remove7(t, c, s) == Starts(t, Commit(s, Nil, FALSE, "removed")) /\ Remove8(Tail(t), c, s)
Remove6(t, c, s) == Starts(t, Del(Db, "services", s, c)) /\ Remove7(Tail(t), c, s)
Remove5(t, c, s) == Starts(t, DropClient(c)) /\ Remove6(Tail(t), c, s)
Remove4(t, c, s, k) == Starts(t, DropConn(c, k)) /\ Remove5(Tail(t), c, s)
Remove3(t, c, s, k) == Starts(t, Del(k, "services", s, c)) /\ Remove4(Tail(t), c, s, k)
Remove2(t, c, s, k) == Starts(t, Inc(c)) /\ Remove3(Tail(t), c, s, k)
Remove1(t, c, s, k) == Starts(t, Inc(s)) /\ Remove2(Tail(t), c, s, k)

\* Of sd_create_sub().
NotifyTail(t, b, i) == Only(t, Foreach(Db, "services", i, "notify_sub_service_added", b))

\* Of sd_destroy(), list by list.
Down5(t) == Only(t, Free(Db))
Down4c(t) == Starts(t, Clear(Db, "subs")) /\ Down5(Tail(t))
Down4(t, i) == Starts(t, Foreach(Db, "subs", i, "dec_ref", Db)) /\ Down4c(Tail(t))
Down3c(t) == Starts(t, Clear(Db, "services")) /\ Down4(Tail(t), 1)
Down3(t, i) == Starts(t, Foreach(Db, "services", i, "dec_ref", Db)) /\ Down3c(Tail(t))
Down2c(t) == Starts(t, Clear(Db, "clients")) /\ Down3(Tail(t), 1)
Down2(t, i) == Starts(t, Foreach(Db, "clients", i, "dec_ref", Db)) /\ Down2c(Tail(t))
Down1c(t) == Starts(t, Clear(Db, "timers")) /\ Down2(Tail(t), 1)
Down1(t, i) == Starts(t, Foreach(Db, "timers", i, "dec_ref", Db)) /\ Down1c(Tail(t))

-----------------------------------------------------------------------------
(* The points of the calls between sd_client_connect() and sd_destroy().    *)

Idle(t, d) == t = <<>> /\ Good(d, {}, {})

\* sd_client_connect()
NewClient(d, c) == Good(d, {}, {c}) /\ Held(d, c, 1, {})
Connect1(t, d, c) ==
    /\ Starts(t, NewConn(c)) /\ Starts(Tail(t), Add(Db, "clients", c, c))
    /\ Only(Tail(Tail(t)), Dec(c))
    /\ NewClient(d, c) /\ Own(d, c) = {} /\ Conns \ d.heap # {}
Connect2(t, d, c) ==
    /\ Starts(t, Add(Db, "clients", c, c)) /\ Only(Tail(t), Dec(c))
    /\ NewClient(d, c)
Reconnect(t, d, c) ==
    /\ Only(t, NewConn(c))
    /\ Good(d, {}, {}) /\ c \in d.heap /\ d.active[c] = Nil /\ Conns \ d.heap # {}

\* The services of the connection from i on are no orphans yet.
Unorphaned(d, k, i) ==
    \A j \in DOMAIN d.map[k]["services"] : j >= i => ~d.svc[d.map[k]["services"][j]].orphan

\* The subscriptions of the connection: those before i have left the database.
SubsLeaving(d, c, k, i) ==
    /\ c \in d.heap /\ k \notin d.connected /\ Unorphaned(d, k, 1)
    /\ Good(d, {<<c, k>>}, ToSet(d.map[k]["subs"]))
    /\ \A j \in DOMAIN d.map[k]["subs"] :
          LET b == d.map[k]["subs"][j]
          IN  IF j < i THEN Held(d, b, 1, {<<k, "subs">>})
                       ELSE Held(d, b, 2, {<<Db, "subs">>, <<k, "subs">>})
Subs1(t, d, c, k, i) == SubsTail(t, c, k, i) /\ SubsLeaving(d, c, k, i)
Subs2(t, d, c, k, i) ==
    /\ i \in DOMAIN d.map[k]["subs"]
    /\ Starts(t, Del(Db, "subs", d.map[k]["subs"][i], Db)) /\ SubsTail(Tail(t), c, k, i + 1)
    /\ SubsLeaving(d, c, k, i)

\* Then the connection's references to them are given back.
SubsGoing(d, c, k) ==
    /\ c \in d.heap /\ k \notin d.connected /\ Unorphaned(d, k, 1)
    /\ Good(d, {<<c, k>>}, ToSet(d.map[k]["subs"]))
    /\ \A b \in ToSet(d.map[k]["subs"]) : Held(d, b, 1, {<<k, "subs">>})
Subs3(t, d, c, k, i) ==
    SweepTail(t, c, k, i) /\ TypeOK(d) /\ SubsGoing(Swept(d, k, "subs", i), c, k)
Subs4(t, d, c, k) == ClearTail(t, c, k) /\ TypeOK(d) /\ SubsGoing(Cleared(d, k, "subs"), c, k)

\* Its services become orphans.
ServicesLeaving(d, c, k, i, X) ==
    /\ c \in d.heap /\ k \notin d.connected
    /\ Good(d, {<<c, k>>}, X) /\ Unorphaned(d, k, i)
Orphan1(t, d, c, k, i) == ServicesTail(t, c, k, i) /\ ServicesLeaving(d, c, k, i, {})
Orphan2(t, d, c, k, i) ==
    /\ i \in DOMAIN d.map[k]["services"]
    /\ Starts(t, Commit(d.map[k]["services"][i], c, TRUE, "modified"))
    /\ ServicesTail(Tail(t), c, k, i + 1)
    /\ ServicesLeaving(d, c, k, i, {})
Orphan3(t, d, c, k, i, s) ==
    /\ i \in DOMAIN d.map[k]["services"] /\ s = d.map[k]["services"][i]
    /\ Starts(t, Maintain(s, "modified"))
    /\ ServicesTail(Tail(t), c, k, i + 1)
    /\ ServicesLeaving(d, c, k, i + 1, {s})
    /\ Held(d, s, 2, Published(k))
    /\ d.svc[s] = [client_id |-> c, orphan |-> TRUE, was_orphan |-> FALSE]

Keep(t, d, c, k) ==
    /\ KeepTail(t, c, k)
    /\ c \in d.heap /\ k \notin d.connected /\ Good(d, {<<c, k>>}, {})

Leave1(t, d, L, c) == Only(t, DropClient(c)) /\ Good(d, L, {}) /\ c \in d.heap
Leave2(t, d, c) ==
    Only(t, Del(Db, "clients", c, c)) /\ Good(d, {}, {}) /\ c \in d.heap /\ Stale(d, c)

\* The last reference but the database's, or the last.
Parting(d, c) ==
    \/ Held(d, c, 2, {<<Db, "clients">>})
    \/ Held(d, c, 1, {}) /\ Stale(d, c)
Leave3(t, d, c) == Only(t, Dec(c)) /\ Good(d, {}, {c}) /\ Parting(d, c)

\* destroy() of a client: its connections from i on, and conns, are left.
ConnsOf(d, c) == (IF d.active[c] = Nil THEN <<>> ELSE <<d.active[c]>>) \o d.inactive[c]
ConnsFrom(d, c, i) == {ConnsOf(d, c)[j] : j \in {x \in DOMAIN ConnsOf(d, c) : x >= i}}
Dying(d, c, K) ==
    /\ TypeOK(d) /\ Held(d, c, 0, {})
    /\ Good(Disowned(d, c), {c} \X K, {c})
    /\ \A k \in K : Idles(d, k)
Destroy1(t, d, c, i, conns) ==
    /\ Starts(t, DestroyConns(c, i)) /\ Only(Tail(t), Free(c))
    /\ Dying(d, c, ConnsFrom(d, c, i) \cup conns)
    /\ conns \cap ConnsFrom(d, c, i) = {}
Destroy2(t, d, c) == Only(t, Free(c)) /\ Dying(d, c, {})

\* sd_publish() and sd_unpublish()
NewService(d, c, s, k, r, P) ==
    /\ Good(d, {}, {s}) /\ Held(d, s, r, P)
    /\ c \in d.heap /\ d.active[c] = k
Fresh(d, c, s) == d.svc[s] = [client_id |-> c, orphan |-> FALSE, was_orphan |-> FALSE]
Publish1(t, d, c, s, k) ==
    /\ Starts(t, Commit(s, c, FALSE, "added")) /\ NewTail(Tail(t), c, s, k)
    /\ NewService(d, c, s, k, 1, {})
Publish2(t, d, c, s, k) ==
    /\ Starts(t, Maintain(s, "added")) /\ NewTail(Tail(t), c, s, k)
    /\ NewService(d, c, s, k, 1, {}) /\ Fresh(d, c, s)
Publish3(t, d, c, s, k) ==
    NewTail(t, c, s, k) /\ NewService(d, c, s, k, 1, {}) /\ Fresh(d, c, s)
Publish4(t, d, c, s, k) ==
    /\ Starts(t, Add(k, "services", s, c)) /\ Only(Tail(t), Dec(s))
    /\ NewService(d, c, s, k, 2, {<<Db, "services">>}) /\ Fresh(d, c, s)

Capture1(t, d, c, s) ==
    /\ Starts(t, Capture(c, s)) /\ CommitTail(Tail(t), c, s)
    /\ Good(d, {}, {}) /\ s \in d.heap /\ c \in d.heap
    /\ d.svc[s].client_id # c /\ d.active[c] # Nil
Capture2(t, d, c, s, k) ==
    /\ Starts(t, Del(k, "services", s, d.svc[s].client_id))
    /\ CaptureTail(Tail(t), c, s, d.active[c])
    /\ Good(d, {}, {}) /\ ServiceIn(d, {}, s, k) /\ c \in d.heap
    /\ d.svc[s].client_id # c /\ d.active[c] # Nil
Capture3(t, d, c, s) ==
    /\ CaptureTail(t, c, s, d.active[c])
    /\ Good(d, {}, {s}) /\ HeldService(d, s, 1, {<<Db, "services">>}, d.svc[s].orphan)
    /\ c \in d.heap /\ d.active[c] # Nil
Commit1(t, d, c, s, k) ==
    /\ CommitTail(t, c, s)
    /\ Good(d, {}, {s}) /\ HeldService(d, s, 2, Published(k), d.svc[s].orphan)
    /\ k \in Own(d, c)
Commit2(t, d, c, s, k) ==
    /\ Starts(t, Maintain(s, "modified")) /\ UnpublishTail(Tail(t), c, s)
    /\ Good(d, {}, {s}) /\ HeldService(d, s, 2, Published(k), d.svc[s].was_orphan)
    /\ k \in Own(d, c) /\ d.svc[s].client_id = c /\ ~d.svc[s].orphan

\* remove_service()
Removal0(t, d, c, s) ==
    /\ Only(t, RemoveService(c, s))
    /\ Good(d, {}, {}) /\ s \in d.heap /\ d.svc[s].client_id = c
Removal1(t, d, c, s, k) ==
    /\ Remove1(t, c, s, k)
    /\ Good(d, {}, {}) /\ ServiceIn(d, {}, s, k) /\ d.svc[s].client_id = c
Removal2(t, d, c, s, k) ==
    /\ Remove2(t, c, s, k)
    /\ Good(d, {}, {s}) /\ HeldService(d, s, 3, Published(k), d.svc[s].orphan)
    /\ k \in Own(d, c)
Kept(d, c) == Held(d, c, 2, {<<Db, "clients">>})
Removal3(t, d, c, s, k) ==
    /\ Remove3(t, c, s, k)
    /\ Good(d, {}, {s, c}) /\ HeldService(d, s, 3, Published(k), d.svc[s].orphan)
    /\ Kept(d, c) /\ k \in Own(d, c)
Removal4(t, d, c, s, k) ==
    /\ Remove4(t, c, s, k)
    /\ Good(d, {}, {s, c}) /\ HeldService(d, s, 2, {<<Db, "services">>}, d.svc[s].orphan)
    /\ Kept(d, c) /\ k \in Own(d, c)
Removal5(t, d, L, c, s) ==
    /\ Remove5(t, c, s)
    /\ Good(d, L, {s, c}) /\ HeldService(d, s, 2, {<<Db, "services">>}, d.svc[s].orphan)
    /\ Kept(d, c)
Removal6(t, d, c, s) ==
    /\ Starts(t, Del(Db, "clients", c, c)) /\ Remove6(Tail(t), c, s)
    /\ Good(d, {}, {s, c}) /\ HeldService(d, s, 2, {<<Db, "services">>}, d.svc[s].orphan)
    /\ Kept(d, c) /\ Stale(d, c)
Removal7(t, d, c, s) ==
    /\ Remove6(t, c, s)
    /\ Good(d, {}, {s, c}) /\ HeldService(d, s, 2, {<<Db, "services">>}, d.svc[s].orphan)
    /\ Parting(d, c)
Removal8(t, d, c, s) ==
    /\ Remove7(t, c, s)
    /\ Good(d, {}, {s, c}) /\ HeldService(d, s, 1, {}, d.svc[s].orphan)
    /\ Parting(d, c)
Removal9(t, d, c, s) ==
    /\ Starts(t, Maintain(s, "removed")) /\ Remove8(Tail(t), c, s)
    /\ Good(d, {}, {s, c}) /\ HeldService(d, s, 1, {}, d.svc[s].was_orphan)
    /\ ~d.svc[s].orphan /\ Parting(d, c)
Removal10(t, d, c, s) ==
    /\ Remove8(t, c, s)
    /\ Good(d, {}, {s, c}) /\ Held(d, s, 1, {}) /\ Parting(d, c)

\* sd_create_sub() and sd_unsubscribe()
Subscribe1(t, d, c, b, k) ==
    /\ Starts(t, Add(k, "subs", b, c)) /\ Starts(Tail(t), Add(Db, "subs", b, c))
    /\ Starts(Tail(Tail(t)), Dec(b)) /\ NotifyTail(Tail(Tail(Tail(t))), b, 1)
    /\ Good(d, {}, {b}) /\ Held(d, b, 1, {})
    /\ c \in d.heap /\ d.active[c] = k
Subscribe2(t, d, c, b, k) ==
    /\ Starts(t, Add(Db, "subs", b, c))
    /\ Starts(Tail(t), Dec(b)) /\ NotifyTail(Tail(Tail(t)), b, 1)
    /\ Good(d, {}, {b}) /\ Held(d, b, 2, {<<k, "subs">>})
    /\ c \in d.heap /\ d.active[c] = k
Subscribe3(t, d, b, i) == NotifyTail(t, b, i) /\ Good(d, {}, {}) /\ b \in d.heap
Subscribe4(t, d, b, s, i) ==
    /\ Starts(t, Notify(b, s)) /\ NotifyTail(Tail(t), b, i)
    /\ Good(d, {}, {}) /\ b \in d.heap /\ s \in d.heap
Unsubscribe1(t, d, c, b, k) ==
    /\ Starts(t, Del(k, "subs", b, c)) /\ Only(Tail(t), Del(Db, "subs", b, c))
    /\ Good(d, {}, {}) /\ c \in d.heap
    /\ k \in d.connected /\ Held(d, b, 2, {<<Db, "subs">>, <<k, "subs">>})
Unsubscribe2(t, d, c, b) ==
    /\ Only(t, Del(Db, "subs", b, c))
    /\ Good(d, {}, {b}) /\ Held(d, b, 1, {<<Db, "subs">>}) /\ c \in d.heap

\* conn_destroy() of a connection that a client has let go of; it has no
\* services or subscriptions any more.
LooseConn(t, d, c, k) ==
    /\ Idles(d, k) /\ d.map[k]["subs"] = <<>>
    /\ \/ Leave1(t, d, {<<c, k>>}, c)
       \/ \E s \in Services : Removal5(t, d, {<<c, k>>}, c, s)
       \/ \E i \in Nat \ {0} : Destroy1(t, d, c, i, {k})
Conn5(t, d, c, k) == Starts(t, Free(k)) /\ LooseConn(Tail(t), d, c, k)
Conn4(t, d, c, k) == Starts(t, Clear(k, "subs")) /\ Conn5(Tail(t), d, c, k)
Conn3(t, d, c, k) ==
    Starts(t, Foreach(k, "subs", 1, "dec_ref", k)) /\ Conn4(Tail(t), d, c, k)
Conn2(t, d, c, k) == Starts(t, Clear(k, "services")) /\ Conn3(Tail(t), d, c, k)
Conn1(t, d, c, k) ==
    Starts(t, Foreach(k, "services", 1, "dec_ref", k)) /\ Conn2(Tail(t), d, c, k)

-----------------------------------------------------------------------------
(* The points of sd_destroy().  Here it only counts that every reference is *)
(* in a map, and that the database still has the services and the           *)
(* subscriptions when the clients go.                                       *)

Counted(d, L, o) ==
    LET P == Places(d.map, o)
    IN  /\ IsFiniteSet(P) /\ d.ref[o] = Cardinality(P)
        /\ o \in d.heap <=> P # {}
        /\ \A x \in P : x[1] \in d.heap /\ (x[2] = "timers" => x[1] = Db)
        /\ o \in Clients => P \subseteq {<<Db, "clients">>}
        /\ o \in Clients \ d.heap => Owned(d, L, o) = {}
Torn(d, L, X) == Structure(d, L) /\ \A o \in Objects \ X : Counted(d, L, o)

Anchored(d, m) == \A o \in Kind(m) : o \in d.heap => <<Db, m>> \in Places(d.map, o)
Empty(d, m) == d.map[Db][m] = <<>>

Falling(d, L, X) == Torn(d, L, X) /\ Anchored(d, "services") /\ Anchored(d, "subs")
Timers1(t, d, i) == Down1(t, i) /\ TypeOK(d) /\ Falling(Swept(d, Db, "timers", i), {}, {})
Timers2(t, d) == Down1c(t) /\ TypeOK(d) /\ Falling(Cleared(d, Db, "timers"), {}, {})

Clients1(t, d, i) ==
    /\ Down2(t, i) /\ TypeOK(d)
    /\ Falling(Swept(d, Db, "clients", i), {}, {}) /\ Empty(d, "timers")
Clients2(t, d) ==
    /\ Down2c(t) /\ TypeOK(d)
    /\ Falling(Cleared(d, Db, "clients"), {}, {}) /\ Empty(d, "timers")

\* One client of them, with its connections.
Razed(d, c, K) ==
    /\ Held(d, c, 0, {}) /\ TypeOK(d)
    /\ Falling(Disowned(d, c), {c} \X K, {c}) /\ Empty(d, "timers")
Raze1(t, d, c, i) ==
    /\ Starts(t, Dec(c)) /\ Down2(Tail(t), i) /\ TypeOK(d)
    /\ Held(Swept(d, Db, "clients", i), c, 1, {})
    /\ Falling(Swept(d, Db, "clients", i), {}, {c}) /\ Empty(d, "timers")
Raze8Tail(t, c, i) == Starts(t, Free(c)) /\ Down2(Tail(t), i)
Raze2Tail(t, c, i, j) == Starts(t, DestroyConns(c, j)) /\ Raze8Tail(Tail(t), c, i)
Raze7Tail(t, c, i, j, k) == Starts(t, Free(k)) /\ Raze2Tail(Tail(t), c, i, j)
Raze6Tail(t, c, i, j, k) == Starts(t, Clear(k, "subs")) /\ Raze7Tail(Tail(t), c, i, j, k)
Raze5Tail(t, c, i, j, k, n) ==
    Starts(t, Foreach(k, "subs", n, "dec_ref", k)) /\ Raze6Tail(Tail(t), c, i, j, k)
Raze4Tail(t, c, i, j, k) == Starts(t, Clear(k, "services")) /\ Raze5Tail(Tail(t), c, i, j, k, 1)
Raze3Tail(t, c, i, j, k, n) ==
    Starts(t, Foreach(k, "services", n, "dec_ref", k)) /\ Raze4Tail(Tail(t), c, i, j, k)
Raze2(t, d, c, i, j) ==
    /\ Raze2Tail(t, c, i, j) /\ TypeOK(d)
    /\ Razed(Swept(d, Db, "clients", i), c, ConnsFrom(d, c, j))
\* of which k is being destroyed
RazedConn(d, v, c, j, k) ==
    /\ TypeOK(d) /\ k \notin ConnsFrom(d, c, j)
    /\ Razed(v, c, ConnsFrom(d, c, j) \cup {k})
Raze3(t, d, c, i, j, k, n) ==
    /\ Raze3Tail(t, c, i, j, k, n)
    /\ RazedConn(d, Swept(Swept(d, Db, "clients", i), k, "services", n), c, j, k)
Raze4(t, d, c, i, j, k) ==
    /\ Raze4Tail(t, c, i, j, k)
    /\ RazedConn(d, Cleared(Swept(d, Db, "clients", i), k, "services"), c, j, k)
Raze5(t, d, c, i, j, k, n) ==
    /\ Raze5Tail(t, c, i, j, k, n) /\ d.map[k]["services"] = <<>>
    /\ RazedConn(d, Swept(Swept(d, Db, "clients", i), k, "subs", n), c, j, k)
Raze6(t, d, c, i, j, k) ==
    /\ Raze6Tail(t, c, i, j, k) /\ d.map[k]["services"] = <<>>
    /\ RazedConn(d, Cleared(Swept(d, Db, "clients", i), k, "subs"), c, j, k)
Raze7(t, d, c, i, j, k) ==
    /\ Raze7Tail(t, c, i, j, k) /\ d.map[k]["services"] = <<>> /\ d.map[k]["subs"] = <<>>
    /\ RazedConn(d, Swept(d, Db, "clients", i), c, j, k)
Raze8(t, d, c, i) ==
    Raze8Tail(t, c, i) /\ TypeOK(d) /\ Razed(Swept(d, Db, "clients", i), c, {})

\* No client or connection is left.
Bare(d) == Torn(d, {}, {}) /\ Empty(d, "timers") /\ Empty(d, "clients") /\ d.heap \cap Conns = {}
Services1(t, d, i) ==
    /\ Down3(t, i) /\ TypeOK(d)
    /\ Bare(Swept(d, Db, "services", i)) /\ Anchored(Swept(d, Db, "services", i), "subs")
Services2(t, d) ==
    /\ Down3c(t) /\ TypeOK(d)
    /\ Bare(Cleared(d, Db, "services")) /\ Anchored(Cleared(d, Db, "services"), "subs")
Subscriptions1(t, d, i) ==
    Down4(t, i) /\ TypeOK(d) /\ Bare(Swept(d, Db, "subs", i)) /\ Empty(d, "services")
Subscriptions2(t, d) ==
    Down4c(t) /\ TypeOK(d) /\ Bare(Cleared(d, Db, "subs")) /\ Empty(d, "services")
Database(t, d) == Down5(t) /\ Bare(d) /\ Empty(d, "services") /\ Empty(d, "subs")
Ended(t, d) == t = <<>> /\ d.heap = {} /\ \A o \in Objects : d.ref[o] = 0

-----------------------------------------------------------------------------
(* The invariant.                                                           *)

\* A change of service s has been told to the subscriptions.
Told(t, d, s) ==
    \E c \in Clients :
       \/ \E k \in Conns, i \in Nat : Orphan3(t, d, c, k, i, s)
       \/ \E k \in Conns : Publish2(t, d, c, s, k) \/ Commit2(t, d, c, s, k)
       \/ Removal9(t, d, c, s)

ClientPoint(t, d) ==
    \E c \in Clients :
       \/ Connect1(t, d, c) \/ Connect2(t, d, c) \/ Reconnect(t, d, c)
       \/ Leave1(t, d, {}, c) \/ Leave2(t, d, c) \/ Leave3(t, d, c) \/ Destroy2(t, d, c)
       \/ \E i \in Nat \ {0} : Destroy1(t, d, c, i, {})
       \/ \E k \in Conns :
             \/ Subs4(t, d, c, k) \/ Keep(t, d, c, k)
             \/ Conn1(t, d, c, k) \/ Conn2(t, d, c, k) \/ Conn3(t, d, c, k)
             \/ Conn4(t, d, c, k) \/ Conn5(t, d, c, k)
             \/ \E i \in Nat \ {0} :
                   \/ Subs1(t, d, c, k, i) \/ Subs2(t, d, c, k, i) \/ Subs3(t, d, c, k, i)
                   \/ Orphan1(t, d, c, k, i) \/ Orphan2(t, d, c, k, i)

ServicePoint(t, d) ==
    \E c \in Clients, s \in Services :
       \/ Capture1(t, d, c, s) \/ Capture3(t, d, c, s)
       \/ Removal0(t, d, c, s) \/ Removal5(t, d, {}, c, s) \/ Removal6(t, d, c, s)
       \/ Removal7(t, d, c, s) \/ Removal8(t, d, c, s) \/ Removal10(t, d, c, s)
       \/ \E k \in Conns :
             \/ Publish1(t, d, c, s, k) \/ Publish3(t, d, c, s, k) \/ Publish4(t, d, c, s, k)
             \/ Capture2(t, d, c, s, k) \/ Commit1(t, d, c, s, k)
             \/ Removal1(t, d, c, s, k) \/ Removal2(t, d, c, s, k)
             \/ Removal3(t, d, c, s, k) \/ Removal4(t, d, c, s, k)

SubPoint(t, d) ==
    \E b \in Subs :
       \/ \E c \in Clients : Unsubscribe2(t, d, c, b)
       \/ \E c \in Clients, k \in Conns :
             Subscribe1(t, d, c, b, k) \/ Subscribe2(t, d, c, b, k) \/ Unsubscribe1(t, d, c, b, k)
       \/ \E i \in Nat \ {0} :
             Subscribe3(t, d, b, i) \/ \E s \in Services : Subscribe4(t, d, b, s, i)

RazePoint(t, d) ==
    \E c \in Clients, i \in Nat \ {0} :
       \/ Raze1(t, d, c, i) \/ Raze8(t, d, c, i)
       \/ \E j \in Nat \ {0} :
             \/ Raze2(t, d, c, i, j)
             \/ \E k \in Conns :
                   \/ Raze4(t, d, c, i, j, k) \/ Raze6(t, d, c, i, j, k) \/ Raze7(t, d, c, i, j, k)
                   \/ \E n \in Nat \ {0} :
                         Raze3(t, d, c, i, j, k, n) \/ Raze5(t, d, c, i, j, k, n)

DownPoint(t, d) ==
    \/ Timers2(t, d) \/ Clients2(t, d) \/ Services2(t, d) \/ Subscriptions2(t, d)
    \/ Database(t, d)
    \/ \E i \in Nat \ {0} :
          Timers1(t, d, i) \/ Clients1(t, d, i) \/ Services1(t, d, i) \/ Subscriptions1(t, d, i)

Point(t, d) ==
    \/ Idle(t, d) \/ Ended(t, d)
    \/ ClientPoint(t, d) \/ ServicePoint(t, d) \/ SubPoint(t, d)
    \/ RazePoint(t, d) \/ DownPoint(t, d)
    \/ \E s \in Services : Told(t, d, s)

\* The subscriptions are being told about service s.
ToldFrom(t, d, s, i) ==
    Starts(t, Foreach(Db, "subs", i, "notify_sub_service_changed", s)) /\ Told(Tail(t), d, s)
Telling(t, d) ==
    \E s \in Services, i \in Nat \ {0} :
       \/ ToldFrom(t, d, s, i)
       \/ \E b \in Subs : b \in d.heap /\ Starts(t, Notify(b, s)) /\ ToldFrom(Tail(t), d, s, i)

\* A reference is being given back, which may have been the last.
Dropping(t, d) ==
    \E o \in Objects :
       /\ Starts(t, Dec(o)) /\ o \in d.heap /\ d.ref[o] >= 2 /\ TypeOK(d)
       /\ Point(Tail(t), Dropped(d, o))
Freeing(t, d) ==
    \E o \in Services \cup Subs :
       /\ o \in d.heap /\ TypeOK(d)
       /\ \/ Starts(t, Dec(o)) /\ d.ref[o] = 1
          \/ Starts(t, Free(o)) /\ d.ref[o] = 0
       /\ Point(Tail(t), Freed(d, o))

Reached(t, d) == Point(t, d) \/ Telling(t, d) \/ Dropping(t, d) \/ Freeing(t, d)

-----------------------------------------------------------------------------
(* Programs as sequences.                                                   *)

LEMMA AnySeq ==
    ASSUME NEW S, NEW q \in Seq(S)
    PROVE  IsSeq(q)
BY DEF IsSeq, ToSet

LEMMA NoProgram == IsSeq(<<>>)
BY DEF IsSeq, ToSet

LEMMA TailSeq ==
    ASSUME NEW t, IsSeq(t), t # <<>>
    PROVE  IsSeq(Tail(t))
<1>1. Tail(t) \in Seq(ToSet(t))  BY DEF IsSeq
<1>. QED  BY <1>1, AnySeq

\* What a program starts with when it is pushed.
LEMMA Push ==
    ASSUME NEW q, NEW r, IsSeq(q), IsSeq(r), q # <<>>
    PROVE  /\ IsSeq(q \o r)
           /\ Starts(q \o r, Head(q)) /\ Tail(q \o r) = Tail(q) \o r
<1>. DEFINE S == ToSet(q) \cup ToSet(r)
<1>1. q \in Seq(S) /\ r \in Seq(S)  BY DEF IsSeq
<1>2. q \o r \in Seq(S)  BY <1>1
<1>3. Starts(q \o r, Head(q))  BY <1>1 DEF Starts
<1>4. Tail(q \o r) = Tail(q) \o r  BY <1>1
<1>. QED  BY <1>2, <1>3, <1>4, AnySeq

LEMMA PushNone ==
    ASSUME NEW r, IsSeq(r)
    PROVE  <<>> \o r = r /\ r \o <<>> = r
BY DEF IsSeq

\* One or two statements before others, named to be terms of their own.
Prog1(a, r) == <<a>> \o r
Prog2(a, b, r) == <<a, b>> \o r

LEMMA Push1 ==
    ASSUME NEW a, NEW r, IsSeq(r)
    PROVE  IsSeq(Prog1(a, r)) /\ Starts(Prog1(a, r), a) /\ Tail(Prog1(a, r)) = r
<1>. DEFINE q == <<a>>
<1>1. q \in Seq({a})  OBVIOUS
<1>2. q # <<>> /\ Head(q) = a /\ Tail(q) = <<>>  OBVIOUS
<1>. HIDE DEF q
<1>3. IsSeq(q)  BY <1>1, AnySeq
<1>4. IsSeq(q \o r) /\ Starts(q \o r, a) /\ Tail(q \o r) = <<>> \o r
  BY <1>2, <1>3, Push
<1>. QED  BY <1>4, PushNone DEF q, Prog1

LEMMA Push2 ==
    ASSUME NEW a, NEW b, NEW r, IsSeq(r)
    PROVE  /\ IsSeq(Prog2(a, b, r)) /\ Starts(Prog2(a, b, r), a)
           /\ Tail(Prog2(a, b, r)) = Prog1(b, r)
<1>. DEFINE q == <<a, b>>
<1>1. q \in Seq({a, b})  OBVIOUS
<1>2. q # <<>> /\ Head(q) = a /\ Tail(q) = <<b>>  OBVIOUS
<1>. HIDE DEF q
<1>3. IsSeq(q)  BY <1>1, AnySeq
<1>4. IsSeq(q \o r) /\ Starts(q \o r, a) /\ Tail(q \o r) = <<b>> \o r
  BY <1>2, <1>3, Push
<1>. QED  BY <1>4 DEF q, Prog1, Prog2

LEMMA Assoc ==
    ASSUME NEW p, NEW q, NEW r, IsSeq(p), IsSeq(q), IsSeq(r)
    PROVE  (p \o q) \o r = p \o (q \o r) /\ IsSeq(p \o q)
<1>. DEFINE S == ToSet(p) \cup ToSet(q) \cup ToSet(r)
<1>1. p \in Seq(S) /\ q \in Seq(S) /\ r \in Seq(S)  BY DEF IsSeq
<1>. HIDE DEF S
<1>2. p \o q \in Seq(S)  BY <1>1
<1>3. (p \o q) \o r = p \o (q \o r)  BY <1>1
<1>4. IsSeq(p \o q)  BY <1>2, AnySeq
<1>. QED  BY <1>3, <1>4

\* Programs that are written out.
LEMMA Tuple1 == ASSUME NEW a PROVE IsSeq(<<a>>) /\ Only(<<a>>, a)
<1>. DEFINE q == <<a>>
<1>1. q \in Seq({a})  OBVIOUS
<1>2. q # <<>> /\ Head(q) = a /\ Tail(q) = <<>>  OBVIOUS
<1>. HIDE DEF q
<1>3. IsSeq(q) /\ Only(q, a)  BY <1>1, <1>2, AnySeq DEF Only, Starts
<1>. QED  BY <1>3 DEF q

LEMMA Tuple2 ==
    ASSUME NEW a, NEW b
    PROVE  IsSeq(<<a, b>>) /\ Starts(<<a, b>>, a) /\ Tail(<<a, b>>) = <<b>>
<1>. DEFINE q == <<a, b>>
<1>1. q \in Seq({a, b})  OBVIOUS
<1>2. q # <<>> /\ Head(q) = a /\ Tail(q) = <<b>>  OBVIOUS
<1>. HIDE DEF q
<1>3. IsSeq(q) /\ Starts(q, a) /\ Tail(q) = <<b>>  BY <1>1, <1>2, AnySeq DEF Starts
<1>. QED  BY <1>3 DEF q

LEMMA Tuple3 ==
    ASSUME NEW a, NEW b, NEW c
    PROVE  LET t == <<a, b, c>>
           IN  IsSeq(t) /\ Starts(t, a) /\ Tail(t) = <<b, c>>
<1>. DEFINE q == <<a, b, c>>
<1>1. q \in Seq({a, b, c})  OBVIOUS
<1>2. q # <<>> /\ Head(q) = a /\ Tail(q) = <<b, c>>  OBVIOUS
<1>. HIDE DEF q
<1>3. IsSeq(q) /\ Starts(q, a) /\ Tail(q) = <<b, c>>  BY <1>1, <1>2, AnySeq DEF Starts
<1>. QED  BY <1>3 DEF q

LEMMA Tuple4 ==
    ASSUME NEW a, NEW b, NEW c, NEW d
    PROVE  LET t == <<a, b, c, d>>
           IN  IsSeq(t) /\ Starts(t, a) /\ Tail(t) = <<b, c, d>>
<1>. DEFINE q == <<a, b, c, d>>
<1>1. q \in Seq({a, b, c, d})  OBVIOUS
<1>2. q # <<>> /\ Head(q) = a /\ Tail(q) = <<b, c, d>>  OBVIOUS
<1>. HIDE DEF q
<1>3. IsSeq(q) /\ Starts(q, a) /\ Tail(q) = <<b, c, d>>  BY <1>1, <1>2, AnySeq DEF Starts
<1>. QED  BY <1>3 DEF q

Nine(a, b, c, d, e, f, g, h, i) == <<a, b, c, d, e, f, g, h, i>>

LEMMA Tuple9 ==
    ASSUME NEW a, NEW b, NEW c, NEW d, NEW e, NEW f, NEW g, NEW h, NEW i, NEW t,
           t = Nine(a, b, c, d, e, f, g, h, i)
    PROVE  /\ IsSeq(t) /\ Starts(t, a) /\ Starts(Tail(t), b) /\ Starts(Tail(Tail(t)), c)
           /\ Starts(Tail(Tail(Tail(t))), d)
           /\ Starts(Tail(Tail(Tail(Tail(t)))), e)
           /\ Starts(Tail(Tail(Tail(Tail(Tail(t))))), f)
           /\ Starts(Tail(Tail(Tail(Tail(Tail(Tail(t)))))), g)
           /\ Starts(Tail(Tail(Tail(Tail(Tail(Tail(Tail(t))))))), h)
           /\ Only(Tail(Tail(Tail(Tail(Tail(Tail(Tail(Tail(t)))))))), i)
<1>1. t \in Seq({a, b, c, d, e, f, g, h, i})  BY DEF Nine
<1>2. IsSeq(t)  BY <1>1, AnySeq
<1>. DEFINE q0 == <<a, b, c, d, e, f, g, h, i>>
            q1 == <<b, c, d, e, f, g, h, i>>
            q2 == <<c, d, e, f, g, h, i>>
            q3 == <<d, e, f, g, h, i>>
            q4 == <<e, f, g, h, i>>
            q5 == <<f, g, h, i>>
            q6 == <<g, h, i>>
            q7 == <<h, i>>
            q8 == <<i>>
<1>3. Starts(q0, a) /\ Tail(q0) = q1  BY DEF Starts
<1>4. Starts(q1, b) /\ Tail(q1) = q2  BY DEF Starts
<1>5. Starts(q2, c) /\ Tail(q2) = q3  BY DEF Starts
<1>6. Starts(q3, d) /\ Tail(q3) = q4  BY DEF Starts
<1>7. Starts(q4, e) /\ Tail(q4) = q5  BY DEF Starts
<1>8. Starts(q5, f) /\ Tail(q5) = q6  BY DEF Starts
<1>9. Starts(q6, g) /\ Tail(q6) = q7  BY DEF Starts
<1>10. Starts(q7, h) /\ Tail(q7) = q8  BY DEF Starts
<1>11. Only(q8, i)  BY Tuple1
<1>12. t = q0  BY DEF Nine
<1>. HIDE DEF q0, q1, q2, q3, q4, q5, q6, q7, q8
<1>. QED  BY <1>2, <1>3, <1>4, <1>5, <1>6, <1>7, <1>8, <1>9, <1>10, <1>11, <1>12

-----------------------------------------------------------------------------
(* Lists and maps.                                                          *)

LEMMA AppendList ==
    ASSUME NEW S, NEW q \in Seq(S), NEW o \in S, Injective(q), ~Contains(q, o)
    PROVE  /\ Append(q, o) \in Seq(S) /\ Injective(Append(q, o))
           /\ \A x : Contains(Append(q, o), x) <=> Contains(q, x) \/ x = o
           /\ ToSet(Append(q, o)) = ToSet(q) \cup {o}
<1>1. /\ Append(q, o) \in Seq(S) /\ Len(Append(q, o)) = Len(q) + 1
      /\ \A i \in 1..Len(q) : Append(q, o)[i] = q[i]
      /\ Append(q, o)[Len(q) + 1] = o
      /\ Len(q) \in Nat /\ DOMAIN q = 1..Len(q)
      /\ DOMAIN Append(q, o) = 1..Len(q) + 1
  OBVIOUS
<1>. DEFINE a == Append(q, o)
<1>. HIDE DEF a
<1>2. Injective(a)  BY <1>1 DEF Injective, Contains, a
<1>3. \A x : Contains(a, x) <=> Contains(q, x) \/ x = o
  <2>1. \A i \in 1..Len(q) + 1 : i \in 1..Len(q) \/ i = Len(q) + 1  BY <1>1
  <2>2. 1..Len(q) \subseteq 1..Len(q) + 1 /\ Len(q) + 1 \in 1..Len(q) + 1  BY <1>1
  <2>. QED  BY <1>1, <2>1, <2>2 DEF Contains, a
<1>4. ToSet(a) = ToSet(q) \cup {o}
  <2>1. \A x : x \in ToSet(a) <=> Contains(a, x)  BY <1>1 DEF ToSet, Contains, a
  <2>2. \A x : x \in ToSet(q) <=> Contains(q, x)  BY <1>1 DEF ToSet, Contains
  <2>. QED  BY <1>3, <2>1, <2>2
<1>. QED  BY <1>1, <1>2, <1>3, <1>4 DEF a

LEMMA LastIndex == \A N \in Nat : \A n \in 1..N : ~(n + 1 <= N) => n = N
OBVIOUS

LEMMA DeleteList ==
    ASSUME NEW S, NEW q \in Seq(S), NEW o, Injective(q), Contains(q, o)
    PROVE  /\ Deleted(q, o) \in Seq(S) /\ Injective(Deleted(q, o))
           /\ \A x : Contains(Deleted(q, o), x) <=> Contains(q, x) /\ x # o
<1>1. Len(q) \in Nat /\ DOMAIN q = 1..Len(q)  OBVIOUS
<1>. DEFINE n == CHOOSE i \in DOMAIN q : q[i] = o
<1>2. n \in 1..Len(q) /\ q[n] = o  BY <1>1 DEF Contains
<1>. HIDE DEF n
<1>. DEFINE a == RemoveAt(q, n)
<1>3. Deleted(q, o) = a  BY DEF Deleted, n
<1>4. /\ a \in Seq(S) /\ Len(a) = Len(q) - 1
      /\ \A i \in 1..Len(q) - 1 : a[i] = IF i < n THEN q[i] ELSE q[i + 1]
  <2>1. /\ SubSeq(q, 1, n - 1) \in Seq(S) /\ Len(SubSeq(q, 1, n - 1)) = n - 1
        /\ \A i \in 1..n - 1 : SubSeq(q, 1, n - 1)[i] = q[i]
    <3>1. n - 1 \in Int /\ (n - 1) - 1 + 1 = n - 1 /\ \A i \in 1..n - 1 : q[i] \in S
      BY <1>1, <1>2
    <3>. QED  BY <1>1, <1>2, <3>1, SubSeqProperties
  <2>2. /\ SubSeq(q, n + 1, Len(q)) \in Seq(S) /\ Len(SubSeq(q, n + 1, Len(q))) = Len(q) - n
        /\ \A i \in 1..Len(q) - n : SubSeq(q, n + 1, Len(q))[i] = q[i + n]
    <3>1. /\ n + 1 \in Int /\ Len(q) \in Int /\ Len(q) - (n + 1) + 1 = Len(q) - n
          /\ \A i \in n + 1..Len(q) : q[i] \in S
      BY <1>1, <1>2
    <3>2. \A i \in 1..Len(q) - n : n + 1 + i - 1 = i + n  BY <1>1, <1>2
    <3>. DEFINE m == n + 1
    <3>3. m \in Int /\ Len(q) \in Int /\ \A i \in m..Len(q) : q[i] \in S  BY <3>1
    <3>. HIDE DEF m
    <3>4. /\ SubSeq(q, m, Len(q)) \in Seq(S)
          /\ Len(SubSeq(q, m, Len(q))) = IF m <= Len(q) THEN Len(q) - m + 1 ELSE 0
          /\ \A i \in 1..Len(q) - m + 1 : SubSeq(q, m, Len(q))[i] = q[m + i - 1]
      BY <3>3, SubSeqProperties
    <3>5. Len(SubSeq(q, m, Len(q))) = Len(q) - n
      <4>1. CASE n + 1 <= Len(q)  BY <1>1, <1>2, <3>4, <4>1 DEF m
      <4>2. CASE ~(n + 1 <= Len(q))
        <5>1. n = Len(q)  BY <1>1, <1>2, <4>2, LastIndex
        <5>. QED  BY <1>1, <3>4, <4>2, <5>1 DEF m
      <4>. QED  BY <4>1, <4>2
    <3>6. \A i \in 1..Len(q) - n : SubSeq(q, m, Len(q))[i] = q[i + n]
      BY <1>1, <1>2, <3>1, <3>2, <3>4 DEF m
    <3>. QED  BY <3>4, <3>5, <3>6 DEF m
  <2>. DEFINE l == SubSeq(q, 1, n - 1)  r == SubSeq(q, n + 1, Len(q))
  <2>. HIDE DEF l, r
  <2>3. /\ l \o r \in Seq(S) /\ Len(l \o r) = Len(q) - 1
        /\ \A i \in 1..Len(q) - 1 : (l \o r)[i] = IF i <= Len(l) THEN l[i] ELSE r[i - Len(l)]
    <3>1. l \in Seq(S) /\ Len(l) = n - 1  BY <2>1 DEF l
    <3>2. r \in Seq(S) /\ Len(r) = Len(q) - n  BY <2>2 DEF r
    <3>3. Len(l) + Len(r) = Len(q) - 1  BY <1>1, <1>2, <3>1, <3>2
    <3>. QED  BY <3>1, <3>2, <3>3, ConcatProperties
  <2>4. \A i \in 1..Len(q) - 1 : i < n => (l \o r)[i] = q[i]
    <3>1. SUFFICES ASSUME NEW i \in 1..Len(q) - 1, i < n PROVE (l \o r)[i] = q[i]
      OBVIOUS
    <3>2. Len(l) = n - 1 /\ \A j \in 1..n - 1 : l[j] = q[j]  BY <2>1 DEF l
    <3>3. i <= Len(l) /\ i \in 1..n - 1  BY <1>1, <1>2, <3>1, <3>2
    <3>. QED  BY <2>3, <3>2, <3>3
  <2>5. \A i \in 1..Len(q) - 1 : ~(i < n) => (l \o r)[i] = q[i + 1]
    <3>1. SUFFICES ASSUME NEW i \in 1..Len(q) - 1, ~(i < n) PROVE (l \o r)[i] = q[i + 1]
      OBVIOUS
    <3>2. Len(l) = n - 1 /\ ~(i <= Len(l)) /\ i - (n - 1) \in 1..Len(q) - n
          /\ (i - (n - 1)) + n = i + 1
      BY <1>1, <1>2, <2>1, <3>1 DEF l
    <3>. QED  BY <2>2, <2>3, <3>2 DEF r
  <2>6. a = l \o r  BY DEF RemoveAt, l, r
  <2>. HIDE DEF a
  <2>. QED  BY <2>3, <2>4, <2>5, <2>6
<1>. HIDE DEF a
<1>5. DOMAIN a = 1..Len(q) - 1  BY <1>4
<1>6. Injective(a)
  <2>1. SUFFICES ASSUME NEW i \in 1..Len(q) - 1, NEW j \in 1..Len(q) - 1, a[i] = a[j]
                 PROVE  i = j
    BY <1>5 DEF Injective
  <2>. DEFINE I == IF i < n THEN i ELSE i + 1
              J == IF j < n THEN j ELSE j + 1
  <2>2. I \in DOMAIN q /\ J \in DOMAIN q /\ a[i] = q[I] /\ a[j] = q[J]  BY <1>1, <1>2, <1>4
  <2>3. I = J  BY <2>1, <2>2 DEF Injective
  <2>. QED  BY <1>1, <1>2, <2>3
<1>7. ASSUME NEW x PROVE Contains(a, x) <=> Contains(q, x) /\ x # o
  <2>1. ASSUME Contains(a, x) PROVE Contains(q, x) /\ x # o
    <3>1. Len(a) = Len(q) - 1
      BY <1>4
    <3>2. PICK i \in 1..Len(q) - 1 : a[i] = x
      BY <2>1, <3>1 DEF Contains
    <3>. DEFINE I == IF i < n THEN i ELSE i + 1
    <3>3. I \in 1..Len(q) /\ I \in DOMAIN q /\ q[I] = x /\ I # n
      BY <1>1, <1>2, <1>4, <3>2
    <3>. HIDE DEF I
    <3>4. q[n] = o /\ n \in DOMAIN q
      BY <1>1, <1>2
    <3>. QED  BY <3>3, <3>4 DEF Contains, Injective
  <2>2. ASSUME Contains(q, x), x # o PROVE Contains(a, x)
    <3>1. PICK i \in 1..Len(q) : q[i] = x  BY <2>2 DEF Contains
    <3>2. CASE i < n  BY <1>1, <1>2, <1>4, <3>1, <3>2 DEF Contains
    <3>3. CASE i > n
      <4>1. i - 1 \in 1..Len(q) - 1 /\ a[i - 1] = x  BY <1>1, <1>2, <1>4, <3>1, <3>3
      <4>. QED  BY <1>4, <4>1 DEF Contains
    <3>4. i # n  BY <1>2, <2>2, <3>1
    <3>. QED  BY <1>2, <3>1, <3>2, <3>3, <3>4
  <2>. QED  BY <2>1, <2>2
<1>. QED  BY <1>3, <1>4, <1>6, <1>7

\* A list without its elements before i, and the element at i.
LEMMA SweepList ==
    ASSUME NEW S, NEW q \in Seq(S), NEW i \in Nat \ {0}, Injective(q)
    PROVE  LET a == SubSeq(q, i, Len(q))
               b == SubSeq(q, i + 1, Len(q))
           IN  /\ a \in Seq(S) /\ Injective(a)
               /\ i > Len(q) => a = <<>>
               /\ i \in DOMAIN q =>
                     \A x : Contains(b, x) <=> Contains(a, x) /\ x # q[i]
               /\ i \in DOMAIN q => Contains(a, q[i]) /\ q[i] \in S
<1>1. Len(q) \in Nat /\ DOMAIN q = 1..Len(q)  OBVIOUS
<1>2. ASSUME NEW n \in Nat \ {0}
      PROVE  /\ SubSeq(q, n, Len(q)) \in Seq(S)
             /\ Len(SubSeq(q, n, Len(q))) = IF n <= Len(q) THEN Len(q) - n + 1 ELSE 0
             /\ \A j \in 1..Len(q) - n + 1 : SubSeq(q, n, Len(q))[j] = q[n + j - 1]
  BY <1>1, SubSeqProperties
<1>. DEFINE a == SubSeq(q, i, Len(q))
            b == SubSeq(q, i + 1, Len(q))
<1>3. /\ a \in Seq(S) /\ Len(a) = IF i <= Len(q) THEN Len(q) - i + 1 ELSE 0
      /\ \A j \in 1..Len(q) - i + 1 : a[j] = q[i + j - 1]
  BY <1>2
<1>4. /\ b \in Seq(S) /\ Len(b) = IF i + 1 <= Len(q) THEN Len(q) - i ELSE 0
      /\ \A j \in 1..Len(q) - i : b[j] = q[i + j]
  <2>1. i + 1 \in Nat \ {0} /\ Len(q) - (i + 1) + 1 = Len(q) - i
        /\ (i + 1 <= Len(q) => Len(q) - (i + 1) + 1 = Len(q) - i)
    BY <1>1
  <2>2. \A j \in 1..Len(q) - i : i + 1 + j - 1 = i + j  BY <1>1
  <2>. QED  BY <1>1, <1>2, <2>1, <2>2
<1>. HIDE DEF a, b
<1>5. Injective(a)
  <2>1. DOMAIN a = 1..Len(a)  BY <1>3
  <2>2. SUFFICES ASSUME NEW m \in 1..Len(a), NEW n \in 1..Len(a), a[m] = a[n] PROVE m = n
    BY <2>1 DEF Injective
  <2>3. m \in 1..Len(q) - i + 1 /\ n \in 1..Len(q) - i + 1  BY <1>1, <1>3
  <2>4. q[i + m - 1] = q[i + n - 1]  BY <1>3, <2>2, <2>3
  <2>5. i + m - 1 \in DOMAIN q /\ i + n - 1 \in DOMAIN q  BY <1>1, <2>3
  <2>6. i + m - 1 = i + n - 1  BY <2>4, <2>5 DEF Injective
  <2>. QED  BY <2>3, <2>6
<1>6. i > Len(q) => a = <<>>  BY <1>1, <1>3
<1>7. ASSUME i \in DOMAIN q PROVE Contains(a, q[i]) /\ q[i] \in S
  <2>1. 1 \in 1..Len(a) /\ a[1] = q[i]  BY <1>1, <1>3, <1>7
  <2>. QED  BY <1>1, <1>7, <2>1 DEF Contains
<1>8. ASSUME i \in DOMAIN q, NEW x PROVE Contains(b, x) <=> Contains(a, x) /\ x # q[i]
  <2>3. Len(b) = Len(q) - i
    <3>1. CASE i + 1 <= Len(q)  BY <1>4, <3>1
    <3>2. CASE ~(i + 1 <= Len(q))
      <4>1. i = Len(q)  BY <1>1, <1>8, <3>2, LastIndex
      <4>. QED  BY <1>1, <1>4, <3>2, <4>1
    <3>. QED  BY <3>1, <3>2
  <2>1. ASSUME Contains(b, x) PROVE Contains(a, x) /\ x # q[i]
    <3>1. PICK j \in 1..Len(b) : b[j] = x  BY <2>1 DEF Contains
    <3>2. j \in 1..Len(q) - i /\ q[i + j] = x
      BY <1>4, <2>3, <3>1
    <3>3. j + 1 \in 1..Len(a) /\ a[j + 1] = q[i + j]
      <4>1. j + 1 \in 1..Len(q) - i + 1 /\ i + (j + 1) - 1 = i + j /\ Len(a) = Len(q) - i + 1
        BY <1>1, <1>3, <1>8, <3>2
      <4>. QED  BY <1>3, <4>1
    <3>4. q[i + j] # q[i]  BY <1>1, <1>8, <3>2 DEF Injective
    <3>. QED  BY <3>2, <3>3, <3>4 DEF Contains
  <2>2. ASSUME Contains(a, x), x # q[i] PROVE Contains(b, x)
    <3>1. PICK j \in 1..Len(a) : a[j] = x  BY <2>2 DEF Contains
    <3>2. j \in 1..Len(q) - i + 1 /\ q[i + j - 1] = x  BY <1>1, <1>3, <1>8, <3>1
    <3>3. j # 1  BY <1>1, <1>8, <2>2, <3>2
    <3>6. j - 1 \in 1..Len(q) - i /\ i + (j - 1) = i + j - 1
      BY <1>1, <1>8, <3>2, <3>3
    <3>5. b[j - 1] = x  BY <1>4, <3>2, <3>6
    <3>. QED  BY <2>3, <3>5, <3>6 DEF Contains
  <2>. QED  BY <2>1, <2>2
<1>. QED  BY <1>3, <1>5, <1>6, <1>7, <1>8 DEF a, b

-----------------------------------------------------------------------------
(* What a step changes in the data.                                         *)

LEMMA Kinds ==
    /\ Kind("clients") = Clients /\ Kind("subs") = Subs
    /\ Kind("services") = Services /\ Kind("timers") = Services
    /\ \A m \in Maps : Kind(m) \subseteq Objects
BY DEF Kind, Maps, Objects

LEMMA SetListOK ==
    ASSUME NEW mp, MapsOK(mp), NEW h \in Hosts, NEW m \in Maps,
           NEW q \in Seq(Kind(m)), Injective(q)
    PROVE  /\ MapsOK(SetList(mp, h, m, q))
           /\ SetList(mp, h, m, q)[h][m] = q
           /\ \A h2 \in Hosts, m2 \in Maps : h2 # h \/ m2 # m =>
                 SetList(mp, h, m, q)[h2][m2] = mp[h2][m2]
<1>. DEFINE w == SetList(mp, h, m, q)
<1>1. q \in Seq(Objects)  BY Kinds
<1>2. /\ w \in [Hosts -> [Maps -> Seq(Objects)]]
      /\ w[h][m] = q
      /\ \A h2 \in Hosts, m2 \in Maps : h2 # h \/ m2 # m => w[h2][m2] = mp[h2][m2]
  BY <1>1 DEF MapsOK, SetList
<1>. HIDE DEF w
<1>3. ASSUME NEW h2 \in Hosts, NEW m2 \in Maps
      PROVE  w[h2][m2] \in Seq(Kind(m2)) /\ Injective(w[h2][m2])
  <2>1. CASE h2 = h /\ m2 = m  BY <1>2, <2>1
  <2>2. CASE ~(h2 = h /\ m2 = m)  BY <1>2, <2>2 DEF MapsOK
  <2>. QED  BY <2>1, <2>2
<1>4. MapsOK(w)  BY <1>2, <1>3 DEF MapsOK
<1>. QED  BY <1>2, <1>4 DEF w

LEMMA SetListPlaces ==
    ASSUME NEW mp, MapsOK(mp), NEW h \in Hosts, NEW m \in Maps,
           NEW q \in Seq(Kind(m)), Injective(q), NEW o
    PROVE  /\ <<h, m>> \in Places(SetList(mp, h, m, q), o) <=> Contains(q, o)
           /\ Places(SetList(mp, h, m, q), o) \ {<<h, m>>} = Places(mp, o) \ {<<h, m>>}
<1>. DEFINE w == SetList(mp, h, m, q)
<1>1. /\ w[h][m] = q
      /\ \A h2 \in Hosts, m2 \in Maps : h2 # h \/ m2 # m => w[h2][m2] = mp[h2][m2]
  BY SetListOK
<1>. HIDE DEF w
<1>2. \A v : \A h2 \in Hosts, m2 \in Maps : <<h2, m2>> \in Places(v, o) <=> Contains(v[h2][m2], o)
  BY DEF Places
<1>3. \A v : Places(v, o) \subseteq Hosts \X Maps  BY DEF Places
<1>4. <<h, m>> \in Places(w, o) <=> Contains(q, o)  BY <1>1, <1>2
<1>5. ASSUME NEW x \in Hosts \X Maps, x # <<h, m>>
      PROVE  x \in Places(w, o) <=> x \in Places(mp, o)
  <2>1. PICK h2 \in Hosts, m2 \in Maps : x = <<h2, m2>>  BY <1>5
  <2>2. h2 # h \/ m2 # m  BY <1>5, <2>1
  <2>. QED  BY <1>1, <1>2, <2>1, <2>2
<1>6. Places(w, o) \ {<<h, m>>} = Places(mp, o) \ {<<h, m>>}  BY <1>3, <1>5
<1>. QED  BY <1>4, <1>6 DEF w

LEMMA PlaceOf ==
    ASSUME NEW mp, NEW o, NEW h \in Hosts, NEW m \in Maps
    PROVE  <<h, m>> \in Places(mp, o) <=> Contains(mp[h][m], o)
BY DEF Places

LEMMA PlaceKind ==
    ASSUME NEW mp, MapsOK(mp), NEW o, NEW x \in Places(mp, o)
    PROVE  x \in Hosts \X Maps /\ o \in Kind(x[2])
<1>1. x \in Hosts \X Maps /\ Contains(mp[x[1]][x[2]], o)  BY DEF Places
<1>2. x[1] \in Hosts /\ x[2] \in Maps  BY <1>1
<1>. DEFINE q == mp[x[1]][x[2]]
<1>3. q \in Seq(Kind(x[2]))  BY <1>2 DEF MapsOK
<1>. HIDE DEF q
<1>4. Contains(q, o)  BY <1>1 DEF q
<1>. QED  BY <1>1, <1>3, <1>4 DEF Contains

\* The fields of the data.
LEMMA WithListFields ==
    ASSUME NEW d, IsData(d), NEW h, NEW m, NEW q
    PROVE  LET e == WithList(d, h, m, q)
           IN  /\ IsData(e)
               /\ e.map = SetList(d.map, h, m, q)
               /\ e.heap = d.heap /\ e.ref = d.ref /\ e.active = d.active
               /\ e.inactive = d.inactive /\ e.connected = d.connected /\ e.svc = d.svc
BY DEF IsData, WithList

LEMMA WithRefFields ==
    ASSUME NEW d, IsData(d), NEW o, NEW n
    PROVE  LET e == WithRef(d, o, n)
           IN  /\ IsData(e)
               /\ e.ref = [d.ref EXCEPT ![o] = n]
               /\ e.heap = d.heap /\ e.map = d.map /\ e.active = d.active
               /\ e.inactive = d.inactive /\ e.connected = d.connected /\ e.svc = d.svc
BY DEF IsData, WithRef

LEMMA FreedFields ==
    ASSUME NEW d, IsData(d), NEW o
    PROVE  LET e == Freed(d, o)
           IN  /\ IsData(e)
               /\ e.ref = [d.ref EXCEPT ![o] = 0] /\ e.heap = d.heap \ {o}
               /\ e.map = d.map /\ e.active = d.active
               /\ e.inactive = d.inactive /\ e.connected = d.connected /\ e.svc = d.svc
BY DEF IsData, WithRef, Freed

LEMMA DisownedFields ==
    ASSUME NEW d, IsData(d), NEW o
    PROVE  LET e == Disowned(d, o)
           IN  /\ IsData(e)
               /\ e.active = [d.active EXCEPT ![o] = Nil]
               /\ e.inactive = [d.inactive EXCEPT ![o] = <<>>]
               /\ e.heap = d.heap /\ e.ref = d.ref /\ e.map = d.map
               /\ e.connected = d.connected /\ e.svc = d.svc
BY DEF IsData, Disowned

-----------------------------------------------------------------------------
(* Steps that change one object only.                                       *)

Same(d, e, x) ==
    /\ x \in e.heap <=> x \in d.heap
    /\ e.ref[x] = d.ref[x]
    /\ Places(e.map, x) = Places(d.map, x)
    /\ x \in Services => e.svc[x] = d.svc[x]

Touches(d, e, o) ==
    /\ TypeOK(e)
    /\ e.active = d.active /\ e.inactive = d.inactive /\ e.connected = d.connected
    /\ \A h \in Hosts : h \in e.heap <=> h \in d.heap
    /\ \A x \in Objects \ {o} : Same(d, e, x)

LEMMA TouchesTwice ==
    ASSUME NEW d, NEW e, NEW f, NEW o, Touches(d, e, o), Touches(e, f, o)
    PROVE  Touches(d, f, o)
BY DEF Touches, Same

LEMMA ObjectsAreNoHosts ==
    ASSUME NEW o \in Objects, NEW h \in Hosts
    PROVE  o # h
BY DistinctConstants DEF Objects, Hosts

LEMMA WithRefOK ==
    ASSUME NEW d, TypeOK(d), NEW o \in Objects, NEW n \in Int
    PROVE  LET e == WithRef(d, o, n)
           IN  /\ Touches(d, e, o) /\ e.ref[o] = n
               /\ e.heap = d.heap /\ e.map = d.map /\ e.svc = d.svc
<1>. DEFINE e == WithRef(d, o, n)
<1>1. /\ IsData(e)
      /\ e.ref = [d.ref EXCEPT ![o] = n]
      /\ e.heap = d.heap /\ e.map = d.map /\ e.active = d.active
      /\ e.inactive = d.inactive /\ e.connected = d.connected /\ e.svc = d.svc
  BY WithRefFields DEF TypeOK
<1>. HIDE DEF e
<1>2. e.ref \in [Objects -> Int] /\ e.ref[o] = n /\ \A x \in Objects \ {o} : e.ref[x] = d.ref[x]
  BY <1>1 DEF TypeOK
<1>3. TypeOK(e)  BY <1>1, <1>2 DEF TypeOK
<1>4. Touches(d, e, o)  BY <1>1, <1>2, <1>3 DEF Touches, Same
<1>. QED  BY <1>1, <1>2, <1>4 DEF e

LEMMA FreedOK ==
    ASSUME NEW d, TypeOK(d), NEW o \in Objects
    PROVE  LET e == Freed(d, o)
           IN  /\ Touches(d, e, o) /\ e.ref[o] = 0 /\ o \notin e.heap
               /\ e.map = d.map /\ e.svc = d.svc
<1>. DEFINE e == Freed(d, o)
<1>1. /\ IsData(e)
      /\ e.ref = [d.ref EXCEPT ![o] = 0]
      /\ e.heap = d.heap \ {o} /\ e.map = d.map /\ e.active = d.active
      /\ e.inactive = d.inactive /\ e.connected = d.connected /\ e.svc = d.svc
  BY FreedFields DEF TypeOK
<1>. HIDE DEF e
<1>2. e.ref \in [Objects -> Int] /\ e.ref[o] = 0 /\ \A x \in Objects \ {o} : e.ref[x] = d.ref[x]
  BY <1>1 DEF TypeOK
<1>3. TypeOK(e)  BY <1>1, <1>2 DEF TypeOK
<1>4. Touches(d, e, o)  BY <1>1, <1>2, <1>3, ObjectsAreNoHosts DEF Touches, Same
<1>. QED  BY <1>1, <1>2, <1>4 DEF e

\* A list that only loses or gets o.
LEMMA WithListOK ==
    ASSUME NEW d, TypeOK(d), NEW h \in Hosts, NEW m \in Maps, NEW o,
           NEW q \in Seq(Kind(m)), Injective(q),
           \A x : x # o => (Contains(q, x) <=> Contains(d.map[h][m], x))
    PROVE  LET e == WithList(d, h, m, q)
           IN  /\ Touches(d, e, o)
               /\ e.heap = d.heap /\ e.ref = d.ref /\ e.svc = d.svc
               /\ Contains(q, o) => Places(e.map, o) = Places(d.map, o) \cup {<<h, m>>}
               /\ ~Contains(q, o) => Places(e.map, o) = Places(d.map, o) \ {<<h, m>>}
<1>. DEFINE e == WithList(d, h, m, q)
<1>1. /\ IsData(e)
      /\ e.map = SetList(d.map, h, m, q)
      /\ e.heap = d.heap /\ e.ref = d.ref /\ e.active = d.active
      /\ e.inactive = d.inactive /\ e.connected = d.connected /\ e.svc = d.svc
  BY WithListFields DEF TypeOK
<1>. HIDE DEF e
<1>2. MapsOK(d.map)  BY DEF TypeOK
<1>3. MapsOK(e.map)  BY <1>1, <1>2, SetListOK
<1>4. ASSUME NEW x
      PROVE  /\ <<h, m>> \in Places(e.map, x) <=> Contains(q, x)
             /\ Places(e.map, x) \ {<<h, m>>} = Places(d.map, x) \ {<<h, m>>}
             /\ <<h, m>> \in Places(d.map, x) <=> Contains(d.map[h][m], x)
  <2>1. <<h, m>> \in Places(d.map, x) <=> Contains(d.map[h][m], x)  BY PlaceOf
  <2>2. /\ <<h, m>> \in Places(SetList(d.map, h, m, q), x) <=> Contains(q, x)
        /\ Places(SetList(d.map, h, m, q), x) \ {<<h, m>>} = Places(d.map, x) \ {<<h, m>>}
    BY <1>2, SetListPlaces
  <2>. QED  BY <1>1, <2>1, <2>2
<1>5. TypeOK(e)  BY <1>1, <1>3 DEF TypeOK
<1>6. ASSUME NEW x, x # o PROVE Places(e.map, x) = Places(d.map, x)
  <2>1. Contains(q, x) <=> Contains(d.map[h][m], x)  BY <1>6
  <2>. DEFINE A == Places(e.map, x)  B == Places(d.map, x)  pl == <<h, m>>
  <2>2. (pl \in A <=> pl \in B) /\ A \ {pl} = B \ {pl}  BY <1>4, <2>1
  <2>. HIDE DEF A, B, pl
  <2>3. ASSUME NEW y PROVE y \in A <=> y \in B
    <3>1. CASE y = pl  BY <2>2, <3>1
    <3>2. CASE y # pl
      <4>1. (y \in A <=> y \in A \ {pl}) /\ (y \in B <=> y \in B \ {pl})  BY <3>2
      <4>. QED  BY <2>2, <4>1
    <3>. QED  BY <3>1, <3>2
  <2>4. A = B  BY <2>3
  <2>. QED  BY <2>4 DEF A, B
<1>7. Touches(d, e, o)  BY <1>1, <1>5, <1>6 DEF Touches, Same
<1>8. /\ Contains(q, o) => Places(e.map, o) = Places(d.map, o) \cup {<<h, m>>}
      /\ ~Contains(q, o) => Places(e.map, o) = Places(d.map, o) \ {<<h, m>>}
  BY <1>4
<1>. QED  BY <1>1, <1>7, <1>8 DEF e

LEMMA ListOK ==
    ASSUME NEW d, TypeOK(d), NEW h \in Hosts, NEW m \in Maps
    PROVE  d.map[h][m] \in Seq(Kind(m)) /\ Injective(d.map[h][m])
BY DEF TypeOK, MapsOK

\* Objects that are held in known places.
LEMMA IncHeld ==
    ASSUME NEW d, TypeOK(d), NEW o \in Objects, NEW r, NEW P, Held(d, o, r, P)
    PROVE  LET e == Inced(d, o)
           IN  Touches(d, e, o) /\ e.svc = d.svc /\ e.map = d.map /\ e.heap = d.heap
               /\ Held(e, o, r + 1, P)
<1>1. d.ref[o] \in Int  BY DEF TypeOK
<1>2. d.ref[o] + 1 \in Int  BY <1>1
<1>. QED  BY <1>1, <1>2, WithRefOK DEF Inced, Held

LEMMA DropHeld ==
    ASSUME NEW d, TypeOK(d), NEW o \in Objects, NEW r, NEW P, Held(d, o, r, P)
    PROVE  LET e == Dropped(d, o)
           IN  Touches(d, e, o) /\ e.svc = d.svc /\ e.map = d.map /\ e.heap = d.heap
               /\ Held(e, o, r - 1, P)
<1>1. d.ref[o] \in Int  BY DEF TypeOK
<1>2. d.ref[o] - 1 \in Int  BY <1>1
<1>. QED  BY <1>1, <1>2, WithRefOK DEF Dropped, Held

LEMMA FreeHeld ==
    ASSUME NEW d, TypeOK(d), NEW o \in Objects, Places(d.map, o) = {}
    PROVE  LET e == Freed(d, o)
           IN  Touches(d, e, o) /\ e.svc = d.svc /\ e.map = d.map /\ Gone(e, o)
BY FreedOK DEF Gone

LEMMA PutHeld ==
    ASSUME NEW d, TypeOK(d), NEW h \in Hosts, NEW m \in Maps, NEW o \in Kind(m),
           NEW r, NEW P, Held(d, o, r, P), <<h, m>> \notin P
    PROVE  LET e == Put(d, h, m, o)
           IN  /\ Touches(d, e, o) /\ e.svc = d.svc /\ e.heap = d.heap
               /\ Held(e, o, r + 1, P \cup {<<h, m>>})
<1>1. o \in Objects  BY Kinds
<1>. DEFINE f == Inced(d, o)  q == Append(d.map[h][m], o)
<1>2. /\ Touches(d, f, o) /\ f.svc = d.svc /\ f.map = d.map /\ f.heap = d.heap
      /\ Held(f, o, r + 1, P)
  BY <1>1, IncHeld
<1>3. ~Contains(d.map[h][m], o)  BY PlaceOf DEF Held
<1>4. /\ q \in Seq(Kind(m)) /\ Injective(q)
      /\ \A x : Contains(q, x) <=> Contains(d.map[h][m], x) \/ x = o
  BY <1>3, ListOK, AppendList
<1>5. TypeOK(f)  BY <1>2 DEF Touches
<1>. HIDE DEF f, q
<1>6. LET e == WithList(f, h, m, q)
      IN  /\ Touches(f, e, o)
          /\ e.heap = f.heap /\ e.ref = f.ref /\ e.svc = f.svc
          /\ Places(e.map, o) = Places(f.map, o) \cup {<<h, m>>}
  BY <1>2, <1>4, <1>5, WithListOK
<1>7. Put(d, h, m, o) = WithList(f, h, m, q)  BY DEF Put, f, q
<1>. DEFINE e == WithList(f, h, m, q)
<1>. HIDE DEF e
<1>8. /\ Touches(f, e, o) /\ e.heap = f.heap /\ e.ref = f.ref /\ e.svc = f.svc
      /\ Places(e.map, o) = Places(f.map, o) \cup {<<h, m>>}
      /\ Put(d, h, m, o) = e
  BY <1>6, <1>7 DEF e
<1>. QED  BY <1>2, <1>8, TouchesTwice DEF Held

LEMMA TakeHeld ==
    ASSUME NEW d, TypeOK(d), NEW h \in Hosts, NEW m \in Maps, NEW o \in Kind(m),
           NEW r, NEW P, Held(d, o, r, P), <<h, m>> \in P
    PROVE  LET e == Taken(d, h, m, o)
           IN  /\ Touches(d, e, o) /\ e.svc = d.svc /\ e.heap = d.heap
               /\ Held(e, o, r, P \ {<<h, m>>})
<1>. DEFINE q == Deleted(d.map[h][m], o)
<1>3. Contains(d.map[h][m], o)  BY PlaceOf DEF Held
<1>4. /\ q \in Seq(Kind(m)) /\ Injective(q)
      /\ \A x : Contains(q, x) <=> Contains(d.map[h][m], x) /\ x # o
  BY <1>3, ListOK, DeleteList
<1>. HIDE DEF q
<1>6. LET e == WithList(d, h, m, q)
      IN  /\ Touches(d, e, o)
          /\ e.heap = d.heap /\ e.ref = d.ref /\ e.svc = d.svc
          /\ Places(e.map, o) = Places(d.map, o) \ {<<h, m>>}
  BY <1>4, WithListOK
<1>7. Taken(d, h, m, o) = WithList(d, h, m, q)  BY DEF Taken, q
<1>. QED  BY <1>6, <1>7 DEF Held

\* The deletion of an object and the step that gives its reference back.
LEMMA TakeDropHeld ==
    ASSUME NEW d, TypeOK(d), NEW h \in Hosts, NEW m \in Maps, NEW o \in Kind(m),
           NEW r, NEW P, Held(d, o, r, P), <<h, m>> \in P
    PROVE  LET e == Dropped(Taken(d, h, m, o), o)
           IN  /\ Touches(d, e, o) /\ e.svc = d.svc /\ e.heap = d.heap
               /\ Held(e, o, r - 1, P \ {<<h, m>>})
<1>. DEFINE f == Taken(d, h, m, o)  Q == P \ {<<h, m>>}
<1>1. Touches(d, f, o) /\ f.svc = d.svc /\ f.heap = d.heap /\ Held(f, o, r, Q)
  BY TakeHeld
<1>. HIDE DEF f, Q
<1>2. TypeOK(f) /\ o \in Objects  BY <1>1, Kinds DEF Touches
<1>3. LET e == Dropped(f, o)
      IN  Touches(f, e, o) /\ e.svc = f.svc /\ e.map = f.map /\ e.heap = f.heap
          /\ Held(e, o, r - 1, Q)
  BY <1>1, <1>2, DropHeld
<1>4. LET e == Dropped(f, o)
      IN  Touches(d, e, o) /\ e.svc = d.svc /\ e.heap = d.heap /\ Held(e, o, r - 1, Q)
  BY <1>1, <1>3, TouchesTwice
<1>. QED  BY <1>4 DEF f, Q

LEMMA TakeFreeHeld ==
    ASSUME NEW d, TypeOK(d), NEW h \in Hosts, NEW m \in Maps, NEW o \in Kind(m),
           NEW r, Held(d, o, r, {<<h, m>>})
    PROVE  LET e == Freed(Taken(d, h, m, o), o)
           IN  Touches(d, e, o) /\ e.svc = d.svc /\ Gone(e, o)
<1>. DEFINE f == Taken(d, h, m, o)
<1>1. Touches(d, f, o) /\ f.svc = d.svc /\ Held(f, o, r, {<<h, m>>} \ {<<h, m>>})
  BY TakeHeld
<1>. HIDE DEF f
<1>2. TypeOK(f) /\ o \in Objects /\ Places(f.map, o) = {}  BY <1>1, Kinds DEF Touches, Held
<1>3. LET e == Freed(f, o)
      IN  Touches(f, e, o) /\ e.svc = f.svc /\ Gone(e, o)
  BY <1>2, FreeHeld
<1>4. LET e == Freed(f, o)
      IN  Touches(d, e, o) /\ e.svc = d.svc /\ Gone(e, o)
  BY <1>1, <1>3, TouchesTwice
<1>. QED  BY <1>4 DEF f

-----------------------------------------------------------------------------
(* Data between calls, and what a step that changes one object leaves.      *)

OK(d, L, o) ==
    /\ o \in Clients => ClientOK(d, L, o)
    /\ o \in Services => ServiceOK(d, L, o)
    /\ o \in Subs => SubOK(d, o)

LEMMA TouchesOwned ==
    ASSUME NEW d, NEW e, NEW o, Touches(d, e, o), NEW c, NEW L
    PROVE  Own(e, c) = Own(d, c) /\ Owned(e, L, c) = Owned(d, L, c)
BY DEF Touches, Own, Owned

LEMMA TouchesStructure ==
    ASSUME NEW d, NEW L, NEW e, NEW o, Touches(d, e, o), Structure(d, L)
    PROVE  Structure(e, L)
<1>1. \A c \in Clients : Own(e, c) = Own(d, c) /\ Owned(e, L, c) = Owned(d, L, c)
  BY TouchesOwned
<1>2. TypeOK(e) /\ \A h \in Hosts : h \in e.heap <=> h \in d.heap  BY DEF Touches
<1>3. Db \in Hosts /\ Conns \subseteq Hosts  BY DEF Hosts
<1>4. Db \in e.heap  BY <1>2, <1>3 DEF Structure
<1>5. \A c \in Clients : Owned(d, L, c) \subseteq Conns
  <2>1. SUFFICES ASSUME NEW c \in Clients, NEW k \in Owned(d, L, c) PROVE k \in Conns
    OBVIOUS
  <2>2. d.active[c] \in Conns \cup {Nil} /\ d.inactive[c] \in Seq(Conns)
    BY DEF Structure, TypeOK
  <2>3. \A x \in ToSet(d.inactive[c]) : x \in Conns  BY <2>2 DEF ToSet
  <2>. QED  BY <2>2, <2>3 DEF Owned, Own
<1>6. \A c \in Clients : Owned(e, L, c) \subseteq e.heap
  BY <1>1, <1>2, <1>3, <1>5 DEF Structure
<1>7. \A k \in Conns \cap e.heap : \E c \in Clients : k \in Owned(e, L, c)
  BY <1>1, <1>2, <1>3 DEF Structure
<1>. QED  BY <1>1, <1>2, <1>4, <1>6, <1>7 DEF Structure

LEMMA TouchesLinked ==
    ASSUME NEW d, NEW e, NEW o, Touches(d, e, o), Linked(d)
    PROVE  Linked(e)
BY DEF Touches, Linked

LEMMA SameOK ==
    ASSUME NEW d, NEW L, NEW e, NEW o, Touches(d, e, o), NEW x \in Objects \ {o}, OK(d, L, x)
    PROVE  OK(e, L, x)
<1>1. Same(d, e, x) /\ e.connected = d.connected  BY DEF Touches
<1>2. \A c \in Clients : Owned(e, L, c) = Owned(d, L, c)  BY TouchesOwned
<1>3. \A r, P : Held(d, x, r, P) => Held(e, x, r, P)  BY <1>1 DEF Same, Held
<1>4. Gone(d, x) => Gone(e, x)  BY <1>1 DEF Same, Gone
<1>5. x \in Clients /\ ClientOK(d, L, x) => ClientOK(e, L, x)
  BY <1>2, <1>3, <1>4 DEF ClientOK
<1>6. x \in Services /\ ServiceOK(d, L, x) => ServiceOK(e, L, x)
  BY <1>1, <1>2, <1>3, <1>4 DEF ServiceOK, ServiceIn, HeldService, Same
<1>7. x \in Subs /\ SubOK(d, x) => SubOK(e, x)
  BY <1>1, <1>3, <1>4 DEF SubOK
<1>. QED  BY <1>5, <1>6, <1>7 DEF OK

LEMMA GoodOK ==
    ASSUME NEW d, NEW L, NEW X
    PROVE  Good(d, L, X) <=>
              Structure(d, L) /\ Linked(d) /\ \A o \in Objects \ X : OK(d, L, o)
<1>1. Clients \subseteq Objects /\ Services \subseteq Objects /\ Subs \subseteq Objects
  BY DEF Objects
<1>2. \A o \in Objects : o \in Clients \/ o \in Services \/ o \in Subs  BY DEF Objects
<1>. QED  BY <1>1, <1>2 DEF Good, OK

LEMMA GoodStep ==
    ASSUME NEW d, NEW L, NEW X, NEW e, NEW o, NEW Y,
           Good(d, L, X), Touches(d, e, o), X \subseteq Y \cup {o},
           o \in Y \/ OK(e, L, o)
    PROVE  Good(e, L, Y)
<1>1. Structure(d, L) /\ Linked(d) /\ \A x \in Objects \ X : OK(d, L, x)  BY GoodOK
<1>2. Structure(e, L) /\ Linked(e)  BY <1>1, TouchesStructure, TouchesLinked
<1>3. ASSUME NEW x \in Objects \ Y PROVE OK(e, L, x)
  <2>1. CASE x = o  BY <2>1, <1>3
  <2>2. CASE x # o  BY <2>2, <1>1, <1>3, SameOK
  <2>. QED  BY <2>1, <2>2
<1>. QED  BY <1>2, <1>3, GoodOK

LEMMA GoodType ==
    ASSUME NEW d, NEW L, NEW X, Good(d, L, X)
    PROVE  TypeOK(d) /\ Db \in d.heap
BY DEF Good, Structure

\* The steps that create an object or commit a service.
Created(d, o) ==
    [heap |-> d.heap \cup {o}, ref |-> [d.ref EXCEPT ![o] = 1], map |-> d.map,
     active |-> d.active, inactive |-> d.inactive, connected |-> d.connected, svc |-> d.svc]
Committed(d, s, v) ==
    [heap |-> d.heap, ref |-> d.ref, map |-> d.map, active |-> d.active,
     inactive |-> d.inactive, connected |-> d.connected, svc |-> [d.svc EXCEPT ![s] = v]]

LEMMA CreateHeld ==
    ASSUME NEW d, TypeOK(d), NEW o \in Objects, Gone(d, o)
    PROVE  LET e == Created(d, o)
           IN  Touches(d, e, o) /\ Held(e, o, 1, {}) /\ e.svc = d.svc /\ e.map = d.map
<1>. DEFINE e == Created(d, o)
<1>1. /\ IsData(e)
      /\ e.ref = [d.ref EXCEPT ![o] = 1]
      /\ e.heap = d.heap \cup {o} /\ e.map = d.map /\ e.active = d.active
      /\ e.inactive = d.inactive /\ e.connected = d.connected /\ e.svc = d.svc
  BY DEF IsData, Created
<1>. HIDE DEF e
<1>2. e.ref \in [Objects -> Int] /\ e.ref[o] = 1 /\ \A x \in Objects \ {o} : e.ref[x] = d.ref[x]
  BY <1>1 DEF TypeOK
<1>3. TypeOK(e)  BY <1>1, <1>2 DEF TypeOK
<1>4. Touches(d, e, o)  BY <1>1, <1>2, <1>3, ObjectsAreNoHosts DEF Touches, Same
<1>5. Held(e, o, 1, {})  BY <1>1, <1>2 DEF Held, Gone
<1>. QED  BY <1>1, <1>4, <1>5 DEF e

LEMMA CommitHeld ==
    ASSUME NEW d, TypeOK(d), NEW s \in Services, NEW v \in SvcType
    PROVE  LET e == Committed(d, s, v)
           IN  /\ Touches(d, e, s) /\ e.svc[s] = v /\ e.heap = d.heap /\ e.map = d.map
               /\ \A r, P : Held(d, s, r, P) => Held(e, s, r, P)
<1>. DEFINE e == Committed(d, s, v)
<1>1. /\ IsData(e)
      /\ e.svc = [d.svc EXCEPT ![s] = v]
      /\ e.heap = d.heap /\ e.map = d.map /\ e.active = d.active /\ e.ref = d.ref
      /\ e.inactive = d.inactive /\ e.connected = d.connected
  BY DEF IsData, Committed
<1>. HIDE DEF e
<1>2. /\ e.svc \in [Services -> SvcType] /\ e.svc[s] = v
      /\ \A x \in Services \ {s} : e.svc[x] = d.svc[x]
  BY <1>1 DEF TypeOK
<1>3. TypeOK(e)  BY <1>1, <1>2 DEF TypeOK
<1>4. Touches(d, e, s)  BY <1>1, <1>2, <1>3 DEF Touches, Same
<1>5. \A r, P : Held(d, s, r, P) => Held(e, s, r, P)  BY <1>1 DEF Held
<1>. QED  BY <1>1, <1>2, <1>4, <1>5 DEF e

-----------------------------------------------------------------------------
(* Where the objects are when nothing is being worked on.                   *)

LEMMA MapNames ==
    /\ "clients" \in Maps /\ "services" \in Maps /\ "subs" \in Maps /\ "timers" \in Maps
    /\ Db \in Hosts /\ Conns \subseteq Hosts
BY DEF Maps, Hosts

LEMMA OwnedConns ==
    ASSUME NEW d, TypeOK(d), NEW L, NEW c \in Clients
    PROVE  Owned(d, L, c) \subseteq Conns /\ Own(d, c) \subseteq Owned(d, L, c)
<1>1. d.active[c] \in Conns \cup {Nil} /\ d.inactive[c] \in Seq(Conns)  BY DEF TypeOK
<1>2. \A x \in ToSet(d.inactive[c]) : x \in Conns  BY <1>1 DEF ToSet
<1>. QED  BY <1>1, <1>2 DEF Owned, Own

LEMMA ListMember ==
    ASSUME NEW d, TypeOK(d), NEW h \in Hosts, NEW m \in Maps, NEW i \in DOMAIN d.map[h][m]
    PROVE  LET x == d.map[h][m][i]
           IN  x \in Kind(m) /\ x \in Objects /\ <<h, m>> \in Places(d.map, x)
<1>1. d.map[h][m] \in Seq(Kind(m))  BY ListOK
<1>2. d.map[h][m][i] \in Kind(m)  BY <1>1
<1>3. Contains(d.map[h][m], d.map[h][m][i])  BY <1>1 DEF Contains
<1>. QED  BY <1>2, <1>3, Kinds, PlaceOf

LEMMA NoMember ==
    ASSUME NEW d, TypeOK(d), NEW h \in Hosts, NEW m \in Maps,
           \A x \in Kind(m) : <<h, m>> \notin Places(d.map, x)
    PROVE  d.map[h][m] = <<>>
<1>1. d.map[h][m] \in Seq(Kind(m))  BY ListOK
<1>2. DOMAIN d.map[h][m] = {}  BY ListMember
<1>. DEFINE q == d.map[h][m]
<1>. HIDE DEF q
<1>3. q \in Seq(Kind(m)) /\ DOMAIN q = {}  BY <1>1, <1>2 DEF q
<1>4. q = <<>>  BY <1>3
<1>. QED  BY <1>4 DEF q

LEMMA MemberOf ==
    ASSUME NEW d, TypeOK(d), NEW h \in Hosts, NEW m \in Maps, NEW x
    PROVE  /\ x \in ToSet(d.map[h][m]) <=> <<h, m>> \in Places(d.map, x)
           /\ x \in ToSet(d.map[h][m]) => x \in Kind(m)
<1>1. d.map[h][m] \in Seq(Kind(m))  BY ListOK
<1>2. x \in ToSet(d.map[h][m]) <=> Contains(d.map[h][m], x)  BY <1>1 DEF ToSet, Contains
<1>3. x \in ToSet(d.map[h][m]) => x \in Kind(m)  BY <1>1 DEF ToSet
<1>. QED  BY <1>2, <1>3, PlaceOf

\* A service that a connection or the database has is in one connection of
\* its owner.
LEMMA ServiceAt ==
    ASSUME NEW d, NEW L, NEW X, Good(d, L, X), NEW s \in Services \ X,
           s \in d.heap \/ Places(d.map, s) # {}
    PROVE  \E k \in Conns : ServiceIn(d, L, s, k)
BY DEF Good, ServiceOK, Gone

LEMMA ServicePlaces ==
    ASSUME NEW d, NEW L, NEW s, NEW k, ServiceIn(d, L, s, k)
    PROVE  /\ s \in d.heap
           /\ <<Db, "services">> \in Places(d.map, s)
           /\ \A k2 \in Conns : <<k2, "services">> \in Places(d.map, s) => k2 = k
           /\ \A k2 \in Conns : <<k2, "subs">> \notin Places(d.map, s)
           /\ <<Db, "timers">> \in Places(d.map, s) <=> d.svc[s].orphan
<1>1. \A k2 \in Conns : k2 # Db  BY DistinctConstants
<1>. QED  BY <1>1 DEF ServiceIn, HeldService, Held, Published, TimerPlace

LEMMA ServiceOfConn ==
    ASSUME NEW d, NEW L, NEW X, Good(d, L, X), NEW s \in Services \ X, NEW k \in Conns,
           <<k, "services">> \in Places(d.map, s)
    PROVE  ServiceIn(d, L, s, k)
<1>1. PICK k2 \in Conns : ServiceIn(d, L, s, k2)  BY ServiceAt
<1>2. k = k2  BY <1>1, ServicePlaces
<1>. QED  BY <1>1, <1>2

LEMMA SubAt ==
    ASSUME NEW d, NEW L, NEW X, Good(d, L, X), NEW b \in Subs \ X,
           b \in d.heap \/ Places(d.map, b) # {}
    PROVE  \E k \in d.connected : Held(d, b, 2, {<<Db, "subs">>, <<k, "subs">>})
BY DEF Good, SubOK, Gone

LEMMA SubOfConn ==
    ASSUME NEW d, NEW L, NEW X, Good(d, L, X), NEW b \in Subs \ X, NEW k \in Conns,
           <<k, "subs">> \in Places(d.map, b)
    PROVE  k \in d.connected /\ Held(d, b, 2, {<<Db, "subs">>, <<k, "subs">>})
<1>1. PICK k2 \in d.connected : Held(d, b, 2, {<<Db, "subs">>, <<k2, "subs">>})
  BY SubAt
<1>2. k # Db  BY DistinctConstants
<1>3. <<k, "subs">> \in {<<Db, "subs">>, <<k2, "subs">>}  BY <1>1 DEF Held
<1>4. k = k2  BY <1>2, <1>3
<1>. QED  BY <1>1, <1>4

\* Connections that are not marked as disconnected have no subscriptions.
LEMMA NoSubs ==
    ASSUME NEW d, NEW L, NEW X, Good(d, L, X), NEW k \in Conns, k \notin d.connected,
           \A b \in Subs \cap X : <<k, "subs">> \notin Places(d.map, b)
    PROVE  d.map[k]["subs"] = <<>>
<1>1. \A b \in Subs : <<k, "subs">> \notin Places(d.map, b)  BY SubOfConn
<1>. QED  BY <1>1, NoMember, MapNames, Kinds, GoodType

LEMMA OwnerKnown ==
    ASSUME NEW d, NEW L, NEW X, Good(d, L, X), NEW c \in Clients \ X,
           c \in d.heap \/ Owned(d, L, c) # {} \/ Places(d.map, c) # {}
    PROVE  Held(d, c, 1, {<<Db, "clients">>})
BY DEF Good, ClientOK, Gone

LEMMA SameOwner ==
    ASSUME NEW d, NEW L, NEW X, Good(d, L, X), NEW c \in Clients, NEW c2 \in Clients,
           NEW k \in Owned(d, L, c), k \in Owned(d, L, c2)
    PROVE  c = c2
BY DEF Good, Structure

-----------------------------------------------------------------------------
(* Connections.                                                             *)

\* Connections may pass between their client and the call.
LEMMA RehungStructure ==
    ASSUME NEW d, NEW L, Structure(d, L), NEW e, NEW M, TypeOK(e), e.heap = d.heap,
           \A c \in Clients : Owned(e, M, c) = Owned(d, L, c),
           \A c \in Clients, k \in Conns : <<c, k>> \in M => k \notin Own(e, c)
    PROVE  Structure(e, M)
BY DEF Structure

LEMMA Rehung ==
    ASSUME NEW d, NEW L, NEW X, Good(d, L, X), NEW e, NEW M, TypeOK(e),
           e.heap = d.heap, e.ref = d.ref, e.map = d.map, e.connected = d.connected,
           e.svc = d.svc, Linked(e),
           \A c \in Clients : Owned(e, M, c) = Owned(d, L, c),
           \A c \in Clients, k \in Conns : <<c, k>> \in M => k \notin Own(e, c)
    PROVE  Good(e, M, X)
<1>1. Structure(e, M)  BY RehungStructure DEF Good
<1>2. ASSUME NEW o \in Objects, OK(d, L, o) PROVE OK(e, M, o)
  <2>1. o \in Clients => ClientOK(e, M, o)  BY <1>2 DEF OK, ClientOK, Held, Gone
  <2>2. o \in Services => ServiceOK(e, M, o)
    BY <1>2 DEF OK, ServiceOK, ServiceIn, HeldService, Held, Gone
  <2>3. o \in Subs => SubOK(e, o)  BY <1>2 DEF OK, SubOK, Held, Gone
  <2>. QED  BY <2>1, <2>2, <2>3 DEF OK
<1>. QED  BY <1>1, <1>2, GoodOK

WithConn(d, c, k) ==
    [heap |-> d.heap \cup {k}, ref |-> d.ref, map |-> d.map,
     active |-> [d.active EXCEPT ![c] = k], inactive |-> d.inactive,
     connected |-> d.connected \cup {k}, svc |-> d.svc]

LEMMA ConnAdded ==
    ASSUME NEW d, NEW X, Good(d, {}, X), NEW c \in Clients, NEW k \in Conns \ d.heap,
           c \in d.heap, d.active[c] = Nil
    PROVE  LET e == WithConn(d, c, k)
           IN  /\ Good(e, {}, X)
               /\ \A r, P : Held(d, c, r, P) => Held(e, c, r, P)
<1>. DEFINE e == WithConn(d, c, k)
<1>1. /\ IsData(e) /\ e.heap = d.heap \cup {k} /\ e.ref = d.ref /\ e.map = d.map
      /\ e.active = [d.active EXCEPT ![c] = k] /\ e.inactive = d.inactive
      /\ e.connected = d.connected \cup {k} /\ e.svc = d.svc
  BY DEF IsData, WithConn
<1>. HIDE DEF e
<1>2. TypeOK(d) /\ Db \in d.heap  BY GoodType
<1>3. \A c2 \in Clients :
         Owned(d, {}, c2) \subseteq d.heap \cap Conns /\ Owned(d, {}, c2) = Own(d, c2)
  BY <1>2, OwnedConns DEF Good, Structure, Owned
<1>4. /\ e.active \in [Clients -> Conns \cup {Nil}] /\ e.active[c] = k
      /\ \A c2 \in Clients \ {c} : e.active[c2] = d.active[c2]
  BY <1>1, <1>2 DEF TypeOK
<1>5. k # Nil /\ k \notin Objects  BY DistinctConstants
<1>6. /\ \A c2 \in Clients \ {c} : Own(e, c2) = Own(d, c2)
      /\ Own(e, c) = Own(d, c) \cup {k}
  BY <1>1, <1>4, <1>5 DEF Own
<1>7. \A c2 \in Clients : k \notin Own(d, c2)  BY <1>3
<1>8. TypeOK(e)
  <2>1. \A c2 \in Clients : k \notin ToSet(d.inactive[c2])  BY <1>7 DEF Own
  <2>2. e.heap \subseteq Objects \cup Hosts /\ e.connected \subseteq Conns
    BY <1>1, <1>2, MapNames DEF TypeOK
  <2>. QED  BY <1>1, <1>2, <1>4, <2>1, <2>2 DEF TypeOK
<1>9. \A c2 \in Clients : Owned(e, {}, c2) = Own(e, c2)  BY DEF Owned
<1>10. Structure(e, {})
  <2>1. \A c1, c2 \in Clients : c1 # c2 => Own(d, c1) \cap Own(d, c2) = {}
    BY <1>3 DEF Good, Structure
  <2>2. \A c1, c2 \in Clients : c1 # c2 => Owned(e, {}, c1) \cap Owned(e, {}, c2) = {}
    BY <1>6, <1>7, <1>9, <2>1
  <2>3. \A c2 \in Clients : Owned(e, {}, c2) \subseteq e.heap
    BY <1>1, <1>3, <1>6, <1>9
  <2>4. \A x \in Conns \cap e.heap : \E c2 \in Clients : x \in Owned(e, {}, c2)
    BY <1>1, <1>3, <1>6, <1>9 DEF Good, Structure
  <2>. QED  BY <1>1, <1>2, <1>8, <2>2, <2>3, <2>4 DEF Structure
<1>11. Linked(e)
  <2>1. \A x \in d.connected : x # Nil  BY <1>2, DistinctConstants DEF TypeOK
  <2>2. \A x \in d.connected : \E c2 \in Clients \ {c} : d.active[c2] = x
    BY <2>1 DEF Good, Linked
  <2>. QED  BY <1>1, <1>4, <2>2 DEF Good, Linked
<1>12. ASSUME NEW o \in Objects, OK(d, {}, o) PROVE OK(e, {}, o)
  <2>1. \A r, P : Held(d, o, r, P) => Held(e, o, r, P)  BY <1>1 DEF Held
  <2>2. Gone(d, o) => Gone(e, o)  BY <1>1, <1>5 DEF Gone
  <2>3. o \in Clients => ClientOK(e, {}, o)
    BY <1>3, <1>6, <1>9, <1>12, <2>1, <2>2 DEF OK, ClientOK, Gone
  <2>4. o \in Services => ServiceOK(e, {}, o)
    <3>1. SUFFICES ASSUME NEW k2 \in Conns, o \in Services, ServiceIn(d, {}, o, k2)
                   PROVE  ServiceIn(e, {}, o, k2)
      BY <1>12, <2>2 DEF OK, ServiceOK
    <3>2. k2 \in d.heap /\ k2 # k  BY <1>3, <3>1 DEF ServiceIn
    <3>. QED  BY <1>1, <1>3, <1>6, <1>9, <2>1, <3>1, <3>2 DEF ServiceIn, HeldService
  <2>5. o \in Subs => SubOK(e, o)  BY <1>1, <1>12, <2>1, <2>2 DEF OK, SubOK
  <2>. QED  BY <2>3, <2>4, <2>5 DEF OK
<1>13. Good(e, {}, X)  BY <1>10, <1>11, <1>12, GoodOK
<1>14. \A r, P : Held(d, c, r, P) => Held(e, c, r, P)  BY <1>1 DEF Held
<1>. QED  BY <1>13, <1>14 DEF e
\* client_disconnect() takes the connection from the client; the call has it
\* from here, and its subscriptions are worked on.
Parted(d, c, k) ==
    [heap |-> d.heap, ref |-> d.ref, map |-> d.map,
     active |-> [d.active EXCEPT ![c] = Nil], inactive |-> d.inactive,
     connected |-> d.connected \ {k}, svc |-> d.svc]

LEMMA PartedFields ==
    ASSUME NEW d, TypeOK(d), NEW c \in Clients, NEW k \in Conns, d.active[c] = k
    PROVE  LET e == Parted(d, c, k)
           IN  /\ TypeOK(e) /\ e.heap = d.heap /\ e.ref = d.ref /\ e.map = d.map
               /\ e.connected = d.connected \ {k} /\ e.svc = d.svc
               /\ e.active[c] = Nil /\ \A c2 \in Clients \ {c} : e.active[c2] = d.active[c2]
               /\ e.inactive = d.inactive
<1>. DEFINE e == Parted(d, c, k)
<1>1. /\ IsData(e) /\ e.heap = d.heap /\ e.ref = d.ref /\ e.map = d.map
      /\ e.active = [d.active EXCEPT ![c] = Nil] /\ e.inactive = d.inactive
      /\ e.connected = d.connected \ {k} /\ e.svc = d.svc
  BY DEF IsData, Parted
<1>. HIDE DEF e
<1>2. /\ e.active \in [Clients -> Conns \cup {Nil}] /\ e.active[c] = Nil
      /\ \A c2 \in Clients \ {c} : e.active[c2] = d.active[c2]
  BY <1>1 DEF TypeOK
<1>3. Nil \notin ToSet(d.inactive[c])
  <2>1. d.inactive[c] \in Seq(Conns)  BY DEF TypeOK
  <2>2. \A x \in ToSet(d.inactive[c]) : x \in Conns  BY <2>1 DEF ToSet
  <2>. QED  BY <2>2, DistinctConstants
<1>4. TypeOK(e)  BY <1>1, <1>2, <1>3 DEF TypeOK
<1>. QED  BY <1>1, <1>2, <1>4 DEF e

LEMMA ConnParted ==
    ASSUME NEW d, Good(d, {}, {}), NEW c \in Clients, NEW k \in Conns, d.active[c] = k
    PROVE  LET e == Parted(d, c, k)
           IN  /\ Good(e, {<<c, k>>}, ToSet(d.map[k]["subs"]))
               /\ e.heap = d.heap /\ e.map = d.map /\ k \notin e.connected /\ e.svc = d.svc
               /\ \A x \in Objects : \A r, P : Held(d, x, r, P) => Held(e, x, r, P)
<1>. DEFINE e == Parted(d, c, k)  S == ToSet(d.map[k]["subs"])  L == {<<c, k>>}
<1>1. TypeOK(d)  BY GoodType
<1>2. /\ TypeOK(e) /\ e.heap = d.heap /\ e.ref = d.ref /\ e.map = d.map
      /\ e.connected = d.connected \ {k} /\ e.svc = d.svc
      /\ e.active[c] = Nil /\ \A c2 \in Clients \ {c} : e.active[c2] = d.active[c2]
      /\ e.inactive = d.inactive
  BY <1>1, PartedFields
<1>3. k # Nil /\ k \notin ToSet(d.inactive[c])  BY <1>1, DistinctConstants DEF TypeOK
<1>4. \A c2 \in Clients : Owned(d, {}, c2) = Own(d, c2)  BY DEF Owned
<1>5. Own(e, c) = Own(d, c) \ {k} /\ \A c2 \in Clients \ {c} : Own(e, c2) = Own(d, c2)
  BY <1>2, <1>3 DEF Own, Parted
<1>6. k \in Own(d, c)  BY <1>3 DEF Own
<1>. HIDE DEF e
<1>7. \A c2 \in Clients : Owned(e, L, c2) = Owned(d, {}, c2)
  <2>1. Owned(e, L, c) = Own(e, c) \cup {k}  BY DEF Owned
  <2>2. \A c2 \in Clients \ {c} : Owned(e, L, c2) = Own(e, c2)  BY DEF Owned
  <2>. QED  BY <1>4, <1>5, <1>6, <2>1, <2>2
<1>8. Structure(e, L)
  <2>1. \A c2 \in Clients, x \in Conns : <<c2, x>> \in L => x \notin Own(e, c2)
    BY <1>5
  <2>. QED  BY <1>2, <1>7, <2>1 DEF Good, Structure
<1>9. Linked(e)
  <2>1. \A c2 \in Clients \ {c} : d.active[c2] # k
    BY <1>3, <1>4, <1>6 DEF Good, Structure, Own
  <2>. QED  BY <1>2, <2>1 DEF Good, Linked
<1>10. ASSUME NEW o \in Objects \ S PROVE OK(e, L, o)
  <2>1. OK(d, {}, o)  BY GoodOK
  <2>2. \A r, P : Held(d, o, r, P) => Held(e, o, r, P)  BY <1>2 DEF Held
  <2>3. Gone(d, o) => Gone(e, o)  BY <1>2 DEF Gone
  <2>4. o \in Clients => ClientOK(e, L, o)
    BY <1>7, <2>1, <2>2, <2>3 DEF OK, ClientOK
  <2>5. o \in Services => ServiceOK(e, L, o)
    BY <1>2, <1>7, <2>1, <2>2, <2>3 DEF OK, ServiceOK, ServiceIn, HeldService
  <2>6. o \in Subs => SubOK(e, o)
    <3>1. SUFFICES ASSUME o \in Subs, NEW k2 \in d.connected,
                          Held(d, o, 2, {<<Db, "subs">>, <<k2, "subs">>})
                   PROVE  k2 # k
      BY <1>2, <2>1, <2>2, <2>3 DEF OK, SubOK
    <3>2. <<k2, "subs">> \in Places(d.map, o)  BY <3>1 DEF Held
    <3>3. o \in S <=> <<k, "subs">> \in Places(d.map, o)  BY <1>1, MemberOf, MapNames
    <3>. QED  BY <3>2, <3>3
  <2>. QED  BY <2>4, <2>5, <2>6 DEF OK
<1>11. Good(e, L, S)  BY <1>8, <1>9, <1>10, GoodOK
<1>12. \A x \in Objects : \A r, P : Held(d, x, r, P) => Held(e, x, r, P)  BY <1>2 DEF Held
<1>13. Good(e, L, S) /\ e.heap = d.heap /\ e.map = d.map /\ k \notin e.connected /\ e.svc = d.svc
  BY <1>2, <1>11
<1>. QED  BY <1>12, <1>13 DEF e

\* keep_conn puts the connection into the client's list of inactive ones,
\* drop_conn takes it from there.
WithInactive(d, c, q) ==
    [heap |-> d.heap, ref |-> d.ref, map |-> d.map, active |-> d.active,
     inactive |-> [d.inactive EXCEPT ![c] = q], connected |-> d.connected, svc |-> d.svc]

LEMMA WithInactiveFields ==
    ASSUME NEW d, TypeOK(d), NEW c \in Clients, NEW q \in Seq(Conns), Injective(q),
           d.active[c] \notin ToSet(q)
    PROVE  LET e == WithInactive(d, c, q)
           IN  /\ TypeOK(e) /\ e.heap = d.heap /\ e.ref = d.ref /\ e.map = d.map
               /\ e.connected = d.connected /\ e.svc = d.svc /\ e.active = d.active
               /\ e.inactive[c] = q
               /\ \A c2 \in Clients \ {c} : e.inactive[c2] = d.inactive[c2]
<1>. DEFINE e == WithInactive(d, c, q)
<1>1. /\ IsData(e) /\ e.heap = d.heap /\ e.ref = d.ref /\ e.map = d.map
      /\ e.inactive = [d.inactive EXCEPT ![c] = q] /\ e.active = d.active
      /\ e.connected = d.connected /\ e.svc = d.svc
  BY DEF IsData, WithInactive
<1>. HIDE DEF e
<1>2. /\ e.inactive \in [Clients -> Seq(Conns)] /\ e.inactive[c] = q
      /\ \A c2 \in Clients \ {c} : e.inactive[c2] = d.inactive[c2]
  BY <1>1 DEF TypeOK
<1>3. TypeOK(e)  BY <1>1, <1>2 DEF TypeOK
<1>. QED  BY <1>1, <1>2, <1>3 DEF e

LEMMA ConnKept ==
    ASSUME NEW d, NEW X, NEW c \in Clients, NEW k \in Conns, Good(d, {<<c, k>>}, X)
    PROVE  Good(WithInactive(d, c, Append(d.inactive[c], k)), {}, X)
<1>. DEFINE q == Append(d.inactive[c], k)
            e == WithInactive(d, c, q)
<1>1. TypeOK(d)  BY GoodType
<1>2. k \notin Own(d, c)  BY DEF Good, Structure
<1>3. d.inactive[c] \in Seq(Conns) /\ Injective(d.inactive[c])
  BY <1>1 DEF TypeOK
<1>4. ~Contains(d.inactive[c], k)  BY <1>2, <1>3 DEF Own, Contains, ToSet
<1>5. q \in Seq(Conns) /\ Injective(q) /\ ToSet(q) = ToSet(d.inactive[c]) \cup {k}
  BY <1>3, <1>4, AppendList
<1>6. d.active[c] # k  BY <1>2, DistinctConstants DEF Own
<1>7. d.active[c] \notin ToSet(q)  BY <1>1, <1>5, <1>6 DEF TypeOK
<1>. HIDE DEF q
<1>8. /\ TypeOK(e) /\ e.heap = d.heap /\ e.ref = d.ref /\ e.map = d.map
      /\ e.connected = d.connected /\ e.svc = d.svc /\ e.active = d.active
      /\ e.inactive[c] = q
      /\ \A c2 \in Clients \ {c} : e.inactive[c2] = d.inactive[c2]
  BY <1>1, <1>5, <1>7, WithInactiveFields
<1>. HIDE DEF e
<1>9. Linked(e)  BY <1>8 DEF Good, Linked
<1>10. \A c2 \in Clients : Owned(e, {}, c2) = Owned(d, {<<c, k>>}, c2)
  <2>1. Own(e, c) = Own(d, c) \cup {k}  BY <1>5, <1>8 DEF Own
  <2>2. \A c2 \in Clients \ {c} : Own(e, c2) = Own(d, c2)  BY <1>8 DEF Own
  <2>3. \A c2 \in Clients : Owned(e, {}, c2) = Own(e, c2)  BY DEF Owned
  <2>4. /\ Owned(d, {<<c, k>>}, c) = Own(d, c) \cup {k}
        /\ \A c2 \in Clients \ {c} : Owned(d, {<<c, k>>}, c2) = Own(d, c2)
    BY DEF Owned
  <2>. QED  BY <2>1, <2>2, <2>3, <2>4
<1>11. Good(e, {}, X)  BY <1>8, <1>9, <1>10, Rehung
<1>. QED  BY <1>11 DEF e, q

LEMMA ConnDropped ==
    ASSUME NEW d, NEW X, NEW c \in Clients, NEW k \in Own(d, c), Good(d, {}, X),
           k \notin d.connected
    PROVE  LET e == WithInactive(d, c, Deleted(d.inactive[c], k))
           IN  /\ Good(e, {<<c, k>>}, X) /\ e.map = d.map /\ e.connected = d.connected
               /\ e.svc = d.svc
               /\ \A x \in Objects : \A r, P : Held(d, x, r, P) => Held(e, x, r, P)
<1>. DEFINE q == Deleted(d.inactive[c], k)
            e == WithInactive(d, c, q)
<1>1. TypeOK(d)  BY GoodType
<1>2. k \in Conns /\ k # d.active[c]  BY <1>1, OwnedConns, DistinctConstants DEF Good, Linked
<1>3. d.inactive[c] \in Seq(Conns) /\ Injective(d.inactive[c])
  BY <1>1 DEF TypeOK
<1>4. Contains(d.inactive[c], k)  BY <1>2, <1>3 DEF Own, Contains, ToSet
<1>5. /\ q \in Seq(Conns) /\ Injective(q)
      /\ \A x : Contains(q, x) <=> Contains(d.inactive[c], x) /\ x # k
  BY <1>3, <1>4, DeleteList
<1>6. ToSet(q) = ToSet(d.inactive[c]) \ {k}
  <2>1. \A x : x \in ToSet(q) <=> Contains(q, x)  BY <1>5 DEF ToSet, Contains
  <2>2. \A x : x \in ToSet(d.inactive[c]) <=> Contains(d.inactive[c], x)
    BY <1>3 DEF ToSet, Contains
  <2>. QED  BY <1>5, <2>1, <2>2
<1>7. d.active[c] \notin ToSet(q)  BY <1>1, <1>6 DEF TypeOK
<1>. HIDE DEF q
<1>8. /\ TypeOK(e) /\ e.heap = d.heap /\ e.ref = d.ref /\ e.map = d.map
      /\ e.connected = d.connected /\ e.svc = d.svc /\ e.active = d.active
      /\ e.inactive[c] = q
      /\ \A c2 \in Clients \ {c} : e.inactive[c2] = d.inactive[c2]
  BY <1>1, <1>5, <1>7, WithInactiveFields
<1>. HIDE DEF e
<1>9. Linked(e)  BY <1>8 DEF Good, Linked
<1>10. Own(e, c) = Own(d, c) \ {k}  BY <1>2, <1>6, <1>8 DEF Own
<1>11. \A c2 \in Clients : Owned(e, {<<c, k>>}, c2) = Owned(d, {}, c2)
  <2>2. \A c2 \in Clients \ {c} : Own(e, c2) = Own(d, c2)  BY <1>8 DEF Own
  <2>3. \A c2 \in Clients : Owned(d, {}, c2) = Own(d, c2)  BY DEF Owned
  <2>4. /\ Owned(e, {<<c, k>>}, c) = Own(e, c) \cup {k}
        /\ \A c2 \in Clients \ {c} : Owned(e, {<<c, k>>}, c2) = Own(e, c2)
    BY <1>2 DEF Owned
  <2>. QED  BY <1>10, <2>2, <2>3, <2>4
<1>12. \A c2 \in Clients, x \in Conns : <<c2, x>> \in {<<c, k>>} => x \notin Own(e, c2)
  BY <1>10
<1>13. Good(e, {<<c, k>>}, X)  BY <1>8, <1>9, <1>11, <1>12, Rehung
<1>14. \A x \in Objects : \A r, P : Held(d, x, r, P) => Held(e, x, r, P)  BY <1>8 DEF Held
<1>15. Good(e, {<<c, k>>}, X) /\ e.map = d.map /\ e.connected = d.connected /\ e.svc = d.svc
  BY <1>8, <1>13
<1>. QED  BY <1>14, <1>15 DEF e, q
\* A connection that the call has is freed when its maps are empty.
Unheaped(d, x) ==
    [heap |-> d.heap \ {x}, ref |-> d.ref, map |-> d.map, active |-> d.active,
     inactive |-> d.inactive, connected |-> d.connected, svc |-> d.svc]

LEMMA UnheapedFields ==
    ASSUME NEW d, TypeOK(d), NEW x
    PROVE  LET e == Unheaped(d, x)
           IN  /\ TypeOK(e) /\ e.heap = d.heap \ {x} /\ e.ref = d.ref /\ e.map = d.map
               /\ e.connected = d.connected /\ e.svc = d.svc /\ e.active = d.active
               /\ e.inactive = d.inactive
BY DEF Unheaped, TypeOK, IsData

Without(L, M, c, k) ==
    /\ <<c, k>> \in L
    /\ \A c2 \in Clients, x \in Conns : <<c2, x>> \in M <=> <<c2, x>> \in L /\ x # k

OwnedBut(e, M, d, L, k) == \A c \in Clients : Owned(e, M, c) = Owned(d, L, c) \ {k}

LEMMA ConnFreedStructure ==
    ASSUME NEW d, NEW L, NEW M, NEW c \in Clients, NEW k \in Conns, Structure(d, L),
           Without(L, M, c, k)
    PROVE  LET e == Unheaped(d, k)
           IN  Structure(e, M) /\ OwnedBut(e, M, d, L, k)
<1>. DEFINE e == Unheaped(d, k)
<1>1. TypeOK(d) /\ Db \in d.heap  BY DEF Structure
<1>2. /\ TypeOK(e) /\ e.heap = d.heap \ {k} /\ e.active = d.active
      /\ e.inactive = d.inactive
  BY <1>1, UnheapedFields
<1>. HIDE DEF e
<1>3. \A c2 \in Clients : Own(e, c2) = Own(d, c2)  BY <1>2 DEF Own
<1>4. k \in Owned(d, L, c)  BY DEF Owned, Without
<1>5. \A c2 \in Clients : k \notin Own(d, c2)
  <2>1. \A c2 \in Clients : k \in Owned(d, L, c2) => c2 = c  BY <1>4 DEF Structure
  <2>2. \A c2 \in Clients : Own(d, c2) \subseteq Owned(d, L, c2)  BY <1>1, OwnedConns
  <2>3. k \notin Own(d, c)  BY DEF Structure, Without
  <2>. QED  BY <2>1, <2>2, <2>3
<1>6. \A c2 \in Clients : Owned(e, M, c2) = Owned(d, L, c2) \ {k}
  <2>1. SUFFICES ASSUME NEW c2 \in Clients, NEW x
                 PROVE  x \in Owned(e, M, c2) <=> x \in Owned(d, L, c2) /\ x # k
    OBVIOUS
  <2>. QED  BY <1>3, <1>5 DEF Owned, Without
<1>7. Structure(e, M)
  <2>1. Db \in e.heap  BY <1>1, <1>2, DistinctConstants
  <2>2. \A c1, c2 \in Clients : c1 # c2 => Owned(e, M, c1) \cap Owned(e, M, c2) = {}
    BY <1>6 DEF Structure
  <2>3. \A c2 \in Clients, x \in Conns : <<c2, x>> \in M => x \notin Own(e, c2)
    BY <1>3 DEF Structure, Without
  <2>4. \A c2 \in Clients : Owned(e, M, c2) \subseteq e.heap
    BY <1>2, <1>6 DEF Structure
  <2>5. \A x \in Conns \cap e.heap : \E c2 \in Clients : x \in Owned(e, M, c2)
    BY <1>2, <1>6 DEF Structure
  <2>. QED  BY <1>2, <2>1, <2>2, <2>3, <2>4, <2>5 DEF Structure
<1>. QED  BY <1>6, <1>7 DEF e, OwnedBut

LEMMA ConnFreed ==
    ASSUME NEW d, NEW L, NEW M, NEW X, NEW c \in Clients, NEW k \in Conns, Good(d, L, X),
           Without(L, M, c, k),
           d.map[k]["services"] = <<>>
    PROVE  Good(Unheaped(d, k), M, X)
<1>. DEFINE e == Unheaped(d, k)
<1>1. TypeOK(d) /\ Db \in d.heap  BY GoodType
<1>2. /\ TypeOK(e) /\ e.heap = d.heap \ {k} /\ e.ref = d.ref /\ e.map = d.map
      /\ e.connected = d.connected /\ e.svc = d.svc /\ e.active = d.active
      /\ e.inactive = d.inactive
  BY <1>1, UnheapedFields
<1>3. Structure(e, M) /\ \A c2 \in Clients : Owned(e, M, c2) = Owned(d, L, c2) \ {k}
  <2>1. Structure(d, L)  BY DEF Good
  <2>2. Structure(e, M) /\ OwnedBut(e, M, d, L, k)  BY <2>1, ConnFreedStructure
  <2>. QED  BY <2>2 DEF OwnedBut
<1>. HIDE DEF e
<1>8. Linked(e)  BY <1>2 DEF Good, Linked
<1>9. k \notin Objects  BY DistinctConstants
<1>10. ASSUME NEW o \in Objects \ X PROVE OK(e, M, o)
  <2>1. OK(d, L, o)  BY <1>10, GoodOK
  <2>2. \A r, P : Held(d, o, r, P) => Held(e, o, r, P)  BY <1>2, <1>9 DEF Held
  <2>3. Gone(d, o) => Gone(e, o)  BY <1>2 DEF Gone
  <2>4. o \in Clients => ClientOK(e, M, o)
    BY <1>3, <2>1, <2>2, <2>3 DEF OK, ClientOK
  <2>5. o \in Services => ServiceOK(e, M, o)
    <3>1. SUFFICES ASSUME o \in Services, NEW k2 \in Conns, ServiceIn(d, L, o, k2)
                   PROVE  ServiceIn(e, M, o, k2)
      BY <2>1, <2>3 DEF OK, ServiceOK
    <3>2. k2 # k
      <4>1. <<k2, "services">> \in Places(d.map, o)
        BY <3>1 DEF ServiceIn, HeldService, Held, Published
      <4>2. Contains(d.map[k2]["services"], o)  BY <4>1, PlaceOf, MapNames
      <4>. QED  BY <4>2 DEF Contains
    <3>. QED  BY <1>2, <1>3, <2>2, <3>1, <3>2 DEF ServiceIn, HeldService
  <2>6. o \in Subs => SubOK(e, o)  BY <1>2, <2>1, <2>2, <2>3 DEF OK, SubOK
  <2>. QED  BY <2>4, <2>5, <2>6 DEF OK
<1>11. Good(e, M, X)  BY <1>3, <1>8, <1>10, GoodOK
<1>. QED  BY <1>11 DEF e

\* The connections of a client as a list and from some position on.
LEMMA ConnsList ==
    ASSUME NEW d, TypeOK(d), NEW c \in Clients
    PROVE  /\ ConnsOf(d, c) \in Seq(Conns) /\ Injective(ConnsOf(d, c))
           /\ ToSet(ConnsOf(d, c)) = Own(d, c)
<1>1. /\ d.active[c] \in Conns \cup {Nil} /\ d.inactive[c] \in Seq(Conns)
      /\ Injective(d.inactive[c]) /\ d.active[c] \notin ToSet(d.inactive[c])
  BY DEF TypeOK
<1>. DEFINE q == d.inactive[c]  a == d.active[c]
<1>2. CASE a = Nil
  <2>1. Nil \notin ToSet(q)  BY <1>1, <1>2
  <2>2. ConnsOf(d, c) = q /\ Own(d, c) = ToSet(q)  BY <1>1, <1>2, <2>1 DEF ConnsOf, Own
  <2>. QED  BY <1>1, <2>2
<1>3. CASE a # Nil
  <2>. DEFINE p == <<a>> \o q
  <2>1. ConnsOf(d, c) = p /\ a \in Conns /\ Own(d, c) = {a} \cup ToSet(q)
    BY <1>1, <1>3 DEF ConnsOf, Own
  <2>. HIDE DEF q, a
  <2>2. q \in Seq(Conns) /\ Injective(q) /\ a \notin ToSet(q)  BY <1>1 DEF q, a
  <2>3. /\ p \in Seq(Conns) /\ Len(p) = Len(q) + 1 /\ p[1] = a
        /\ \A i \in 2..Len(q) + 1 : p[i] = q[i - 1]
        /\ \A i \in 1..Len(q) : p[i + 1] = q[i]
    BY <2>1, <2>2
  <2>. HIDE DEF p
  <2>4. Len(q) \in Nat /\ DOMAIN q = 1..Len(q) /\ DOMAIN p = 1..Len(q) + 1
    BY <2>2, <2>3
  <2>5. \A i \in 1..Len(q) : q[i] # a  BY <2>2, <2>4 DEF ToSet
  <2>6. ASSUME NEW i \in DOMAIN p, NEW j \in DOMAIN p, p[i] = p[j] PROVE i = j
    <3>1. CASE i = 1 /\ j = 1  BY <3>1
    <3>2. CASE i = 1 /\ j # 1
      <4>1. j - 1 \in 1..Len(q) /\ p[j] = q[j - 1]  BY <2>3, <2>4, <3>2
      <4>. QED  BY <2>3, <2>5, <2>6, <3>2, <4>1
    <3>3. CASE i # 1 /\ j = 1
      <4>1. i - 1 \in 1..Len(q) /\ p[i] = q[i - 1]  BY <2>3, <2>4, <3>3
      <4>. QED  BY <2>3, <2>5, <2>6, <3>3, <4>1
    <3>4. CASE i # 1 /\ j # 1
      <4>1. i - 1 \in DOMAIN q /\ p[i] = q[i - 1] /\ j - 1 \in DOMAIN q /\ p[j] = q[j - 1]
        BY <2>3, <2>4, <3>4
      <4>2. i - 1 = j - 1  BY <2>2, <2>6, <4>1 DEF Injective
      <4>. QED  BY <2>4, <4>2
    <3>. QED  BY <3>1, <3>2, <3>3, <3>4
  <2>7. ToSet(p) = {a} \cup ToSet(q)
    <3>1. \A x \in ToSet(p) : x \in {a} \cup ToSet(q)
      <4>1. SUFFICES ASSUME NEW i \in DOMAIN p PROVE p[i] \in {a} \cup ToSet(q)
        BY DEF ToSet
      <4>2. CASE i = 1  BY <2>3, <4>2
      <4>3. CASE i # 1
        <5>1. i - 1 \in DOMAIN q /\ p[i] = q[i - 1]  BY <2>3, <2>4, <4>3
        <5>. QED  BY <5>1 DEF ToSet
      <4>. QED  BY <4>2, <4>3
    <3>2. a \in ToSet(p)
      <4>1. 1 \in DOMAIN p  BY <2>4
      <4>. QED  BY <2>3, <4>1 DEF ToSet
    <3>3. \A x \in ToSet(q) : x \in ToSet(p)
      <4>1. SUFFICES ASSUME NEW i \in DOMAIN q PROVE q[i] \in ToSet(p)
        BY DEF ToSet
      <4>2. i + 1 \in DOMAIN p /\ p[i + 1] = q[i]  BY <2>3, <2>4
      <4>. QED  BY <4>2 DEF ToSet
    <3>. QED  BY <3>1, <3>2, <3>3
  <2>8. Injective(p)  BY <2>6 DEF Injective
  <2>9. ToSet(p) = Own(d, c)  BY <2>1, <2>7
  <2>. QED  BY <2>1, <2>3, <2>8, <2>9
<1>. QED  BY <1>2, <1>3

LEMMA ConnsLeft ==
    ASSUME NEW d, TypeOK(d), NEW c \in Clients, NEW i \in Nat \ {0}
    PROVE  LET q == ConnsOf(d, c)
           IN  /\ ConnsFrom(d, c, 1) = Own(d, c)
               /\ ~(i <= Len(q)) => ConnsFrom(d, c, i) = {}
               /\ i <= Len(q) =>
                     /\ ConnsFrom(d, c, i) = ConnsFrom(d, c, i + 1) \cup {q[i]}
                     /\ q[i] \notin ConnsFrom(d, c, i + 1) /\ q[i] \in Conns
               /\ ConnsFrom(d, c, i) \subseteq Conns
<1>. DEFINE q == ConnsOf(d, c)
<1>1. q \in Seq(Conns) /\ Injective(q) /\ ToSet(q) = Own(d, c)  BY ConnsList
<1>2. \A n : ConnsFrom(d, c, n) = {q[j] : j \in {x \in DOMAIN q : x >= n}}  BY DEF ConnsFrom
<1>. HIDE DEF q
<1>3. Len(q) \in Nat /\ DOMAIN q = 1..Len(q)  BY <1>1
<1>4. ConnsFrom(d, c, 1) = Own(d, c)
  <2>1. {x \in DOMAIN q : x >= 1} = DOMAIN q  BY <1>3
  <2>2. ConnsFrom(d, c, 1) = {q[j] : j \in DOMAIN q}  BY <1>2, <2>1
  <2>. QED  BY <1>1, <2>2 DEF ToSet
<1>5. ~(i <= Len(q)) => ConnsFrom(d, c, i) = {}  BY <1>2, <1>3
<1>6. ASSUME i <= Len(q)
      PROVE  /\ ConnsFrom(d, c, i) = ConnsFrom(d, c, i + 1) \cup {q[i]}
             /\ q[i] \notin ConnsFrom(d, c, i + 1) /\ q[i] \in Conns
  <2>1. i \in DOMAIN q /\ q[i] \in Conns  BY <1>1, <1>3, <1>6
  <2>2. \A j \in DOMAIN q : j >= i <=> j = i \/ j >= i + 1  BY <1>3
  <2>3. \A j \in DOMAIN q : j >= i + 1 => j # i  BY <1>3
  <2>. HIDE DEF q
  <2>4. q[i] \notin ConnsFrom(d, c, i + 1)  BY <1>1, <1>2, <2>1, <2>3 DEF Injective
  <2>5. ConnsFrom(d, c, i) = ConnsFrom(d, c, i + 1) \cup {q[i]}  BY <1>2, <2>1, <2>2
  <2>. QED  BY <2>1, <2>4, <2>5
<1>7. ConnsFrom(d, c, i) \subseteq Conns  BY <1>1, <1>2
<1>. QED  BY <1>4, <1>5, <1>6, <1>7 DEF q

\* The connections of a client that is destroyed are the call's.
LEMMA DisownedType ==
    ASSUME NEW d, TypeOK(d), NEW c \in Clients
    PROVE  LET e == Disowned(d, c)
           IN  /\ TypeOK(e) /\ e.heap = d.heap /\ e.ref = d.ref /\ e.map = d.map
               /\ e.connected = d.connected /\ e.svc = d.svc
               /\ Own(e, c) = {} /\ e.active[c] = Nil
               /\ \A c2 \in Clients \ {c} :
                     Own(e, c2) = Own(d, c2) /\ e.active[c2] = d.active[c2]
<1>. DEFINE e == Disowned(d, c)
<1>1. /\ IsData(e)
      /\ e.active = [d.active EXCEPT ![c] = Nil]
      /\ e.inactive = [d.inactive EXCEPT ![c] = <<>>]
      /\ e.heap = d.heap /\ e.ref = d.ref /\ e.map = d.map
      /\ e.connected = d.connected /\ e.svc = d.svc
  BY DisownedFields DEF TypeOK
<1>. HIDE DEF e
<1>2. /\ e.active \in [Clients -> Conns \cup {Nil}] /\ e.active[c] = Nil
      /\ \A c2 \in Clients \ {c} : e.active[c2] = d.active[c2]
  BY <1>1 DEF TypeOK
<1>3. /\ e.inactive \in [Clients -> Seq(Conns)] /\ e.inactive[c] = <<>>
      /\ \A c2 \in Clients \ {c} : e.inactive[c2] = d.inactive[c2]
  BY <1>1 DEF TypeOK
<1>4. Injective(<<>>) /\ ToSet(<<>>) = {}  BY DEF Injective, ToSet
<1>5. TypeOK(e)  BY <1>1, <1>2, <1>3, <1>4 DEF TypeOK
<1>6. Own(e, c) = {} /\ \A c2 \in Clients \ {c} : Own(e, c2) = Own(d, c2)
  BY <1>2, <1>3, <1>4 DEF Own
<1>. QED  BY <1>1, <1>2, <1>5, <1>6 DEF e

LEMMA ClientDisowned ==
    ASSUME NEW d, NEW X, NEW c \in Clients, Good(d, {}, X), d.active[c] = Nil
    PROVE  Good(Disowned(d, c), {c} \X Own(d, c), X)
<1>. DEFINE e == Disowned(d, c)  K == Own(d, c)  M == {c} \X K
<1>1. TypeOK(d)  BY GoodType
<1>2. /\ TypeOK(e) /\ e.heap = d.heap /\ e.ref = d.ref /\ e.map = d.map
      /\ e.connected = d.connected /\ e.svc = d.svc
      /\ Own(e, c) = {} /\ e.active[c] = Nil
      /\ \A c2 \in Clients \ {c} : Own(e, c2) = Own(d, c2) /\ e.active[c2] = d.active[c2]
  BY <1>1, DisownedType
<1>. HIDE DEF e
<1>3. K \subseteq Conns  BY <1>1, OwnedConns
<1>4. Linked(e)
  <2>1. \A x \in d.connected : x # Nil  BY <1>1, DistinctConstants DEF TypeOK
  <2>. QED  BY <1>2, <2>1 DEF Good, Linked
<1>5. \A c2 \in Clients : Owned(d, {}, c2) = Own(d, c2)  BY DEF Owned
<1>6. Owned(e, M, c) = Own(e, c) \cup K  BY <1>3 DEF Owned
<1>7. \A c2 \in Clients \ {c} : Owned(e, M, c2) = Own(e, c2)  BY DEF Owned
<1>8. \A c2 \in Clients : Owned(e, M, c2) = Owned(d, {}, c2)  BY <1>2, <1>5, <1>6, <1>7
<1>9. \A c2 \in Clients, k \in Conns : <<c2, k>> \in M => k \notin Own(e, c2)  BY <1>2
<1>. HIDE DEF M
<1>10. Good(e, M, X)  BY <1>2, <1>4, <1>8, <1>9, Rehung
<1>. QED  BY <1>10 DEF e, M

-----------------------------------------------------------------------------
(* Sweeping a list.                                                         *)

LEMMA SetListTwice ==
    ASSUME NEW mp, MapsOK(mp), NEW h \in Hosts, NEW m \in Maps, NEW p, NEW q
    PROVE  SetList(SetList(mp, h, m, p), h, m, q) = SetList(mp, h, m, q)
<1>1. mp \in [Hosts -> [Maps -> Seq(Objects)]]  BY DEF MapsOK
<1>2. DOMAIN mp = Hosts /\ DOMAIN mp[h] = Maps  BY <1>1
<1>3. SetList(mp, h, m, p)[h] = [mp[h] EXCEPT ![m] = p]  BY <1>2 DEF SetList
<1>4. [[mp[h] EXCEPT ![m] = p] EXCEPT ![m] = q] = [mp[h] EXCEPT ![m] = q]  BY <1>2
<1>. QED  BY <1>2, <1>3, <1>4 DEF SetList

LEMMA WithListTwice ==
    ASSUME NEW d, TypeOK(d), NEW h \in Hosts, NEW m \in Maps, NEW p, NEW q
    PROVE  WithList(WithList(d, h, m, p), h, m, q) = WithList(d, h, m, q)
<1>. DEFINE e == WithList(d, h, m, p)  M == SetList(d.map, h, m, q)
<1>1. MapsOK(d.map) /\ IsData(d)  BY DEF TypeOK
<1>2. IsData(e) /\ e.map = SetList(d.map, h, m, p)  BY <1>1, WithListFields
<1>3. SetList(e.map, h, m, q) = M  BY <1>1, <1>2, SetListTwice
<1>. HIDE DEF M
<1>4. [e EXCEPT !.map = M] = [d EXCEPT !.map = M]  BY <1>1 DEF WithList, IsData
<1>5. WithList(e, h, m, q) = [e EXCEPT !.map = M]  BY <1>3 DEF WithList
<1>6. WithList(d, h, m, q) = [d EXCEPT !.map = M]  BY DEF WithList, M
<1>. QED  BY <1>4, <1>5, <1>6

LEMMA SweptList ==
    ASSUME NEW d, TypeOK(d), NEW h \in Hosts, NEW m \in Maps, NEW i \in Nat \ {0}
    PROVE  LET v == Swept(d, h, m, i)
               q == SubSeq(d.map[h][m], i, Len(d.map[h][m]))
           IN  /\ TypeOK(v) /\ v.heap = d.heap /\ v.ref = d.ref /\ v.svc = d.svc
               /\ v.active = d.active /\ v.inactive = d.inactive /\ v.connected = d.connected
               /\ v.map[h][m] = q
               /\ \A h2 \in Hosts, m2 \in Maps : h2 # h \/ m2 # m =>
                     v.map[h2][m2] = d.map[h2][m2]
<1>. DEFINE q == SubSeq(d.map[h][m], i, Len(d.map[h][m]))
            v == WithList(d, h, m, q)
<1>1. d.map[h][m] \in Seq(Kind(m)) /\ Injective(d.map[h][m])  BY ListOK
<1>2. q \in Seq(Kind(m)) /\ Injective(q)  BY <1>1, SweepList
<1>. HIDE DEF q
<1>3. IsData(d) /\ MapsOK(d.map)  BY DEF TypeOK
<1>4. /\ IsData(v)
      /\ v.map = SetList(d.map, h, m, q)
      /\ v.heap = d.heap /\ v.ref = d.ref /\ v.active = d.active
      /\ v.inactive = d.inactive /\ v.connected = d.connected /\ v.svc = d.svc
  BY <1>3, WithListFields
<1>5. /\ MapsOK(SetList(d.map, h, m, q))
      /\ SetList(d.map, h, m, q)[h][m] = q
      /\ \A h2 \in Hosts, m2 \in Maps : h2 # h \/ m2 # m =>
            SetList(d.map, h, m, q)[h2][m2] = d.map[h2][m2]
  BY <1>2, <1>3, SetListOK
<1>6. Swept(d, h, m, i) = v  BY DEF Swept, v, q
<1>. HIDE DEF v
<1>7. TypeOK(v)  BY <1>4, <1>5 DEF TypeOK
<1>8. /\ v.map[h][m] = q
      /\ \A h2 \in Hosts, m2 \in Maps : h2 # h \/ m2 # m => v.map[h2][m2] = d.map[h2][m2]
  BY <1>4, <1>5
<1>. QED  BY <1>4, <1>6, <1>7, <1>8 DEF q

\* The next element leaves the list.
LEMMA SweepStep ==
    ASSUME NEW d, TypeOK(d), NEW h \in Hosts, NEW m \in Maps, NEW i \in Nat \ {0},
           i <= Len(d.map[h][m])
    PROVE  LET x == d.map[h][m][i]
               v == Swept(d, h, m, i)
               w == Swept(d, h, m, i + 1)
           IN  /\ x \in Kind(m) /\ x \in Objects /\ i \in DOMAIN d.map[h][m]
               /\ <<h, m>> \in Places(v.map, x)
               /\ Touches(v, w, x) /\ w.heap = v.heap /\ w.ref = v.ref /\ w.svc = v.svc
               /\ Places(w.map, x) = Places(v.map, x) \ {<<h, m>>}
<1>. DEFINE q == d.map[h][m]
            a == SubSeq(q, i, Len(q))
            b == SubSeq(q, i + 1, Len(q))
            x == q[i]
            v == Swept(d, h, m, i)
            w == Swept(d, h, m, i + 1)
<1>1. q \in Seq(Kind(m)) /\ Injective(q)  BY ListOK
<1>2. i \in DOMAIN q  BY <1>1
<1>3. i + 1 \in Nat \ {0}  OBVIOUS
<1>4. /\ x \in Kind(m) /\ Contains(a, x)
      /\ \A y : Contains(b, y) <=> Contains(a, y) /\ y # x
  BY <1>1, <1>2, SweepList
<1>5. b \in Seq(Kind(m)) /\ Injective(b)  BY <1>1, <1>3, SweepList
<1>6. TypeOK(v) /\ v.map[h][m] = a  BY SweptList
<1>7. w = WithList(v, h, m, b)  BY WithListTwice DEF Swept
<1>8. x \in Objects  BY <1>4, Kinds
<1>9. <<h, m>> \in Places(v.map, x)  BY <1>4, <1>6, PlaceOf
<1>. HIDE DEF q, a, b, x, v, w
<1>. DEFINE e == WithList(v, h, m, b)
<1>10. /\ Touches(v, e, x)
       /\ e.heap = v.heap /\ e.ref = v.ref /\ e.svc = v.svc
       /\ Places(e.map, x) = Places(v.map, x) \ {<<h, m>>}
  BY <1>4, <1>5, <1>6, WithListOK
<1>. HIDE DEF e
<1>11. w = e  BY <1>7 DEF e
<1>12. /\ x \in Kind(m) /\ x \in Objects /\ i \in DOMAIN q /\ <<h, m>> \in Places(v.map, x)
       /\ Touches(v, w, x) /\ w.heap = v.heap /\ w.ref = v.ref /\ w.svc = v.svc
       /\ Places(w.map, x) = Places(v.map, x) \ {<<h, m>>}
  BY <1>2, <1>4, <1>8, <1>9, <1>10, <1>11
<1>. QED  BY <1>12 DEF x, v, w, q

LEMMA SweptFirst ==
    ASSUME NEW d, TypeOK(d), NEW h \in Hosts, NEW m \in Maps
    PROVE  Swept(d, h, m, 1) = d
<1>. DEFINE q == d.map[h][m]
<1>1. q \in Seq(Kind(m))  BY ListOK
<1>. HIDE DEF q
<1>2. SubSeq(q, 1, Len(q)) = q  BY <1>1
<1>3. d.map \in [Hosts -> [Maps -> Seq(Objects)]]  BY DEF TypeOK, MapsOK
<1>4. SetList(d.map, h, m, q) = d.map  BY <1>3 DEF SetList, q
<1>5. [d EXCEPT !.map = d.map] = d  BY DEF TypeOK, IsData
<1>6. Swept(d, h, m, 1) = WithList(d, h, m, q)  BY <1>2 DEF Swept, q
<1>. QED  BY <1>4, <1>5, <1>6 DEF WithList

LEMMA SweptLast ==
    ASSUME NEW d, TypeOK(d), NEW h \in Hosts, NEW m \in Maps, NEW i \in Nat \ {0},
           ~(i <= Len(d.map[h][m]))
    PROVE  Swept(d, h, m, i) = Cleared(d, h, m)
<1>. DEFINE q == d.map[h][m]
<1>1. q \in Seq(Kind(m)) /\ Injective(q)  BY ListOK
<1>2. SubSeq(q, i, Len(q)) = <<>>  BY <1>1, SweepList
<1>. QED  BY <1>2 DEF Swept, Cleared

\* Steps on a swept object and sweeping may be exchanged.
LEMMA SweptDropped ==
    ASSUME NEW d, TypeOK(d), NEW h, NEW m, NEW i, NEW o
    PROVE  Swept(Dropped(d, o), h, m, i) = Dropped(Swept(d, h, m, i), o)
<1>. DEFINE n == d.ref[o] - 1  q == SubSeq(d.map[h][m], i, Len(d.map[h][m]))
            R == [d.ref EXCEPT ![o] = n]  M == SetList(d.map, h, m, q)
<1>1. Dropped(d, o).map = d.map /\ Swept(d, h, m, i).ref = d.ref
  BY DEF TypeOK, IsData, Dropped, WithRef, Swept, WithList
<1>2. Swept(Dropped(d, o), h, m, i) = [[d EXCEPT !.ref = R] EXCEPT !.map = M]
  BY <1>1 DEF Swept, WithList, Dropped, WithRef
<1>3. Dropped(Swept(d, h, m, i), o) = [[d EXCEPT !.map = M] EXCEPT !.ref = R]
  BY <1>1 DEF Swept, WithList, Dropped, WithRef
<1>. HIDE DEF R, M
<1>4. [[d EXCEPT !.ref = R] EXCEPT !.map = M] = [[d EXCEPT !.map = M] EXCEPT !.ref = R]
  BY DEF TypeOK, IsData
<1>. QED  BY <1>2, <1>3, <1>4

LEMMA SweptFreed ==
    ASSUME NEW d, TypeOK(d), NEW h, NEW m, NEW i, NEW o
    PROVE  Swept(Freed(d, o), h, m, i) = Freed(Swept(d, h, m, i), o)
<1>. DEFINE q == SubSeq(d.map[h][m], i, Len(d.map[h][m]))
            R == [d.ref EXCEPT ![o] = 0]  M == SetList(d.map, h, m, q)  H == d.heap \ {o}
            e == [heap |-> H, ref |-> R, map |-> M, active |-> d.active,
                  inactive |-> d.inactive, connected |-> d.connected, svc |-> d.svc]
<1>1. Freed(d, o) = [heap |-> H, ref |-> R, map |-> d.map, active |-> d.active,
                     inactive |-> d.inactive, connected |-> d.connected, svc |-> d.svc]
  BY DEF Freed
<1>2. Swept(d, h, m, i) = [heap |-> d.heap, ref |-> d.ref, map |-> M, active |-> d.active,
                           inactive |-> d.inactive, connected |-> d.connected, svc |-> d.svc]
  <2>1. Swept(d, h, m, i) = [d EXCEPT !.map = M]  BY DEF Swept, WithList
  <2>. HIDE DEF M
  <2>. QED  BY <2>1 DEF TypeOK, IsData
<1>3. Freed(d, o).map = d.map  BY <1>1
<1>4. Swept(Freed(d, o), h, m, i) = [Freed(d, o) EXCEPT !.map = M]
  BY <1>3 DEF Swept, WithList
<1>. HIDE DEF H, M, R
<1>5. Swept(Freed(d, o), h, m, i) = e  BY <1>1, <1>4
<1>6. Freed(Swept(d, h, m, i), o) = e  BY <1>2 DEF Freed, H, R
<1>. QED  BY <1>5, <1>6

-----------------------------------------------------------------------------
(* References and places while the database is torn down.                   *)

LEMMA CountedFrame ==
    ASSUME NEW d, NEW L, NEW e, NEW o, Touches(d, e, o), NEW x \in Objects \ {o},
           Counted(d, L, x)
    PROVE  Counted(e, L, x)
<1>1. Same(d, e, x) /\ \A h \in Hosts : h \in e.heap <=> h \in d.heap  BY DEF Touches
<1>2. x \in Clients => Owned(e, L, x) = Owned(d, L, x)  BY TouchesOwned
<1>3. \A y \in Places(d.map, x) : y[1] \in Hosts  BY DEF Places
<1>. QED  BY <1>1, <1>2, <1>3 DEF Counted, Same

LEMMA TornStep ==
    ASSUME NEW d, NEW L, NEW X, NEW e, NEW o, NEW Y,
           Torn(d, L, X), Touches(d, e, o), X \subseteq Y \cup {o},
           o \in Y \/ Counted(e, L, o)
    PROVE  Torn(e, L, Y)
<1>1. Structure(e, L)  BY TouchesStructure DEF Torn
<1>2. ASSUME NEW x \in Objects \ Y PROVE Counted(e, L, x)
  <2>1. CASE x = o  BY <2>1, <1>2
  <2>2. CASE x # o
    <3>1. Counted(d, L, x)  BY <2>2, <1>2 DEF Torn
    <3>. QED  BY <2>2, <3>1, CountedFrame
  <2>. QED  BY <2>1, <2>2
<1>. QED  BY <1>1, <1>2 DEF Torn

LEMMA AnchoredStep ==
    ASSUME NEW d, NEW e, NEW o, NEW m \in Maps, Anchored(d, m), Touches(d, e, o),
           o \in Kind(m) /\ o \in e.heap => <<Db, m>> \in Places(e.map, o)
    PROVE  Anchored(e, m)
<1>1. ASSUME NEW x \in Kind(m), x \in e.heap PROVE <<Db, m>> \in Places(e.map, x)
  <2>1. CASE x = o  BY <1>1, <2>1
  <2>2. CASE x # o
    <3>1. x \in Objects  BY Kinds
    <3>2. Same(d, e, x)  BY <2>2, <3>1 DEF Touches
    <3>. QED  BY <1>1, <3>2 DEF Same, Anchored
  <2>. QED  BY <2>1, <2>2
<1>. QED  BY <1>1 DEF Anchored

\* An object in two places has two references or more.
LEMMA CountedTwice ==
    ASSUME NEW d, NEW L, NEW o, Counted(d, L, o), NEW a, NEW b, a # b,
           a \in Places(d.map, o), b \in Places(d.map, o)
    PROVE  d.ref[o] >= 2 /\ o \in d.heap
<1>. DEFINE P == Places(d.map, o)
<1>1. IsFiniteSet(P) /\ d.ref[o] = Cardinality(P) /\ o \in d.heap  BY DEF Counted
<1>. HIDE DEF P
<1>2. a \in P /\ b \in P  BY DEF P
<1>3. IsFiniteSet(P \ {a}) /\ Cardinality(P \ {a}) = Cardinality(P) - 1
  BY <1>1, <1>2, FS_RemoveElement
<1>4. b \in P \ {a}  BY <1>2
<1>5. IsFiniteSet((P \ {a}) \ {b}) /\ Cardinality((P \ {a}) \ {b}) = Cardinality(P \ {a}) - 1
  BY <1>3, <1>4, FS_RemoveElement
<1>6. Cardinality((P \ {a}) \ {b}) \in Nat /\ Cardinality(P) \in Nat
  BY <1>1, <1>5, FS_CardinalityType
<1>. QED  BY <1>1, <1>3, <1>5, <1>6

LEMMA CountedOnce ==
    ASSUME NEW d, NEW L, NEW o, Counted(d, L, o), NEW a, Places(d.map, o) = {a}
    PROVE  d.ref[o] = 1 /\ o \in d.heap
BY FS_Singleton DEF Counted

\* A place and its reference are given up together.
LEMMA CountedLess ==
    ASSUME NEW d, NEW L, NEW e, NEW o, Counted(d, L, o), NEW a \in Places(d.map, o),
           Places(e.map, o) = Places(d.map, o) \ {a}, Places(e.map, o) # {},
           e.ref[o] = d.ref[o] - 1, e.heap = d.heap, o \notin Clients
    PROVE  Counted(e, L, o)
<1>. DEFINE P == Places(d.map, o)
<1>1. IsFiniteSet(P) /\ d.ref[o] = Cardinality(P) /\ a \in P  BY DEF Counted
<1>. HIDE DEF P
<1>2. IsFiniteSet(P \ {a}) /\ Cardinality(P \ {a}) = Cardinality(P) - 1
  BY <1>1, FS_RemoveElement
<1>. QED  BY <1>1, <1>2 DEF Counted, P

LEMMA CountedNone ==
    ASSUME NEW e, NEW L, NEW o, Gone(e, o), o \in Clients => Owned(e, L, o) = {}
    PROVE  Counted(e, L, o)
BY FS_EmptySet DEF Counted, Gone

\* What is true between calls counts the places, too.
LEMMA Two ==
    ASSUME NEW a, NEW b, a # b
    PROVE  IsFiniteSet({a, b}) /\ Cardinality({a, b}) = 2
<1>1. IsFiniteSet({a}) /\ Cardinality({a}) = 1  BY FS_Singleton
<1>2. b \notin {a}  OBVIOUS
<1>3. IsFiniteSet({a} \cup {b}) /\ Cardinality({a} \cup {b}) = Cardinality({a}) + 1
  BY <1>1, <1>2, FS_AddElement
<1>4. {a} \cup {b} = {a, b}  OBVIOUS
<1>. QED  BY <1>1, <1>3, <1>4

LEMMA Three ==
    ASSUME NEW a, NEW b, NEW c, a # b, a # c, b # c
    PROVE  IsFiniteSet({a, b} \cup {c}) /\ Cardinality({a, b} \cup {c}) = 3
<1>1. IsFiniteSet({a, b}) /\ Cardinality({a, b}) = 2  BY Two
<1>2. c \notin {a, b}  OBVIOUS
<1>3. /\ IsFiniteSet({a, b} \cup {c})
      /\ Cardinality({a, b} \cup {c}) = Cardinality({a, b}) + 1
  BY <1>1, <1>2, FS_AddElement
<1>. QED  BY <1>1, <1>3

LEMMA GoodTorn ==
    ASSUME NEW d, Good(d, {}, {})
    PROVE  Falling(d, {}, {})
<1>1. TypeOK(d) /\ Db \in d.heap /\ Structure(d, {})  BY DEF Good, Structure
<1>2. ASSUME NEW c \in Clients PROVE Counted(d, {}, c)
  <2>1. ClientOK(d, {}, c)  BY DEF Good
  <2>2. CASE Held(d, c, 1, {<<Db, "clients">>})
    <3>1. IsFiniteSet({<<Db, "clients">>}) /\ Cardinality({<<Db, "clients">>}) = 1
      BY FS_Singleton
    <3>. QED  BY <1>1, <2>2, <3>1 DEF Held, Counted
  <2>3. CASE Gone(d, c) /\ Owned(d, {}, c) = {}  BY <2>3, CountedNone
  <2>. QED  BY <2>1, <2>2, <2>3 DEF ClientOK
<1>3. ASSUME NEW s \in Services
      PROVE  Counted(d, {}, s) /\ (s \in d.heap => <<Db, "services">> \in Places(d.map, s))
  <2>1. s \notin Clients  BY DistinctConstants
  <2>2. CASE Gone(d, s)  BY <2>1, <2>2, CountedNone DEF Gone
  <2>3. ASSUME NEW k \in Conns, ServiceIn(d, {}, s, k)
        PROVE  Counted(d, {}, s) /\ <<Db, "services">> \in Places(d.map, s)
    <3>. DEFINE a == <<Db, "services">>  b == <<k, "services">>  x == <<Db, "timers">>
    <3>1. k \in d.heap /\ k # Db
      BY <1>1, <2>3, DistinctConstants DEF ServiceIn, Structure
    <3>2. a # b /\ a # x /\ b # x  BY <3>1
    <3>3. CASE d.svc[s].orphan
      <4>1. Held(d, s, 2 + 1, {a, b} \cup {x})
        BY <2>3, <3>3 DEF ServiceIn, HeldService, TimerRef, TimerPlace, Published
      <4>. HIDE DEF a, b, x
      <4>2. IsFiniteSet({a, b} \cup {x}) /\ Cardinality({a, b} \cup {x}) = 3  BY <3>2, Three
      <4>3. \A y \in {a, b} \cup {x} : y[1] \in d.heap /\ (y[2] = "timers" => y[1] = Db)
        BY <1>1, <3>1 DEF a, b, x
      <4>4. Counted(d, {}, s)  BY <2>1, <4>1, <4>2, <4>3 DEF Counted, Held
      <4>. QED  BY <4>1, <4>4 DEF Held, a
    <3>4. CASE ~d.svc[s].orphan
      <4>1. Held(d, s, 2 + 0, {a, b} \cup {})
        BY <2>3, <3>4 DEF ServiceIn, HeldService, TimerRef, TimerPlace, Published
      <4>. HIDE DEF a, b, x
      <4>2. IsFiniteSet({a, b}) /\ Cardinality({a, b}) = 2  BY <3>2, Two
      <4>3. \A y \in {a, b} : y[1] \in d.heap /\ (y[2] = "timers" => y[1] = Db)
        BY <1>1, <3>1 DEF a, b
      <4>4. d.ref[s] = 2 /\ Places(d.map, s) = {a, b} /\ s \in d.heap  BY <4>1 DEF Held
      <4>5. Counted(d, {}, s)  BY <2>1, <4>2, <4>3, <4>4 DEF Counted
      <4>. QED  BY <4>4, <4>5 DEF a
    <3>. QED  BY <3>3, <3>4
  <2>4. ServiceOK(d, {}, s)  BY DEF Good
  <2>. QED  BY <2>2, <2>3, <2>4 DEF ServiceOK, Gone
<1>4. ASSUME NEW b \in Subs
      PROVE  Counted(d, {}, b) /\ (b \in d.heap => <<Db, "subs">> \in Places(d.map, b))
  <2>1. b \notin Clients  BY DistinctConstants
  <2>2. CASE Gone(d, b)  BY <2>1, <2>2, CountedNone DEF Gone
  <2>3. ASSUME NEW k \in d.connected, Held(d, b, 2, {<<Db, "subs">>, <<k, "subs">>})
        PROVE  Counted(d, {}, b) /\ <<Db, "subs">> \in Places(d.map, b)
    <3>. DEFINE x == <<Db, "subs">>  y == <<k, "subs">>
    <3>1. k \in Conns /\ k # Db  BY <1>1, DistinctConstants DEF TypeOK
    <3>2. k \in d.heap
      <4>1. PICK c \in Clients : d.active[c] = k  BY DEF Good, Linked
      <4>2. k \in Owned(d, {}, c)  BY <3>1, <4>1, DistinctConstants DEF Owned, Own
      <4>. QED  BY <1>1, <4>2 DEF Structure
    <3>3. x # y  BY <3>1
    <3>4. \A z \in {x, y} : z[1] \in d.heap /\ (z[2] = "timers" => z[1] = Db)
      BY <1>1, <3>2
    <3>5. d.ref[b] = 2 /\ Places(d.map, b) = {x, y} /\ b \in d.heap  BY <2>3 DEF Held
    <3>. HIDE DEF x, y
    <3>6. IsFiniteSet({x, y}) /\ Cardinality({x, y}) = 2  BY <3>3, Two
    <3>7. Counted(d, {}, b)  BY <2>1, <3>4, <3>5, <3>6 DEF Counted
    <3>. QED  BY <3>5, <3>7 DEF x
  <2>4. SubOK(d, b)  BY DEF Good
  <2>. QED  BY <2>2, <2>3, <2>4 DEF SubOK, Gone
<1>5. \A o \in Objects : Counted(d, {}, o)  BY <1>2, <1>3, <1>4 DEF Objects
<1>6. Anchored(d, "services") /\ Anchored(d, "subs")  BY <1>3, <1>4, Kinds DEF Anchored
<1>. QED  BY <1>1, <1>5, <1>6 DEF Falling, Torn

LEMMA FallingType ==
    ASSUME NEW d, NEW L, NEW X, Falling(d, L, X)
    PROVE  TypeOK(d) /\ Db \in d.heap /\ Structure(d, L)
BY DEF Falling, Torn, Structure

LEMMA FallingConnFreed ==
    ASSUME NEW d, NEW L, NEW M, NEW X, NEW c \in Clients, NEW k \in Conns, Falling(d, L, X),
           Without(L, M, c, k), d.map[k]["services"] = <<>>, d.map[k]["subs"] = <<>>
    PROVE  Falling(Unheaped(d, k), M, X)
<1>. DEFINE e == Unheaped(d, k)
<1>1. TypeOK(d) /\ Structure(d, L)  BY FallingType
<1>2. /\ TypeOK(e) /\ e.heap = d.heap \ {k} /\ e.ref = d.ref /\ e.map = d.map
  BY <1>1, UnheapedFields
<1>3. Structure(e, M) /\ OwnedBut(e, M, d, L, k)  BY <1>1, ConnFreedStructure
<1>. HIDE DEF e
<1>4. \A o \in Objects : o \in e.heap <=> o \in d.heap  BY <1>2, DistinctConstants
<1>5. ASSUME NEW o \in Objects \ X PROVE Counted(e, M, o)
  <2>1. Counted(d, L, o)  BY <1>5 DEF Falling, Torn
  <2>2. ASSUME NEW x \in Places(d.map, o) PROVE x[1] # k
    <3>1. SUFFICES ASSUME x[1] = k PROVE FALSE  OBVIOUS
    <3>2. k # Db  BY DistinctConstants
    <3>3. x \in Hosts \X Maps /\ Contains(d.map[k][x[2]], o)  BY <3>1 DEF Places
    <3>4. o \in Kind(x[2])  BY <1>1, PlaceKind DEF TypeOK
    <3>5. x[2] # "services" /\ x[2] # "subs"  BY <3>3 DEF Contains
    <3>6. x[2] # "timers"  BY <2>1, <3>1, <3>2 DEF Counted
    <3>7. x[2] = "clients"  BY <3>3, <3>5, <3>6 DEF Maps
    <3>8. x \in {<<Db, "clients">>}  BY <2>1, <3>4, <3>7, Kinds DEF Counted
    <3>. QED  BY <3>1, <3>2, <3>8
  <2>3. o \in Clients => Owned(e, M, o) = Owned(d, L, o) \ {k}  BY <1>3 DEF OwnedBut
  <2>. QED  BY <1>2, <1>4, <2>1, <2>2, <2>3 DEF Counted
<1>6. Torn(e, M, X)  BY <1>3, <1>5 DEF Torn
<1>7. Anchored(e, "services") /\ Anchored(e, "subs")
  BY <1>2, <1>4, Kinds DEF Falling, Anchored
<1>8. Falling(e, M, X)  BY <1>6, <1>7 DEF Falling
<1>. QED  BY <1>8 DEF e

LEMMA FallingDisowned ==
    ASSUME NEW d, NEW c \in Clients, Falling(d, {}, {c})
    PROVE  Falling(Disowned(d, c), {c} \X Own(d, c), {c})
<1>. DEFINE e == Disowned(d, c)  K == Own(d, c)  M == {c} \X K
<1>1. TypeOK(d) /\ Structure(d, {})  BY FallingType
<1>2. /\ TypeOK(e) /\ e.heap = d.heap /\ e.ref = d.ref /\ e.map = d.map
      /\ e.connected = d.connected /\ e.svc = d.svc
      /\ Own(e, c) = {} /\ e.active[c] = Nil
      /\ \A c2 \in Clients \ {c} : Own(e, c2) = Own(d, c2) /\ e.active[c2] = d.active[c2]
  BY <1>1, DisownedType
<1>. HIDE DEF e
<1>3. K \subseteq Conns  BY <1>1, OwnedConns
<1>4. \A c2 \in Clients : Owned(d, {}, c2) = Own(d, c2)  BY DEF Owned
<1>5. Owned(e, M, c) = Own(e, c) \cup K  BY <1>3 DEF Owned
<1>6. \A c2 \in Clients \ {c} : Owned(e, M, c2) = Own(e, c2)  BY DEF Owned
<1>7. \A c2 \in Clients : Owned(e, M, c2) = Owned(d, {}, c2)  BY <1>2, <1>4, <1>5, <1>6
<1>8. \A c2 \in Clients, k \in Conns : <<c2, k>> \in M => k \notin Own(e, c2)  BY <1>2
<1>. HIDE DEF M
<1>9. Structure(e, M)  BY <1>1, <1>2, <1>7, <1>8, RehungStructure
<1>10. \A o \in Objects \ {c} : Counted(e, M, o)  BY <1>2, <1>7 DEF Falling, Torn, Counted
<1>11. Anchored(e, "services") /\ Anchored(e, "subs")  BY <1>2 DEF Falling, Anchored
<1>12. Falling(e, M, {c})  BY <1>9, <1>10, <1>11 DEF Falling, Torn
<1>. QED  BY <1>12 DEF e, M

LEMMA FallingStep ==
    ASSUME NEW d, NEW L, NEW X, NEW e, NEW o, NEW Y,
           Falling(d, L, X), Touches(d, e, o), X \subseteq Y \cup {o},
           o \in Y \/ Counted(e, L, o),
           o \in Services /\ o \in e.heap => <<Db, "services">> \in Places(e.map, o),
           o \in Subs /\ o \in e.heap => <<Db, "subs">> \in Places(e.map, o)
    PROVE  Falling(e, L, Y)
<1>1. Torn(e, L, Y)  BY TornStep DEF Falling
<1>2. Anchored(e, "services")  BY AnchoredStep, Kinds, MapNames DEF Falling
<1>3. Anchored(e, "subs")  BY AnchoredStep, Kinds, MapNames DEF Falling
<1>. QED  BY <1>1, <1>2, <1>3 DEF Falling

\* A list whose first element gives its reference back and stays elsewhere.
LEMMA SweepDrop ==
    ASSUME NEW d, TypeOK(d), NEW h \in Hosts, NEW m \in Maps, NEW i \in Nat \ {0},
           i <= Len(d.map[h][m])
    PROVE  LET x == d.map[h][m][i]
               v == Swept(d, h, m, i)
               w == Swept(Dropped(d, x), h, m, i + 1)
           IN  /\ x \in Kind(m) /\ x \in Objects
               /\ <<h, m>> \in Places(v.map, x)
               /\ Touches(v, w, x) /\ w.heap = v.heap /\ w.ref[x] = v.ref[x] - 1
               /\ w.svc = v.svc
               /\ Places(w.map, x) = Places(v.map, x) \ {<<h, m>>}
<1>. DEFINE x == d.map[h][m][i]
            v == Swept(d, h, m, i)
            u == Swept(d, h, m, i + 1)
            w == Swept(Dropped(d, x), h, m, i + 1)
            n == u.ref[x] - 1
<1>1. /\ x \in Kind(m) /\ x \in Objects
      /\ <<h, m>> \in Places(v.map, x)
      /\ Touches(v, u, x) /\ u.heap = v.heap /\ u.ref = v.ref /\ u.svc = v.svc
      /\ Places(u.map, x) = Places(v.map, x) \ {<<h, m>>}
  BY SweepStep
<1>2. w = Dropped(u, x)  BY SweptDropped
<1>. HIDE DEF x, v, u, w
<1>3. TypeOK(u)  BY <1>1 DEF Touches
<1>4. n \in Int  BY <1>1, <1>3 DEF TypeOK
<1>. DEFINE e == WithRef(u, x, n)
<1>. HIDE DEF n
<1>5. /\ Touches(u, e, x) /\ e.ref[x] = n
      /\ e.heap = u.heap /\ e.map = u.map /\ e.svc = u.svc
  BY <1>1, <1>3, <1>4, WithRefOK
<1>6. w = e  BY <1>2 DEF Dropped, n
<1>. HIDE DEF e
<1>7. Touches(v, w, x)  BY <1>1, <1>5, <1>6, TouchesTwice
<1>8. w.ref[x] = v.ref[x] - 1  BY <1>1, <1>5, <1>6 DEF n
<1>9. w.heap = v.heap /\ w.svc = v.svc /\ Places(w.map, x) = Places(v.map, x) \ {<<h, m>>}
  BY <1>1, <1>5, <1>6
<1>. QED  BY <1>1, <1>7, <1>8, <1>9 DEF x, v, w

\* One whose first element is freed.
LEMMA SweepFree ==
    ASSUME NEW d, TypeOK(d), NEW h \in Hosts, NEW m \in Maps, NEW i \in Nat \ {0},
           i <= Len(d.map[h][m])
    PROVE  LET x == d.map[h][m][i]
               v == Swept(d, h, m, i)
               w == Swept(Freed(d, x), h, m, i + 1)
           IN  Places(v.map, x) = {<<h, m>>} => Touches(v, w, x) /\ Gone(w, x) /\ w.svc = v.svc
<1>. DEFINE x == d.map[h][m][i]
            v == Swept(d, h, m, i)
            u == Swept(d, h, m, i + 1)
            w == Swept(Freed(d, x), h, m, i + 1)
<1>1. /\ x \in Kind(m) /\ x \in Objects
      /\ <<h, m>> \in Places(v.map, x)
      /\ Touches(v, u, x) /\ u.heap = v.heap /\ u.ref = v.ref /\ u.svc = v.svc
      /\ Places(u.map, x) = Places(v.map, x) \ {<<h, m>>}
  BY SweepStep
<1>2. w = Freed(u, x)  BY SweptFreed
<1>. HIDE DEF x, v, u, w
<1>3. SUFFICES ASSUME Places(v.map, x) = {<<h, m>>}
               PROVE  Touches(v, w, x) /\ Gone(w, x) /\ w.svc = v.svc
  BY DEF x, v, w
<1>4. TypeOK(u) /\ Places(u.map, x) = {}  BY <1>1, <1>3 DEF Touches
<1>. DEFINE e == Freed(u, x)
<1>5. Touches(u, e, x) /\ e.svc = u.svc /\ e.map = u.map /\ Gone(e, x)
  BY <1>1, <1>4, FreeHeld
<1>. HIDE DEF e
<1>6. w = e  BY <1>2 DEF e
<1>7. Touches(v, w, x) /\ Gone(w, x) /\ w.svc = v.svc  BY <1>1, <1>5, <1>6, TouchesTwice
<1>. QED  BY <1>7

-----------------------------------------------------------------------------
(* What the statements do, as a relation between constants: t is todo and d *)
(* the data, t2 and d2 are what they become.                                *)

Next2(t, t2, a) == Starts(t2, a) /\ Tail(t2) = Tail(t)

ConnProgram(t, k, r) ==
    /\ Starts(t, Foreach(k, "services", 1, "dec_ref", k))
    /\ Starts(Tail(t), Clear(k, "services"))
    /\ Starts(Tail(Tail(t)), Foreach(k, "subs", 1, "dec_ref", k))
    /\ Starts(Tail(Tail(Tail(t))), Clear(k, "subs"))
    /\ Starts(Tail(Tail(Tail(Tail(t)))), Free(k))
    /\ Tail(Tail(Tail(Tail(Tail(t))))) = r

ServiceConn(d, c, s) ==
    LET K == {k \in ToSet(ConnsOf(d, c)) : Contains(d.map[k]["services"], s)}
    IN  IF K = {} THEN Nil ELSE CHOOSE k \in K : TRUE
Lookup(d, c) == IF Contains(d.map[Db]["clients"], c) THEN c ELSE Nil

Callbacks ==
    {"dec_ref", "sub_handle_conn_inactivation", "service_handle_conn_inactivation",
     "notify_sub_service_changed", "notify_sub_service_added"}
Called(d, cb, x, o) ==
    CASE cb = "dec_ref" -> Dec(x)
      [] cb = "sub_handle_conn_inactivation" -> Del(Db, "subs", x, Db)
      [] cb = "service_handle_conn_inactivation" ->
            Commit(x, d.svc[x].client_id, TRUE, "modified")
      [] cb = "notify_sub_service_changed" -> Notify(x, o)
      [] cb = "notify_sub_service_added" -> Notify(o, x)

DoesInc(t, d, t2, d2) == \A o : Starts(t, Inc(o)) => t2 = Tail(t) /\ d2 = Inced(d, o)
DoesDec(t, d, t2, d2) ==
    \A o : Starts(t, Dec(o)) =>
       /\ d2 = Dropped(d, o)
       /\ d.ref[o] # 1 => t2 = Tail(t)
       /\ d.ref[o] = 1 /\ o \notin Clients => Next2(t, t2, Free(o))
       /\ d.ref[o] = 1 /\ o \in Clients =>
             Starts(t2, DestroyConns(o, 1)) /\ Next2(t, Tail(t2), Free(o))
DoesFree(t, d, t2, d2) ==
    \A o : Starts(t, Free(o)) /\ TypeOK(d) =>
       /\ t2 = Tail(t)
       /\ o \notin Clients => d2 = Unheaped(d, o)
       /\ o \in Clients => d2 = Unheaped(Disowned(d, o), o)
DoesAdd(t, d, t2, d2) ==
    \A h, m, o, c : Starts(t, Add(h, m, o, c)) => t2 = Tail(t) /\ d2 = Put(d, h, m, o)
DoesDel(t, d, t2, d2) ==
    \A h, m, o, c : Starts(t, Del(h, m, o, c)) =>
       Next2(t, t2, Dec(o)) /\ d2 = Taken(d, h, m, o)
DoesClear(t, d, t2, d2) ==
    \A h, m : Starts(t, Clear(h, m)) => t2 = Tail(t) /\ d2 = Cleared(d, h, m)
DoesForeach(t, d, t2, d2) ==
    \A h, m, i, o : \A cb \in Callbacks : Starts(t, Foreach(h, m, i, cb, o)) =>
       /\ d2 = d
       /\ ~(i <= Len(d.map[h][m])) => t2 = Tail(t)
       /\ i <= Len(d.map[h][m]) =>
             /\ Starts(t2, Called(d, cb, d.map[h][m][i], o))
             /\ Next2(t, Tail(t2), Foreach(h, m, i + 1, cb, o))
DoesNotify(t, d, t2, d2) == \A b, s : Starts(t, Notify(b, s)) => t2 = Tail(t) /\ d2 = d
DoesCommit(t, d, t2, d2) ==
    \A s, c, orphan, change : Starts(t, Commit(s, c, orphan, change)) =>
       /\ d2 = Committed(d, s, [client_id |-> c, orphan |-> orphan,
                                was_orphan |-> change # "added" /\ d.svc[s].orphan])
       /\ Starts(t2, Foreach(Db, "subs", 1, "notify_sub_service_changed", s))
       /\ Next2(t, Tail(t2), Maintain(s, change))
DoesMaintain(t, d, t2, d2) ==
    \A change : \A s \in Services : Starts(t, Maintain(s, change)) /\ TypeOK(d) =>
       LET is == d.svc[s].orphan /\ change # "removed"
           was == d.svc[s].was_orphan
       IN  /\ is /\ ~was => t2 = Tail(t) /\ d2 = Put(d, Db, "timers", s)
           /\ was /\ ~is => Next2(t, t2, Dec(s)) /\ d2 = Taken(d, Db, "timers", s)
           /\ (is <=> was) => t2 = Tail(t) /\ d2 = d
DoesCapture(t, d, t2, d2) ==
    \A c, s : Starts(t, Capture(c, s)) =>
       LET victim == Lookup(d, d.svc[s].client_id)
           k == IF victim = Nil THEN Nil ELSE ServiceConn(d, victim, s)
       IN  /\ d2 = d
           /\ Starts(t2, Del(k, "services", s, victim))
           /\ Next2(t, Tail(t2), Add(d.active[c], "services", s, c))
DoesRemove(t, d, t2, d2) ==
    \A c, s : Only(t, RemoveService(c, s)) =>
       d2 = d /\ Remove1(t2, c, s, ServiceConn(d, c, s))
DoesConnect(t, d, t2, d2) ==
    \A c : Starts(t, NewConn(c)) /\ Conns \ d.heap # {} =>
       t2 = Tail(t) /\ \E k \in Conns \ d.heap : d2 = WithConn(d, c, k)
DoesKeep(t, d, t2, d2) ==
    \A c, k : Starts(t, KeepConn(c, k)) /\ TypeOK(d) =>
       /\ Idles(d, k) => d2 = d /\ ConnProgram(t2, k, Tail(t))
       /\ ~Idles(d, k) =>
             t2 = Tail(t) /\ d2 = WithInactive(d, c, Append(d.inactive[c], k))
DoesDrop(t, d, t2, d2) ==
    \A c, k : Starts(t, DropConn(c, k)) /\ TypeOK(d) =>
       /\ ~Idles(d, k) => d2 = d /\ t2 = Tail(t)
       /\ Idles(d, k) =>
             /\ ConnProgram(t2, k, Tail(t))
             /\ d2 = WithInactive(d, c, Deleted(d.inactive[c], k))
DoesDestroy(t, d, t2, d2) ==
    \A c, i : Starts(t, DestroyConns(c, i)) =>
       /\ d2 = d
       /\ ~(i <= Len(ConnsOf(d, c))) => t2 = Tail(t)
       /\ i <= Len(ConnsOf(d, c)) =>
             \E r : ConnProgram(t2, ConnsOf(d, c)[i], r) /\ Next2(t, r, DestroyConns(c, i + 1))
DoesLeave(t, d, t2, d2) ==
    \A c \in Clients : Starts(t, DropClient(c)) /\ TypeOK(d) =>
       /\ d2 = d
       /\ Stale(d, c) => Next2(t, t2, Del(Db, "clients", c, c))
       /\ ~Stale(d, c) => t2 = Tail(t)

Step(t, d, t2, d2) ==
    /\ DoesInc(t, d, t2, d2) /\ DoesDec(t, d, t2, d2) /\ DoesFree(t, d, t2, d2)
    /\ DoesAdd(t, d, t2, d2) /\ DoesDel(t, d, t2, d2) /\ DoesClear(t, d, t2, d2)
    /\ DoesForeach(t, d, t2, d2) /\ DoesNotify(t, d, t2, d2) /\ DoesCommit(t, d, t2, d2)
    /\ DoesMaintain(t, d, t2, d2) /\ DoesCapture(t, d, t2, d2) /\ DoesRemove(t, d, t2, d2)
    /\ DoesConnect(t, d, t2, d2) /\ DoesKeep(t, d, t2, d2) /\ DoesDrop(t, d, t2, d2)
    /\ DoesDestroy(t, d, t2, d2) /\ DoesLeave(t, d, t2, d2)

LEMMA Dispatch ==
    ASSUME Next, todo # <<>>
    PROVE  /\ Head(todo).op = "inc_ref" => inc_ref
           /\ Head(todo).op = "dec_ref" => dec_ref
           /\ Head(todo).op = "free" => ut_free
           /\ Head(todo).op = "add" => pmap_add_cnted
           /\ Head(todo).op = "del" => pmap_del_cnted
           /\ Head(todo).op = "clear" => pmap_clear
           /\ Head(todo).op = "foreach" => plist_foreach
           /\ Head(todo).op = "notify" => sub_notify
           /\ Head(todo).op = "commit" => service_commit
           /\ Head(todo).op = "maintain_orphans" => maintain_orphans
           /\ Head(todo).op = "capture_service" => capture_service
           /\ Head(todo).op = "remove_service" => remove_service
           /\ Head(todo).op = "conn_create" => conn_create
           /\ Head(todo).op = "keep_conn" => keep_conn
           /\ Head(todo).op = "drop_conn" => drop_conn
           /\ Head(todo).op = "destroy_conns" => destroy_conns
           /\ Head(todo).op = "drop_client" => drop_client
           /\ Statement
<1>1. Statement
  BY DEF Next, Call, sd_client_connect, sd_client_disconnect, sd_publish, sd_unpublish,
         sd_create_sub, sd_unsubscribe, orphan_timeout_cb, sd_destroy
<1>2. /\ inc_ref => At("inc_ref")
      /\ dec_ref => At("dec_ref")
      /\ ut_free => At("free")
      /\ pmap_add_cnted => At("add")
      /\ pmap_del_cnted => At("del")
      /\ pmap_clear => At("clear")
  BY DEF inc_ref, dec_ref, ut_free, pmap_add_cnted, pmap_del_cnted, pmap_clear
<1>3. /\ plist_foreach => At("foreach")
      /\ sub_notify => At("notify")
      /\ service_commit => At("commit")
      /\ maintain_orphans => At("maintain_orphans")
      /\ capture_service => At("capture_service")
      /\ remove_service => At("remove_service")
  BY DEF plist_foreach, sub_notify, service_commit, maintain_orphans, capture_service,
         remove_service
<1>4. /\ conn_create => At("conn_create")
      /\ keep_conn => At("keep_conn")
      /\ drop_conn => At("drop_conn")
      /\ destroy_conns => At("destroy_conns")
      /\ drop_client => At("drop_client")
  BY DEF conn_create, keep_conn, drop_conn, destroy_conns, drop_client
<1>. QED  BY <1>1, <1>2, <1>3, <1>4 DEF Statement, At

LEMMA RunNothing ==
    ASSUME IsSeq(todo), todo # <<>>, Run(<<>>)
    PROVE  todo' = Tail(todo)
BY TailSeq, PushNone DEF Run

LEMMA RunOne ==
    ASSUME IsSeq(todo), todo # <<>>, NEW a, Run(<<a>>)
    PROVE  Next2(todo, todo', a)
<1>1. IsSeq(Tail(todo))  BY TailSeq
<1>. QED  BY <1>1, Push1 DEF Run, Next2, Prog1

LEMMA RunTwo ==
    ASSUME IsSeq(todo), todo # <<>>, NEW a, NEW b, Run(<<a, b>>)
    PROVE  Starts(todo', a) /\ Next2(todo, Tail(todo'), b)
<1>1. IsSeq(Tail(todo))  BY TailSeq
<1>2. todo' = Prog2(a, b, Tail(todo))  BY DEF Run, Prog2
<1>. DEFINE r == Tail(todo)
<1>. HIDE DEF r
<1>3. IsSeq(r) /\ todo' = Prog2(a, b, r)  BY <1>1, <1>2 DEF r
<1>4. Starts(todo', a) /\ Tail(todo') = Prog1(b, r)  BY <1>3, Push2
<1>5. Starts(Prog1(b, r), b) /\ Tail(Prog1(b, r)) = r  BY <1>3, Push1
<1>. QED  BY <1>4, <1>5 DEF Next2, r

LEMMA RunConn ==
    ASSUME NEW k, NEW r, IsSeq(r)
    PROVE  ConnProgram(conn_destroy(k) \o r, k, r) /\ IsSeq(conn_destroy(k) \o r)
<1>. DEFINE a == Foreach(k, "services", 1, "dec_ref", k)  b == Clear(k, "services")
            c == Foreach(k, "subs", 1, "dec_ref", k)  d == Clear(k, "subs")  f == Free(k)
            t == Prog2(a, b, Prog2(c, d, Prog1(f, r)))
<1>. HIDE DEF a, b, c, d, f, t
<1>1. conn_destroy(k) = <<a, b>> \o <<c, d>> \o <<f>>
  BY DEF conn_destroy, ClearCounted, a, b, c, d, f
<1>2. conn_destroy(k) \o r = t
  <2>1. IsSeq(<<a, b>>) /\ IsSeq(<<c, d>>) /\ IsSeq(<<f>>)  BY Tuple1, Tuple2
  <2>. DEFINE p == <<a, b>>  q == <<c, d>>  u == <<f>>
  <2>. HIDE DEF p, q, u
  <2>2. IsSeq(p \o q) /\ IsSeq(u \o r)  BY <2>1, Assoc DEF p, q, u
  <2>3. ((p \o q) \o u) \o r = (p \o q) \o (u \o r)  BY <2>1, <2>2, Assoc DEF p, q, u
  <2>4. (p \o q) \o (u \o r) = p \o (q \o (u \o r))  BY <2>1, <2>2, Assoc DEF p, q, u
  <2>. QED  BY <1>1, <2>3, <2>4 DEF p, q, u, t, Prog1, Prog2
<1>3. IsSeq(Prog1(f, r)) /\ Starts(Prog1(f, r), f) /\ Tail(Prog1(f, r)) = r  BY Push1
<1>. DEFINE t4 == Prog1(f, r)
<1>. HIDE DEF t4
<1>4. IsSeq(t4) /\ Starts(t4, f) /\ Tail(t4) = r  BY <1>3 DEF t4
<1>. DEFINE t3 == Prog1(d, t4)  t2 == Prog2(c, d, t4)
<1>. HIDE DEF t3, t2
<1>5. IsSeq(t2) /\ Starts(t2, c) /\ Tail(t2) = t3  BY <1>4, Push2 DEF t2, t3
<1>6. Starts(t3, d) /\ Tail(t3) = t4  BY <1>4, Push1 DEF t3
<1>7. t = Prog2(a, b, t2)  BY DEF t, t2, t4
<1>8. IsSeq(t) /\ Starts(t, a) /\ Tail(t) = Prog1(b, t2)  BY <1>5, <1>7, Push2
<1>9. Starts(Tail(t), b) /\ Tail(Tail(t)) = t2  BY <1>5, <1>8, Push1
<1>10. ConnProgram(t, k, r)
  BY <1>4, <1>5, <1>6, <1>8, <1>9 DEF ConnProgram, a, b, c, d, f
<1>. QED  BY <1>2, <1>8, <1>10

LEMMA IncDoes == ASSUME Next, IsSeq(todo) PROVE DoesInc(todo, Data, todo', Data')
<1>1. SUFFICES ASSUME NEW o, Starts(todo, Inc(o))
               PROVE  todo' = Tail(todo) /\ Data' = Inced(Data, o)
  BY DEF DoesInc
<1>2. inc_ref /\ this.o = o  BY <1>1, Dispatch DEF this, Starts, Inc
<1>3. todo' = Tail(todo)  BY <1>1, <1>2, RunNothing DEF inc_ref, Starts
<1>. QED  BY <1>2, <1>3 DEF inc_ref, Data, Inced, WithRef

LEMMA DecDoes == ASSUME Next, IsSeq(todo) PROVE DoesDec(todo, Data, todo', Data')
<1>1. SUFFICES ASSUME NEW o, Starts(todo, Dec(o))
               PROVE  /\ Data' = Dropped(Data, o)
                      /\ ref_cnt[o] # 1 => todo' = Tail(todo)
                      /\ ref_cnt[o] = 1 /\ o \notin Clients => Next2(todo, todo', Free(o))
                      /\ ref_cnt[o] = 1 /\ o \in Clients =>
                            /\ Starts(todo', DestroyConns(o, 1))
                            /\ Next2(todo, Tail(todo'), Free(o))
  BY DEF DoesDec, Data
<1>2. dec_ref /\ this.o = o /\ todo # <<>>  BY <1>1, Dispatch DEF this, Starts, Dec
<1>3. Data' = Dropped(Data, o)  BY <1>2 DEF dec_ref, Data, Dropped, WithRef
<1>4. ref_cnt[o] # 1 => todo' = Tail(todo)  BY <1>2, RunNothing DEF dec_ref
<1>5. ref_cnt[o] = 1 => Run(destroy(o))  BY <1>2 DEF dec_ref
<1>6. ref_cnt[o] = 1 /\ o \notin Clients => Run(<<Free(o)>>)  BY <1>5 DEF destroy
<1>7. ref_cnt[o] = 1 /\ o \in Clients => Run(<<DestroyConns(o, 1), Free(o)>>)
  BY <1>5 DEF destroy
<1>. QED  BY <1>2, <1>3, <1>4, <1>6, <1>7, RunOne, RunTwo

LEMMA FreeDoes == ASSUME Next, IsSeq(todo) PROVE DoesFree(todo, Data, todo', Data')
<1>1. SUFFICES ASSUME NEW o, Starts(todo, Free(o)), TypeOK(Data)
               PROVE  /\ todo' = Tail(todo)
                      /\ o \notin Clients => Data' = Unheaped(Data, o)
                      /\ o \in Clients => Data' = Unheaped(Disowned(Data, o), o)
  BY DEF DoesFree
<1>2. ut_free /\ this.o = o /\ todo # <<>>  BY <1>1, Dispatch DEF this, Starts, Free
<1>3. todo' = Tail(todo)  BY <1>2, RunNothing DEF ut_free
<1>4. active \in [Clients -> Conns \cup {Nil}] /\ inactive \in [Clients -> Seq(Conns)]
  BY <1>1 DEF TypeOK, Data
<1>5. ASSUME o \notin Clients PROVE active' = active /\ inactive' = inactive
  <2>1. /\ active' = [c \in Clients |-> active[c]]
        /\ inactive' = [c \in Clients |-> inactive[c]]
    BY <1>2, <1>5 DEF ut_free
  <2>. QED  BY <1>4, <2>1
<1>6. /\ active' = [active EXCEPT ![o] = Nil]
      /\ inactive' = [inactive EXCEPT ![o] = <<>>]
  BY <1>2, <1>4 DEF ut_free
<1>7. heap' = heap \ {o} /\ UNCHANGED <<ref_cnt, map, connected, svc>>  BY <1>2 DEF ut_free
<1>8. o \notin Clients => Data' = Unheaped(Data, o)  BY <1>5, <1>7 DEF Data, Unheaped
<1>9. Data' = Unheaped(Disowned(Data, o), o)  BY <1>6, <1>7 DEF Data, Unheaped, Disowned
<1>. QED  BY <1>3, <1>8, <1>9

LEMMA AddDoes == ASSUME Next, IsSeq(todo) PROVE DoesAdd(todo, Data, todo', Data')
<1>1. SUFFICES ASSUME NEW h, NEW m, NEW o, NEW c, Starts(todo, Add(h, m, o, c))
               PROVE  todo' = Tail(todo) /\ Data' = Put(Data, h, m, o)
  BY DEF DoesAdd
<1>2. pmap_add_cnted /\ this.o = o /\ this.h = h /\ this.m = m /\ todo # <<>>
  BY <1>1, Dispatch DEF this, Starts, Add
<1>3. todo' = Tail(todo)  BY <1>2, RunNothing DEF pmap_add_cnted
<1>4. map' = SetList(map, h, m, Append(map[h][m], o))  BY <1>2 DEF pmap_add_cnted, SetList
<1>5. ref_cnt' = [ref_cnt EXCEPT ![o] = ref_cnt[o] + 1]  BY <1>2 DEF pmap_add_cnted
<1>6. UNCHANGED <<heap, active, inactive, connected, svc>>  BY <1>2 DEF pmap_add_cnted
<1>. DEFINE R == [ref_cnt EXCEPT ![o] = ref_cnt[o] + 1]
            M == SetList(map, h, m, Append(map[h][m], o))
<1>. HIDE DEF R, M
<1>7. Inced(Data, o) = [heap |-> heap, ref |-> R, map |-> map, active |-> active,
                        inactive |-> inactive, connected |-> connected, svc |-> svc]
  BY DEF Data, Inced, WithRef, R
<1>8. Put(Data, h, m, o) = [heap |-> heap, ref |-> R, map |-> M, active |-> active,
                            inactive |-> inactive, connected |-> connected, svc |-> svc]
  <2>1. Data.map = map  BY DEF Data
  <2>. QED  BY <1>7, <2>1 DEF Put, WithList, M
<1>9. Data' = [heap |-> heap, ref |-> R, map |-> M, active |-> active,
               inactive |-> inactive, connected |-> connected, svc |-> svc]
  BY <1>4, <1>5, <1>6 DEF Data, R, M
<1>. QED  BY <1>3, <1>8, <1>9

LEMMA DelDoes == ASSUME Next, IsSeq(todo) PROVE DoesDel(todo, Data, todo', Data')
<1>1. SUFFICES ASSUME NEW h, NEW m, NEW o, NEW c, Starts(todo, Del(h, m, o, c))
               PROVE  Next2(todo, todo', Dec(o)) /\ Data' = Taken(Data, h, m, o)
  BY DEF DoesDel
<1>2. pmap_del_cnted /\ this.o = o /\ this.h = h /\ this.m = m /\ todo # <<>>
  BY <1>1, Dispatch DEF this, Starts, Del
<1>3. Next2(todo, todo', Dec(o))  BY <1>2, RunOne DEF pmap_del_cnted
<1>4. map' = SetList(map, h, m, Deleted(map[h][m], o))  BY <1>2 DEF pmap_del_cnted, SetList
<1>5. UNCHANGED <<heap, ref_cnt, active, inactive, connected, svc>>  BY <1>2 DEF pmap_del_cnted
<1>. QED  BY <1>3, <1>4, <1>5 DEF Data, Taken, WithList

LEMMA ClearDoes == ASSUME Next, IsSeq(todo) PROVE DoesClear(todo, Data, todo', Data')
<1>1. SUFFICES ASSUME NEW h, NEW m, Starts(todo, Clear(h, m))
               PROVE  todo' = Tail(todo) /\ Data' = Cleared(Data, h, m)
  BY DEF DoesClear
<1>2. pmap_clear /\ this.o = h /\ this.m = m /\ todo # <<>>
  BY <1>1, Dispatch DEF this, Starts, Clear
<1>3. todo' = Tail(todo)  BY <1>2, RunNothing DEF pmap_clear
<1>4. map' = SetList(map, h, m, <<>>)  BY <1>2 DEF pmap_clear, SetList
<1>5. UNCHANGED <<heap, ref_cnt, active, inactive, connected, svc>>  BY <1>2 DEF pmap_clear
<1>. QED  BY <1>3, <1>4, <1>5 DEF Data, Cleared, WithList

LEMMA CallbackCalls ==
    ASSUME NEW cb \in Callbacks, NEW x, NEW o
    PROVE  Callback(cb, x, o) = <<Called(Data, cb, x, o)>>
BY DEF Callback, Callbacks, Called, Data

LEMMA AppendOne ==
    ASSUME NEW a, NEW b
    PROVE  Append(<<a>>, b) = <<a, b>>
<1>. DEFINE x == Append(<<a>>, b)  y == <<a, b>>
<1>1. x \in Seq({a, b}) /\ Len(x) = 2 /\ x[1] = a /\ x[2] = b  OBVIOUS
<1>2. y \in Seq({a, b}) /\ Len(y) = 2 /\ y[1] = a /\ y[2] = b  OBVIOUS
<1>. HIDE DEF x, y
<1>3. \A i \in 1..2 : i = 1 \/ i = 2  OBVIOUS
<1>4. \A i \in 1..Len(x) : x[i] = y[i]  BY <1>1, <1>2, <1>3
<1>5. x = y  BY <1>1, <1>2, <1>4, SeqEqual
<1>. QED  BY <1>5 DEF x, y

LEMMA NextTurn ==
    ASSUME NEW h, NEW m, NEW i, NEW cb, NEW o
    PROVE  [Foreach(h, m, i, cb, o) EXCEPT !.i = i + 1] = Foreach(h, m, i + 1, cb, o)
<1>. DEFINE U == {h}
<1>. HIDE DEF U
<1>1. \A n : Foreach(h, m, n, cb, o) = [op |-> "foreach", h |-> h, m |-> m, i |-> n,
                                       cb |-> cb, o |-> o, uses |-> U]
  BY DEF Foreach, U
<1>2. [[op |-> "foreach", h |-> h, m |-> m, i |-> i, cb |-> cb, o |-> o, uses |-> U]
         EXCEPT !.i = i + 1]
       = [op |-> "foreach", h |-> h, m |-> m, i |-> i + 1, cb |-> cb, o |-> o, uses |-> U]
  OBVIOUS
<1>. QED  BY <1>1, <1>2

LEMMA ForeachDoes == ASSUME Next, IsSeq(todo) PROVE DoesForeach(todo, Data, todo', Data')
<1>1. SUFFICES ASSUME NEW h, NEW m, NEW i, NEW o, NEW cb \in Callbacks,
                      Starts(todo, Foreach(h, m, i, cb, o))
               PROVE  /\ Data' = Data
                      /\ ~(i <= Len(map[h][m])) => todo' = Tail(todo)
                      /\ i <= Len(map[h][m]) =>
                            /\ Starts(todo', Called(Data, cb, map[h][m][i], o))
                            /\ Next2(todo, Tail(todo'), Foreach(h, m, i + 1, cb, o))
  BY DEF DoesForeach, Data
<1>2. plist_foreach /\ this = Foreach(h, m, i, cb, o) /\ todo # <<>>
  BY <1>1, Dispatch DEF this, Starts, Foreach
<1>3. this.h = h /\ this.m = m /\ this.i = i /\ this.cb = cb /\ this.o = o
  BY <1>2 DEF Foreach
<1>4. [this EXCEPT !.i = @ + 1] = Foreach(h, m, i + 1, cb, o)  BY <1>2, <1>3, NextTurn
<1>5. Data' = Data  BY <1>2 DEF plist_foreach, Data
<1>6. ~(i <= Len(map[h][m])) => todo' = Tail(todo)
  BY <1>2, <1>3, RunNothing DEF plist_foreach
<1>7. ASSUME i <= Len(map[h][m])
      PROVE  /\ Starts(todo', Called(Data, cb, map[h][m][i], o))
             /\ Next2(todo, Tail(todo'), Foreach(h, m, i + 1, cb, o))
  <2>. DEFINE a == Called(Data, cb, map[h][m][i], o)  b == Foreach(h, m, i + 1, cb, o)
  <2>1. Callback(cb, map[h][m][i], o) = <<a>>  BY CallbackCalls
  <2>2. Run(Append(Callback(cb, map[h][m][i], o), b))
    BY <1>2, <1>3, <1>4, <1>7 DEF plist_foreach
  <2>. HIDE DEF a, b
  <2>3. Run(Append(<<a>>, b))  BY <2>1, <2>2
  <2>4. Append(<<a>>, b) = <<a, b>>  BY AppendOne
  <2>5. Run(<<a, b>>)  BY <2>3, <2>4
  <2>6. Starts(todo', a) /\ Next2(todo, Tail(todo'), b)  BY <1>2, <2>5, RunTwo
  <2>. QED  BY <2>6 DEF a, b
<1>. QED  BY <1>5, <1>6, <1>7

LEMMA NotifyDoes == ASSUME Next, IsSeq(todo) PROVE DoesNotify(todo, Data, todo', Data')
<1>1. SUFFICES ASSUME NEW b, NEW s, Starts(todo, Notify(b, s))
               PROVE  todo' = Tail(todo) /\ Data' = Data
  BY DEF DoesNotify
<1>2. sub_notify /\ todo # <<>>  BY <1>1, Dispatch DEF Starts, Notify
<1>. QED  BY <1>2, RunNothing DEF sub_notify, Data

LEMMA CommitDoes == ASSUME Next, IsSeq(todo) PROVE DoesCommit(todo, Data, todo', Data')
<1>1. SUFFICES ASSUME NEW s, NEW c, NEW orphan, NEW change,
                      Starts(todo, Commit(s, c, orphan, change))
               PROVE  /\ Data' = Committed(Data, s,
                                    [client_id |-> c, orphan |-> orphan,
                                     was_orphan |-> change # "added" /\ svc[s].orphan])
                      /\ Starts(todo', Foreach(Db, "subs", 1, "notify_sub_service_changed", s))
                      /\ Next2(todo, Tail(todo'), Maintain(s, change))
  BY DEF DoesCommit, Data
<1>2. /\ service_commit /\ todo # <<>>
      /\ this.o = s /\ this.c = c /\ this.orphan = orphan /\ this.change = change
  BY <1>1, Dispatch DEF this, Starts, Commit
<1>. DEFINE v == [client_id |-> c, orphan |-> orphan,
                  was_orphan |-> change # "added" /\ svc[s].orphan]
<1>3. svc' = [svc EXCEPT ![s] = v]  BY <1>2 DEF service_commit
<1>. HIDE DEF v
<1>4. UNCHANGED <<heap, ref_cnt, map, active, inactive, connected>>  BY <1>2 DEF service_commit
<1>5. Data' = Committed(Data, s, v)  BY <1>3, <1>4 DEF Data, Committed
<1>6. Run(<<Foreach(Db, "subs", 1, "notify_sub_service_changed", s), Maintain(s, change)>>)
  BY <1>2 DEF service_commit
<1>7. /\ Starts(todo', Foreach(Db, "subs", 1, "notify_sub_service_changed", s))
      /\ Next2(todo, Tail(todo'), Maintain(s, change))
  BY <1>2, <1>6, RunTwo
<1>. QED  BY <1>5, <1>7 DEF v

LEMMA TimerAdded ==
    ASSUME NEW s, map' = SetList(map, Db, "timers", Append(map[Db]["timers"], s)),
           ref_cnt' = [ref_cnt EXCEPT ![s] = ref_cnt[s] + 1],
           UNCHANGED <<heap, active, inactive, connected, svc>>
    PROVE  Data' = Put(Data, Db, "timers", s)
<1>. DEFINE R == [ref_cnt EXCEPT ![s] = ref_cnt[s] + 1]
            M == SetList(map, Db, "timers", Append(map[Db]["timers"], s))
<1>. HIDE DEF R, M
<1>1. Inced(Data, s) = [heap |-> heap, ref |-> R, map |-> map, active |-> active,
                        inactive |-> inactive, connected |-> connected, svc |-> svc]
  BY DEF Data, Inced, WithRef, R
<1>2. Put(Data, Db, "timers", s) =
         [heap |-> heap, ref |-> R, map |-> M, active |-> active,
          inactive |-> inactive, connected |-> connected, svc |-> svc]
  <2>1. Data.map = map  BY DEF Data
  <2>. QED  BY <1>1, <2>1 DEF Put, WithList, M
<1>3. Data' = [heap |-> heap, ref |-> R, map |-> M, active |-> active,
               inactive |-> inactive, connected |-> connected, svc |-> svc]
  BY DEF Data, R, M
<1>. QED  BY <1>2, <1>3

LEMMA MaintainDoes == ASSUME Next, IsSeq(todo) PROVE DoesMaintain(todo, Data, todo', Data')
<1>1. SUFFICES ASSUME NEW change, NEW s \in Services, Starts(todo, Maintain(s, change)),
                      TypeOK(Data)
               PROVE  LET is == svc[s].orphan /\ change # "removed"
                          was == svc[s].was_orphan
                      IN  /\ is /\ ~was => /\ todo' = Tail(todo)
                                           /\ Data' = Put(Data, Db, "timers", s)
                          /\ was /\ ~is => /\ Next2(todo, todo', Dec(s))
                                           /\ Data' = Taken(Data, Db, "timers", s)
                          /\ (is <=> was) => todo' = Tail(todo) /\ Data' = Data
  BY DEF DoesMaintain, Data
<1>. DEFINE is == svc[s].orphan /\ change # "removed"
            was == svc[s].was_orphan
<1>2. maintain_orphans /\ todo # <<>> /\ this.o = s /\ this.change = change
  BY <1>1, Dispatch DEF this, Starts, Maintain
<1>3. was \in BOOLEAN /\ is \in BOOLEAN  BY <1>1 DEF TypeOK, SvcType, Data
<1>4. /\ \/ is /\ ~was /\ add_orphan_timer(s)
         \/ was /\ ~is /\ remove_orphan_timer(s)
         \/ is = was /\ Run(<<>>) /\ UNCHANGED <<map, ref_cnt>>
      /\ UNCHANGED <<heap, active, inactive, connected, svc>>
  BY <1>2 DEF maintain_orphans
<1>. HIDE DEF is, was
<1>5. ASSUME is, ~was PROVE todo' = Tail(todo) /\ Data' = Put(Data, Db, "timers", s)
  <2>1. add_orphan_timer(s)  BY <1>3, <1>4, <1>5
  <2>2. map' = SetList(map, Db, "timers", Append(map[Db]["timers"], s))
    BY <2>1 DEF add_orphan_timer, SetList
  <2>3. ref_cnt' = [ref_cnt EXCEPT ![s] = ref_cnt[s] + 1] /\ Run(<<>>)
    BY <2>1 DEF add_orphan_timer
  <2>. QED  BY <1>2, <1>4, <2>2, <2>3, RunNothing, TimerAdded
<1>6. ASSUME was, ~is PROVE Next2(todo, todo', Dec(s)) /\ Data' = Taken(Data, Db, "timers", s)
  <2>1. remove_orphan_timer(s)  BY <1>3, <1>4, <1>6
  <2>2. map' = SetList(map, Db, "timers", Deleted(map[Db]["timers"], s))
    BY <2>1 DEF remove_orphan_timer, SetList
  <2>3. ref_cnt' = ref_cnt /\ Run(<<Dec(s)>>)  BY <2>1 DEF remove_orphan_timer
  <2>4. Next2(todo, todo', Dec(s))  BY <1>2, <2>3, RunOne
  <2>5. Data' = Taken(Data, Db, "timers", s)  BY <1>4, <2>2, <2>3 DEF Data, Taken, WithList
  <2>. QED  BY <2>4, <2>5
<1>7. ASSUME is <=> was PROVE todo' = Tail(todo) /\ Data' = Data
  <2>1. Run(<<>>) /\ UNCHANGED <<map, ref_cnt>>  BY <1>4, <1>7
  <2>. QED  BY <1>2, <1>4, <2>1, RunNothing DEF Data
<1>. QED  BY <1>5, <1>6, <1>7 DEF is, was

LEMMA CaptureDoes == ASSUME Next, IsSeq(todo) PROVE DoesCapture(todo, Data, todo', Data')
<1>1. SUFFICES ASSUME NEW c, NEW s, Starts(todo, Capture(c, s))
               PROVE  LET victim == Lookup(Data, svc[s].client_id)
                          k == IF victim = Nil THEN Nil ELSE ServiceConn(Data, victim, s)
                      IN  /\ Data' = Data
                          /\ Starts(todo', Del(k, "services", s, victim))
                          /\ Next2(todo, Tail(todo'), Add(active[c], "services", s, c))
  BY DEF DoesCapture, Data
<1>2. capture_service /\ todo # <<>> /\ this.o = c /\ this.s = s
  BY <1>1, Dispatch DEF this, Starts, Capture
<1>. DEFINE victim == Lookup(Data, svc[s].client_id)
            k == IF victim = Nil THEN Nil ELSE ServiceConn(Data, victim, s)
            a == Del(k, "services", s, victim)
            b == Add(active[c], "services", s, c)
<1>3. db_get_client(svc[s].client_id) = victim  BY DEF db_get_client, Lookup, Data
<1>4. \A x : get_service_conn(x, s) = ServiceConn(Data, x, s)
  BY DEF get_service_conn, ServiceConn, client_conns, ConnsOf, Data
<1>5. Run(<<a, b>>)  BY <1>2, <1>3, <1>4 DEF capture_service
<1>6. Data' = Data  BY <1>2 DEF capture_service, Data
<1>. HIDE DEF a, b
<1>7. Starts(todo', a) /\ Next2(todo, Tail(todo'), b)  BY <1>2, <1>5, RunTwo
<1>. QED  BY <1>6, <1>7 DEF a, b

LEMMA RunRemove ==
    ASSUME NEW c, NEW s, NEW k
    PROVE  IsSeq(RemoveProgram(c, s, k)) /\ Remove1(RemoveProgram(c, s, k), c, s, k)
<1>. DEFINE p == RemoveProgram(c, s, k)
<1>1. p = <<Inc(s), Inc(c), Del(k, "services", s, c), DropConn(c, k), DropClient(c),
            Del(Db, "services", s, c), Commit(s, Nil, FALSE, "removed"), Dec(s), Dec(c)>>
  BY DEF RemoveProgram
<1>. HIDE DEF p
<1>2. IsSeq(p) /\ Remove1(p, c, s, k)
  <2>. DEFINE s1 == Inc(s)  s2 == Inc(c)  s3 == Del(k, "services", s, c)  s4 == DropConn(c, k)
              s5 == DropClient(c)  s6 == Del(Db, "services", s, c)
              s7 == Commit(s, Nil, FALSE, "removed")  s8 == Dec(s)  s9 == Dec(c)
  <2>. HIDE DEF s1, s2, s3, s4, s5, s6, s7, s8, s9
  <2>1. p = Nine(s1, s2, s3, s4, s5, s6, s7, s8, s9)
    BY <1>1 DEF Nine, s1, s2, s3, s4, s5, s6, s7, s8, s9
  <2>2. /\ IsSeq(p) /\ Starts(p, s1) /\ Starts(Tail(p), s2) /\ Starts(Tail(Tail(p)), s3)
        /\ Starts(Tail(Tail(Tail(p))), s4)
        /\ Starts(Tail(Tail(Tail(Tail(p)))), s5)
        /\ Starts(Tail(Tail(Tail(Tail(Tail(p))))), s6)
        /\ Starts(Tail(Tail(Tail(Tail(Tail(Tail(p)))))), s7)
        /\ Starts(Tail(Tail(Tail(Tail(Tail(Tail(Tail(p))))))), s8)
        /\ Only(Tail(Tail(Tail(Tail(Tail(Tail(Tail(Tail(p)))))))), s9)
    BY <2>1, Tuple9
  <2>. QED  BY <2>2 DEF Remove1, Remove2, Remove3, Remove4, Remove5, Remove6, Remove7,
                        Remove8, s1, s2, s3, s4, s5, s6, s7, s8, s9
<1>. QED  BY <1>2 DEF p

LEMMA RemoveDoes == ASSUME Next, IsSeq(todo) PROVE DoesRemove(todo, Data, todo', Data')
<1>1. SUFFICES ASSUME NEW c, NEW s, Only(todo, RemoveService(c, s))
               PROVE  Data' = Data /\ Remove1(todo', c, s, ServiceConn(Data, c, s))
  BY DEF DoesRemove
<1>2. remove_service /\ todo # <<>> /\ this.o = c /\ this.s = s /\ Tail(todo) = <<>>
  BY <1>1, Dispatch DEF this, Only, Starts, RemoveService
<1>. DEFINE k == ServiceConn(Data, c, s)
<1>3. get_service_conn(c, s) = k
  BY DEF get_service_conn, ServiceConn, client_conns, ConnsOf, Data
<1>. HIDE DEF k
<1>4. todo' = RemoveProgram(c, s, k) \o <<>>  BY <1>2, <1>3 DEF remove_service, Run
<1>5. IsSeq(RemoveProgram(c, s, k)) /\ Remove1(RemoveProgram(c, s, k), c, s, k)  BY RunRemove
<1>6. todo' = RemoveProgram(c, s, k)  BY <1>4, <1>5, PushNone
<1>7. Data' = Data  BY <1>2 DEF remove_service, Data
<1>. QED  BY <1>5, <1>6, <1>7 DEF k

LEMMA ConnectDoes == ASSUME Next, IsSeq(todo) PROVE DoesConnect(todo, Data, todo', Data')
<1>1. SUFFICES ASSUME NEW c, Starts(todo, NewConn(c)), Conns \ heap # {}
               PROVE  todo' = Tail(todo) /\ \E k \in Conns \ heap : Data' = WithConn(Data, c, k)
  BY DEF DoesConnect, Data
<1>2. conn_create /\ todo # <<>> /\ this.o = c
  BY <1>1, Dispatch DEF this, Starts, NewConn
<1>. DEFINE k == CHOOSE x \in Conns \ heap : TRUE
<1>3. k \in Conns \ heap  BY <1>1
<1>4. /\ heap' = heap \cup {k} /\ active' = [active EXCEPT ![c] = k]
      /\ connected' = connected \cup {k} /\ Run(<<>>)
      /\ UNCHANGED <<ref_cnt, map, inactive, svc>>
  BY <1>2 DEF conn_create
<1>. HIDE DEF k
<1>5. Data' = WithConn(Data, c, k)  BY <1>4 DEF Data, WithConn
<1>. QED  BY <1>2, <1>3, <1>4, <1>5, RunNothing

LEMMA KeepDoes == ASSUME Next, IsSeq(todo) PROVE DoesKeep(todo, Data, todo', Data')
<1>1. SUFFICES ASSUME NEW c, NEW k, Starts(todo, KeepConn(c, k)), TypeOK(Data)
               PROVE  /\ Idles(Data, k) => Data' = Data /\ ConnProgram(todo', k, Tail(todo))
                      /\ ~Idles(Data, k) =>
                            /\ todo' = Tail(todo)
                            /\ Data' = WithInactive(Data, c, Append(inactive[c], k))
  BY DEF DoesKeep, Data
<1>2. keep_conn /\ todo # <<>> /\ this.o = c /\ this.k = k
  BY <1>1, Dispatch DEF this, Starts, KeepConn
<1>3. conn_is_stale(k) <=> Idles(Data, k)  BY DEF conn_is_stale, Idles, Data
<1>4. UNCHANGED <<heap, ref_cnt, map, active, connected, svc>>  BY <1>2 DEF keep_conn
<1>5. ASSUME Idles(Data, k) PROVE Data' = Data /\ ConnProgram(todo', k, Tail(todo))
  <2>1. Run(conn_destroy(k)) /\ inactive' = [inactive EXCEPT ![c] = inactive[c]]
    BY <1>2, <1>3, <1>5 DEF keep_conn
  <2>2. inactive \in [Clients -> Seq(Conns)]  BY <1>1 DEF TypeOK, Data
  <2>3. inactive' = inactive  BY <2>1, <2>2
  <2>4. Data' = Data  BY <1>4, <2>3 DEF Data
  <2>5. IsSeq(Tail(todo))  BY <1>2, TailSeq
  <2>. QED  BY <2>1, <2>4, <2>5, RunConn DEF Run
<1>6. ASSUME ~Idles(Data, k)
      PROVE  todo' = Tail(todo) /\ Data' = WithInactive(Data, c, Append(inactive[c], k))
  <2>1. Run(<<>>) /\ inactive' = [inactive EXCEPT ![c] = Append(inactive[c], k)]
    BY <1>2, <1>3, <1>6 DEF keep_conn
  <2>. QED  BY <1>2, <1>4, <2>1, RunNothing DEF Data, WithInactive
<1>. QED  BY <1>5, <1>6

LEMMA DropDoes == ASSUME Next, IsSeq(todo) PROVE DoesDrop(todo, Data, todo', Data')
<1>1. SUFFICES ASSUME NEW c, NEW k, Starts(todo, DropConn(c, k)), TypeOK(Data)
               PROVE  /\ ~Idles(Data, k) => Data' = Data /\ todo' = Tail(todo)
                      /\ Idles(Data, k) =>
                            /\ ConnProgram(todo', k, Tail(todo))
                            /\ Data' = WithInactive(Data, c, Deleted(inactive[c], k))
  BY DEF DoesDrop, Data
<1>2. drop_conn /\ todo # <<>> /\ this.o = c /\ this.k = k
  BY <1>1, Dispatch DEF this, Starts, DropConn
<1>3. conn_is_stale(k) <=> Idles(Data, k)  BY DEF conn_is_stale, Idles, Data
<1>4. UNCHANGED <<heap, ref_cnt, map, active, connected, svc>>  BY <1>2 DEF drop_conn
<1>5. ASSUME ~Idles(Data, k) PROVE Data' = Data /\ todo' = Tail(todo)
  <2>1. Run(<<>>) /\ inactive' = [inactive EXCEPT ![c] = inactive[c]]
    BY <1>2, <1>3, <1>5 DEF drop_conn
  <2>2. inactive \in [Clients -> Seq(Conns)]  BY <1>1 DEF TypeOK, Data
  <2>3. inactive' = inactive  BY <2>1, <2>2
  <2>4. Data' = Data  BY <1>4, <2>3 DEF Data
  <2>. QED  BY <1>2, <2>1, <2>4, RunNothing
<1>6. ASSUME Idles(Data, k)
      PROVE  /\ ConnProgram(todo', k, Tail(todo))
             /\ Data' = WithInactive(Data, c, Deleted(inactive[c], k))
  <2>1. Run(conn_destroy(k)) /\ inactive' = [inactive EXCEPT ![c] = Deleted(inactive[c], k)]
    BY <1>2, <1>3, <1>6 DEF drop_conn
  <2>2. IsSeq(Tail(todo))  BY <1>2, TailSeq
  <2>3. ConnProgram(todo', k, Tail(todo))  BY <2>1, <2>2, RunConn DEF Run
  <2>4. Data' = WithInactive(Data, c, Deleted(inactive[c], k))
    BY <1>4, <2>1 DEF Data, WithInactive
  <2>. QED  BY <2>3, <2>4
<1>. QED  BY <1>5, <1>6

LEMMA DestroyTurn ==
    ASSUME NEW c, NEW i
    PROVE  [DestroyConns(c, i) EXCEPT !.i = i + 1] = DestroyConns(c, i + 1)
BY DEF DestroyConns

LEMMA AppendConn ==
    ASSUME NEW k, NEW a, NEW r, IsSeq(r)
    PROVE  Append(conn_destroy(k), a) \o r = conn_destroy(k) \o Prog1(a, r)
<1>. DEFINE p == conn_destroy(k)  q == <<a>>
<1>1. conn_destroy(k) \o <<>> = conn_destroy(k) /\ IsSeq(conn_destroy(k))
  <2>1. IsSeq(conn_destroy(k) \o <<>>)  BY RunConn, NoProgram
  <2>. DEFINE S == {Foreach(k, "services", 1, "dec_ref", k), Clear(k, "services"),
                    Foreach(k, "subs", 1, "dec_ref", k), Clear(k, "subs"), Free(k)}
  <2>2. /\ ClearCounted(k, "services") \in Seq(S) /\ ClearCounted(k, "subs") \in Seq(S)
        /\ <<Free(k)>> \in Seq(S)
    BY DEF ClearCounted
  <2>. HIDE DEF S
  <2>3. conn_destroy(k) \in Seq(S)  BY <2>2 DEF conn_destroy
  <2>. QED  BY <2>3, AnySeq, PushNone
<1>2. IsSeq(q)  BY Tuple1
<1>. HIDE DEF p, q
<1>3. IsSeq(p)  BY <1>1 DEF p
<1>4. Append(p, a) = p \o q
  <2>1. p \in Seq(ToSet(p))  BY <1>3 DEF IsSeq
  <2>. DEFINE S == ToSet(p) \cup {a}
  <2>2. p \in Seq(S) /\ a \in S  BY <2>1
  <2>. HIDE DEF S
  <2>3. Append(p, a) = p \o <<a>>  BY <2>2, AppendIsConcat
  <2>. QED  BY <2>3 DEF q
<1>5. (p \o q) \o r = p \o (q \o r)  BY <1>2, <1>3, Assoc
<1>. QED  BY <1>4, <1>5 DEF p, q, Prog1

LEMMA DestroyDoes == ASSUME Next, IsSeq(todo) PROVE DoesDestroy(todo, Data, todo', Data')
<1>1. SUFFICES ASSUME NEW c, NEW i, Starts(todo, DestroyConns(c, i))
               PROVE  /\ Data' = Data
                      /\ ~(i <= Len(ConnsOf(Data, c))) => todo' = Tail(todo)
                      /\ i <= Len(ConnsOf(Data, c)) =>
                            \E r : /\ ConnProgram(todo', ConnsOf(Data, c)[i], r)
                                   /\ Next2(todo, r, DestroyConns(c, i + 1))
  BY DEF DoesDestroy
<1>2. destroy_conns /\ this = DestroyConns(c, i) /\ todo # <<>>
  BY <1>1, Dispatch DEF this, Starts, DestroyConns
<1>3. this.o = c /\ this.i = i  BY <1>2 DEF DestroyConns
<1>4. [this EXCEPT !.i = @ + 1] = DestroyConns(c, i + 1)  BY <1>2, <1>3, DestroyTurn
<1>5. client_conns(c) = ConnsOf(Data, c)  BY DEF client_conns, ConnsOf, Data
<1>. DEFINE q == ConnsOf(Data, c)
<1>. HIDE DEF q
<1>6. Data' = Data  BY <1>2 DEF destroy_conns, Data
<1>7. ~(i <= Len(q)) => todo' = Tail(todo)
  BY <1>2, <1>3, <1>5, RunNothing DEF destroy_conns, q
<1>8. ASSUME i <= Len(q)
      PROVE  \E r : ConnProgram(todo', q[i], r) /\ Next2(todo, r, DestroyConns(c, i + 1))
  <2>. DEFINE a == DestroyConns(c, i + 1)  k == q[i]
  <2>1. Run(Append(conn_destroy(k), a))
    BY <1>2, <1>3, <1>4, <1>5, <1>8 DEF destroy_conns, q
  <2>. HIDE DEF a, k
  <2>. DEFINE r == Prog1(a, Tail(todo))
  <2>2. IsSeq(Tail(todo))  BY <1>2, TailSeq
  <2>3. IsSeq(r) /\ Starts(r, a) /\ Tail(r) = Tail(todo)  BY <2>2, Push1
  <2>4. todo' = conn_destroy(k) \o r
    <3>1. todo' = Append(conn_destroy(k), a) \o Tail(todo)  BY <2>1 DEF Run
    <3>. QED  BY <2>2, <3>1, AppendConn, Zenon
  <2>. HIDE DEF r
  <2>5. ConnProgram(todo', k, r)  BY <2>3, <2>4, RunConn
  <2>. QED  BY <2>3, <2>5 DEF Next2, a, k
<1>. QED  BY <1>6, <1>7, <1>8 DEF q

LEMMA LeaveDoes == ASSUME Next, IsSeq(todo) PROVE DoesLeave(todo, Data, todo', Data')
<1>1. SUFFICES ASSUME NEW c \in Clients, Starts(todo, DropClient(c)), TypeOK(Data)
               PROVE  /\ Data' = Data
                      /\ Stale(Data, c) => Next2(todo, todo', Del(Db, "clients", c, c))
                      /\ ~Stale(Data, c) => todo' = Tail(todo)
  BY DEF DoesLeave
<1>2. drop_client /\ todo # <<>> /\ this.o = c
  BY <1>1, Dispatch DEF this, Starts, DropClient
<1>3. \A k : conn_is_stale(k) <=> Idles(Data, k)  BY DEF conn_is_stale, Idles, Data
<1>4. client_conns(c) = ConnsOf(Data, c)  BY DEF client_conns, ConnsOf, Data
<1>5. ToSet(client_conns(c)) = Own(Data, c)  BY <1>1, <1>4, ConnsList
<1>6. client_is_stale(c) <=> Stale(Data, c)  BY <1>3, <1>5 DEF client_is_stale, Stale
<1>7. Data' = Data  BY <1>2 DEF drop_client, Data
<1>8. Stale(Data, c) => Run(<<Del(Db, "clients", c, c)>>)  BY <1>2, <1>6 DEF drop_client
<1>9. ~Stale(Data, c) => Run(<<>>)  BY <1>2, <1>6 DEF drop_client
<1>. QED  BY <1>2, <1>7, <1>8, <1>9, RunOne, RunNothing

LEMMA StepTaken ==
    ASSUME Next, IsSeq(todo), todo # <<>>
    PROVE  Step(todo, Data, todo', Data')
BY IncDoes, DecDoes, FreeDoes, AddDoes, DelDoes, ClearDoes, ForeachDoes, NotifyDoes,
   CommitDoes, MaintainDoes, CaptureDoes, RemoveDoes, ConnectDoes, KeepDoes, DropDoes,
   DestroyDoes, LeaveDoes DEF Step

-----------------------------------------------------------------------------
(* What a statement needs: NoUseAfterFree and AssertsHold for data d.       *)

Alive(a, d) == {a.o} \cup a.uses \subseteq d.heap
Asserted(a, d) ==
    /\ a.op \in {"inc_ref", "dec_ref", "add"} => d.ref[a.o] > 0
    /\ a.op = "add" => ~Contains(d.map[a.h][a.m], a.o)
    /\ a.op = "del" => Contains(d.map[a.h][a.m], a.o)
    /\ a.op = "maintain_orphans" =>
          (Contains(d.map[Db]["timers"], a.o) <=> d.svc[a.o].was_orphan)
Safe(t, d) == t # <<>> => Alive(Head(t), d) /\ Asserted(Head(t), d)

LEMMA SafeCount ==
    ASSUME NEW t, NEW d, NEW o, Starts(t, Inc(o)) \/ Starts(t, Dec(o)), o \in d.heap, d.ref[o] > 0
    PROVE  Safe(t, d)
BY DEF Safe, Alive, Asserted, Starts, Inc, Dec

LEMMA SafeFree ==
    ASSUME NEW t, NEW d, NEW o, Starts(t, Free(o)), o \in d.heap
    PROVE  Safe(t, d)
BY DEF Safe, Alive, Asserted, Starts, Free

LEMMA SafeAdd ==
    ASSUME NEW t, NEW d, NEW h \in Hosts, NEW m \in Maps, NEW o, NEW c, Starts(t, Add(h, m, o, c)),
           h \in d.heap, c \in d.heap, o \in d.heap, d.ref[o] > 0,
           <<h, m>> \notin Places(d.map, o)
    PROVE  Safe(t, d)
<1>1. ~Contains(d.map[h][m], o)
  BY PlaceOf
<1>. QED  BY <1>1 DEF Safe, Alive, Asserted, Starts, Add

LEMMA SafeDel ==
    ASSUME NEW t, NEW d, NEW h \in Hosts, NEW m \in Maps, NEW o, NEW c, Starts(t, Del(h, m, o, c)),
           h \in d.heap, c \in d.heap, o \in d.heap, <<h, m>> \in Places(d.map, o)
    PROVE  Safe(t, d)
<1>1. Contains(d.map[h][m], o)
  BY PlaceOf
<1>. QED  BY <1>1 DEF Safe, Alive, Asserted, Starts, Del

LEMMA SafeList ==
    ASSUME NEW t, NEW d, NEW h, NEW m, h \in d.heap,
           \/ Starts(t, Clear(h, m))
           \/ \E i, cb, o : o \in d.heap /\ Starts(t, Foreach(h, m, i, cb, o))
    PROVE  Safe(t, d)
BY DEF Safe, Alive, Asserted, Starts, Clear, Foreach

LEMMA SafeService ==
    ASSUME NEW t, NEW d, NEW s, s \in d.heap,
           \/ \E b \in d.heap : Starts(t, Notify(b, s))
           \/ \E c, orphan, change : Starts(t, Commit(s, c, orphan, change))
           \/ \E c \in d.heap : Starts(t, Capture(c, s)) \/ Starts(t, RemoveService(c, s))
    PROVE  Safe(t, d)
BY DEF Safe, Alive, Asserted, Starts, Notify, Commit, Capture, RemoveService

LEMMA SafeMaintain ==
    ASSUME NEW t, NEW d, NEW s, s \in d.heap, NEW change, Starts(t, Maintain(s, change)),
           <<Db, "timers">> \in Places(d.map, s) <=> d.svc[s].was_orphan
    PROVE  Safe(t, d)
<1>1. Contains(d.map[Db]["timers"], s) <=> d.svc[s].was_orphan
  BY PlaceOf, MapNames
<1>. QED  BY <1>1 DEF Safe, Alive, Asserted, Starts, Maintain

LEMMA SafeClient ==
    ASSUME NEW t, NEW d, NEW c, c \in d.heap,
           \/ Starts(t, NewConn(c)) \/ Starts(t, DropClient(c))
           \/ \E i : Starts(t, DestroyConns(c, i))
           \/ \E k \in d.heap : Starts(t, KeepConn(c, k)) \/ Starts(t, DropConn(c, k))
    PROVE  Safe(t, d)
BY DEF Safe, Alive, Asserted, Starts, NewConn, DropClient, DestroyConns, KeepConn, DropConn

-----------------------------------------------------------------------------
(* References that are given back.                                          *)

LEMMA UnheapedFreed ==
    ASSUME NEW d, TypeOK(d), NEW o \in Objects, d.ref[o] = 0
    PROVE  Unheaped(d, o) = Freed(d, o)
<1>1. [d.ref EXCEPT ![o] = 0] = d.ref
  BY DEF TypeOK
<1>. QED  BY <1>1 DEF Unheaped, Freed

LEMMA FreedDropped ==
    ASSUME NEW d, TypeOK(d), NEW o \in Objects
    PROVE  Freed(Dropped(d, o), o) = Freed(d, o)
<1>. DEFINE e == Dropped(d, o)
<1>1. IsData(d) /\ d.ref \in [Objects -> Int]
  BY DEF TypeOK
<1>2. /\ e.ref = [d.ref EXCEPT ![o] = d.ref[o] - 1]
      /\ e.heap = d.heap /\ e.map = d.map /\ e.active = d.active
      /\ e.inactive = d.inactive /\ e.connected = d.connected /\ e.svc = d.svc
  BY <1>1, WithRefFields DEF Dropped
<1>3. [e.ref EXCEPT ![o] = 0] = [d.ref EXCEPT ![o] = 0]
  BY <1>1, <1>2
<1>. DEFINE f == [e.ref EXCEPT ![o] = 0]
            g == [d.ref EXCEPT ![o] = 0]
<1>4. f = g
  BY <1>3
<1>5. /\ Freed(e, o) = [heap |-> e.heap \ {o}, ref |-> f, map |-> e.map, active |-> e.active,
                        inactive |-> e.inactive, connected |-> e.connected, svc |-> e.svc]
      /\ Freed(d, o) = [heap |-> d.heap \ {o}, ref |-> g, map |-> d.map, active |-> d.active,
                        inactive |-> d.inactive, connected |-> d.connected, svc |-> d.svc]
  BY DEF Freed
<1>. HIDE DEF e, f, g
<1>6. Freed(e, o) = Freed(d, o)
  BY <1>2, <1>4, <1>5
<1>. QED  BY <1>6 DEF e

LEMMA DropReached ==
    ASSUME NEW t, NEW d, NEW o \in Objects, Starts(t, Dec(o)), o \in d.heap, d.ref[o] >= 2,
           TypeOK(d), Point(Tail(t), Dropped(d, o))
    PROVE  Reached(t, d)
BY DEF Reached, Dropping

LEMMA FreeReached ==
    ASSUME NEW t, NEW d, NEW o \in Services \cup Subs, Starts(t, Dec(o)), o \in d.heap,
           d.ref[o] = 1, TypeOK(d), Point(Tail(t), Freed(d, o))
    PROVE  Reached(t, d)
BY DEF Reached, Freeing

LEMMA DroppingStep ==
    ASSUME NEW t, NEW d, NEW t2, NEW d2, Step(t, d, t2, d2), Dropping(t, d)
    PROVE  Safe(t, d) /\ Reached(t2, d2)
<1>1. PICK o \in Objects :
          /\ Starts(t, Dec(o)) /\ o \in d.heap /\ d.ref[o] >= 2 /\ TypeOK(d)
          /\ Point(Tail(t), Dropped(d, o))
  BY DEF Dropping
<1>2. d.ref[o] \in Int
  BY <1>1 DEF TypeOK
<1>3. d.ref[o] # 1 /\ d.ref[o] > 0
  BY <1>1, <1>2
<1>4. t2 = Tail(t) /\ d2 = Dropped(d, o)
  BY <1>1, <1>3 DEF Step, DoesDec
<1>. QED  BY <1>1, <1>3, <1>4, SafeCount DEF Reached

LEMMA FreeingStep ==
    ASSUME NEW t, NEW d, NEW t2, NEW d2, Step(t, d, t2, d2), Freeing(t, d)
    PROVE  Safe(t, d) /\ Reached(t2, d2)
<1>1. PICK o \in Services \cup Subs :
          /\ o \in d.heap /\ TypeOK(d)
          /\ \/ Starts(t, Dec(o)) /\ d.ref[o] = 1
             \/ Starts(t, Free(o)) /\ d.ref[o] = 0
          /\ Point(Tail(t), Freed(d, o))
  BY DEF Freeing
<1>2. o \in Objects /\ o \notin Clients
  BY DistinctConstants DEF Objects
<1>3. CASE Starts(t, Dec(o)) /\ d.ref[o] = 1
  <2>1. Next2(t, t2, Free(o)) /\ d2 = Dropped(d, o)
    BY <1>3, <1>2 DEF Step, DoesDec
  <2>2. TypeOK(d2) /\ d2.ref[o] = 0 /\ o \in d2.heap
    <3>1. TypeOK(d) /\ d.ref[o] - 1 \in Int /\ d.ref[o] - 1 = 0
      BY <1>1, <1>3
    <3>2. Touches(d, d2, o) /\ d2.ref[o] = d.ref[o] - 1 /\ d2.heap = d.heap
      BY <2>1, <3>1, <1>2, WithRefOK DEF Dropped
    <3>. QED  BY <3>1, <3>2, <1>1 DEF Touches
  <2>3. Freed(d2, o) = Freed(d, o)
    BY <2>1, <1>1, <1>2, FreedDropped
  <2>4. Reached(t2, d2)
    BY <2>1, <2>2, <2>3, <1>1 DEF Reached, Freeing, Next2
  <2>. QED  BY <2>4, <1>3, <1>1, SafeCount
<1>4. CASE Starts(t, Free(o)) /\ d.ref[o] = 0
  <2>1. t2 = Tail(t) /\ d2 = Unheaped(d, o)
    BY <1>4, <1>1, <1>2 DEF Step, DoesFree
  <2>2. d2 = Freed(d, o)
    BY <2>1, <1>1, <1>2, <1>4, UnheapedFreed
  <2>. QED  BY <2>1, <2>2, <1>1, <1>4, SafeFree DEF Reached
<1>. QED  BY <1>1, <1>3, <1>4

-----------------------------------------------------------------------------
(* Objects that are in order, and objects and lists that a step leaves      *)
(* alone.                                                                   *)

LEMMA OKClient ==
    ASSUME NEW e, NEW L, NEW c \in Clients, Held(e, c, 1, {<<Db, "clients">>})
    PROVE  OK(e, L, c)
BY DistinctConstants DEF OK, ClientOK

LEMMA OKService ==
    ASSUME NEW e, NEW L, NEW s \in Services, NEW k \in Conns, ServiceIn(e, L, s, k)
    PROVE  OK(e, L, s)
BY DistinctConstants DEF OK, ServiceOK

LEMMA OKSub ==
    ASSUME NEW e, NEW L, NEW b \in Subs, NEW k \in e.connected,
           Held(e, b, 2, {<<Db, "subs">>, <<k, "subs">>})
    PROVE  OK(e, L, b)
BY DistinctConstants DEF OK, SubOK

LEMMA OKGone ==
    ASSUME NEW e, NEW L, NEW o, Gone(e, o), o \in Clients => Owned(e, L, o) = {}
    PROVE  OK(e, L, o)
BY DEF OK, ClientOK, ServiceOK, SubOK

LEMMA SameHeld ==
    ASSUME NEW d, NEW e, NEW o, Touches(d, e, o), NEW x \in Objects \ {o}, NEW r, NEW P,
           Held(d, x, r, P)
    PROVE  Held(e, x, r, P)
BY DEF Touches, Same, Held

LEMMA SameService ==
    ASSUME NEW d, NEW e, NEW o, Touches(d, e, o), NEW s \in Services \ {o}, NEW r, NEW P, NEW w,
           HeldService(d, s, r, P, w)
    PROVE  HeldService(e, s, r, P, w) /\ e.svc[s] = d.svc[s]
BY SameHeld DEF HeldService, Objects, Touches, Same

LEMMA WithRefMap ==
    ASSUME NEW d, IsData(d), NEW o, NEW n
    PROVE  IsData(WithRef(d, o, n)) /\ WithRef(d, o, n).map = d.map
BY DEF IsData, WithRef

LEMMA TakenLists ==
    ASSUME NEW d, TypeOK(d), NEW h \in Hosts, NEW m \in Maps, NEW o,
           <<h, m>> \in Places(d.map, o), NEW e,
           e \in {Taken(d, h, m, o), Dropped(Taken(d, h, m, o), o)},
           NEW h2 \in Hosts, NEW m2 \in Maps, h2 # h \/ m2 # m
    PROVE  e.map[h2][m2] = d.map[h2][m2]
<1>1. IsData(d) /\ MapsOK(d.map)
  BY DEF TypeOK
<1>. DEFINE q == Deleted(d.map[h][m], o)
            f == Taken(d, h, m, o)
<1>2. q \in Seq(Kind(m)) /\ Injective(q)
  <2>. DEFINE p == d.map[h][m]
  <2>1. p \in Seq(Kind(m)) /\ Injective(p) /\ Contains(p, o)
    BY ListOK, PlaceOf
  <2>. HIDE DEF p
  <2>2. Deleted(p, o) \in Seq(Kind(m)) /\ Injective(Deleted(p, o))
    BY <2>1, DeleteList
  <2>. QED  BY <2>2 DEF p
<1>. HIDE DEF q
<1>3. IsData(f) /\ f.map = SetList(d.map, h, m, q)
  BY <1>1, WithListFields DEF Taken, q
<1>. HIDE DEF f
<1>4. e.map = f.map
  <2>1. e = f \/ e = Dropped(f, o)
    BY DEF f
  <2>2. Dropped(f, o).map = f.map
    BY <1>3, WithRefMap DEF Dropped
  <2>. QED  BY <2>1, <2>2
<1>. QED  BY <1>1, <1>2, <1>3, <1>4, SetListOK

LEMMA PutLists ==
    ASSUME NEW d, TypeOK(d), NEW h \in Hosts, NEW m \in Maps, NEW o \in Kind(m),
           <<h, m>> \notin Places(d.map, o),
           NEW h2 \in Hosts, NEW m2 \in Maps, h2 # h \/ m2 # m
    PROVE  Put(d, h, m, o).map[h2][m2] = d.map[h2][m2]
<1>1. IsData(d) /\ MapsOK(d.map)
  BY DEF TypeOK
<1>. DEFINE q == Append(d.map[h][m], o)
            f == Inced(d, o)
<1>2. q \in Seq(Kind(m)) /\ Injective(q)
  <2>1. /\ d.map[h][m] \in Seq(Kind(m)) /\ Injective(d.map[h][m])
        /\ ~Contains(d.map[h][m], o)
    BY ListOK, PlaceOf
  <2>. QED  BY <2>1, AppendList
<1>. HIDE DEF q
<1>3. IsData(f) /\ f.map = d.map
  BY <1>1, WithRefMap DEF Inced
<1>. HIDE DEF f
<1>4. WithList(f, h, m, q).map = SetList(d.map, h, m, q)
  BY <1>3, WithListFields
<1>5. Put(d, h, m, o) = WithList(f, h, m, q)
  BY DEF Put, f, q
<1>. QED  BY <1>1, <1>2, <1>4, <1>5, SetListOK

\* The list of the services of a connection, and so whether it idles, is left
\* alone, too.
LEMMA SameStale ==
    ASSUME NEW d, TypeOK(d), NEW e, NEW c \in Clients,
           Own(e, c) = Own(d, c), e.connected = d.connected,
           \A k \in Conns : e.map[k]["services"] = d.map[k]["services"]
    PROVE  Stale(e, c) <=> Stale(d, c)
BY OwnedConns DEF Stale, Idles

LEMMA LooseHeap ==
    ASSUME NEW d, NEW L, NEW X, Good(d, L, X), NEW c \in Clients, NEW k \in Conns, <<c, k>> \in L
    PROVE  k \in d.heap /\ k \in Owned(d, L, c)
<1>1. \A x \in Clients : Owned(d, L, x) \subseteq d.heap
  BY DEF Good, Structure
<1>2. k \in Owned(d, L, c)
  BY DEF Owned
<1>. QED  BY <1>1, <1>2

LEMMA LooseOne ==
    ASSUME NEW d, NEW X, NEW c \in Clients, NEW k \in Conns, Good(d, {<<c, k>>}, X)
    PROVE  k \in d.heap /\ k \in Owned(d, {<<c, k>>}, c)
<1>. DEFINE L == {<<c, k>>}
<1>1. <<c, k>> \in L /\ Good(d, L, X)
  OBVIOUS
<1>. HIDE DEF L
<1>2. k \in d.heap /\ k \in Owned(d, L, c)
  BY <1>1, LooseHeap
<1>. QED  BY <1>2 DEF L

LEMMA OwnHeap ==
    ASSUME NEW d, NEW L, NEW X, Good(d, L, X), NEW c \in Clients, NEW k \in Own(d, c)
    PROVE  k \in d.heap /\ k \in Conns
<1>1. \A x \in Clients : Owned(d, L, x) \subseteq d.heap
  BY DEF Good, Structure
<1>2. Own(d, c) \subseteq Owned(d, L, c) /\ Owned(d, L, c) \subseteq Conns
  BY GoodType, OwnedConns
<1>. QED  BY <1>1, <1>2

LEMMA ActiveOwn ==
    ASSUME NEW d, NEW L, NEW X, Good(d, L, X), NEW c \in Clients, d.active[c] # Nil
    PROVE  /\ d.active[c] \in Own(d, c) /\ d.active[c] \in d.connected
           /\ d.active[c] \in d.heap /\ d.active[c] \in Conns
<1>1. d.active[c] \in Own(d, c)
  BY DEF Own
<1>. QED  BY <1>1, OwnHeap DEF Good, Linked

LEMMA IdleReached == ASSUME NEW d, Good(d, {}, {}) PROVE Point(<<>>, d) /\ Reached(<<>>, d)
BY DEF Idle, Point, Reached

LEMMA Flags ==
    ASSUME NEW d, TypeOK(d), NEW s \in Services
    PROVE  d.svc[s].orphan \in BOOLEAN /\ d.svc[s].was_orphan \in BOOLEAN
BY DEF TypeOK, SvcType

LEMMA TimerRefs == \A w : TimerRef(w) \in Int /\ TimerRef(w) >= 0
BY DEF TimerRef

-----------------------------------------------------------------------------
(* sd_client_connect()                                                      *)

LEMMA Connect1Step ==
    ASSUME NEW t, NEW d, NEW t2, NEW d2, Step(t, d, t2, d2), NEW c \in Clients, Connect1(t, d, c)
    PROVE  Safe(t, d) /\ Reached(t2, d2)
<1>1. Starts(t, NewConn(c)) /\ Good(d, {}, {c}) /\ Held(d, c, 1, {}) /\ Own(d, c) = {}
  BY DEF Connect1, NewClient
<1>2. PICK k \in Conns \ d.heap : t2 = Tail(t) /\ d2 = WithConn(d, c, k)
  BY <1>1 DEF Step, DoesConnect, Connect1
<1>3. c \in d.heap /\ d.active[c] = Nil
  BY <1>1 DEF Held, Own
<1>4. Good(d2, {}, {c}) /\ Held(d2, c, 1, {})
  BY <1>1, <1>2, <1>3, ConnAdded
<1>5. Connect2(t2, d2, c)
  BY <1>2, <1>4 DEF Connect1, Connect2, NewClient
<1>. QED  BY <1>1, <1>3, <1>5, SafeClient DEF Reached, Point, ClientPoint

LEMMA Connect2Step ==
    ASSUME NEW t, NEW d, NEW t2, NEW d2, Step(t, d, t2, d2), NEW c \in Clients, Connect2(t, d, c)
    PROVE  Safe(t, d) /\ Reached(t2, d2)
<1>1. /\ Starts(t, Add(Db, "clients", c, c)) /\ Only(Tail(t), Dec(c))
      /\ Good(d, {}, {c}) /\ Held(d, c, 1, {})
  BY DEF Connect2, NewClient
<1>2. t2 = Tail(t) /\ d2 = Put(d, Db, "clients", c)
  BY <1>1 DEF Step, DoesAdd
<1>3. TypeOK(d) /\ Db \in d.heap /\ c \in Objects /\ c \in Kind("clients")
  BY <1>1, GoodType, Kinds DEF Objects
<1>4. Touches(d, d2, c) /\ Held(d2, c, 1 + 1, {} \cup {<<Db, "clients">>})
  BY <1>1, <1>2, <1>3, MapNames, PutHeld
<1>5. Held(d2, c, 2, {<<Db, "clients">>}) /\ TypeOK(d2)
  BY <1>4 DEF Touches
<1>. DEFINE e == Dropped(d2, c)
<1>6. Touches(d2, e, c) /\ Held(e, c, 2 - 1, {<<Db, "clients">>})
  BY <1>3, <1>5, DropHeld
<1>. HIDE DEF e
<1>7. Touches(d, e, c) /\ OK(e, {}, c)
  BY <1>4, <1>6, TouchesTwice, OKClient
<1>8. Good(e, {}, {})
  BY <1>1, <1>7, GoodStep
<1>9. Reached(t2, d2)
  <2>1. Starts(t2, Dec(c)) /\ c \in d2.heap /\ d2.ref[c] >= 2 /\ Tail(t2) = <<>>
    BY <1>1, <1>2, <1>5 DEF Only, Held
  <2>2. Point(Tail(t2), Dropped(d2, c))
    BY <2>1, <1>8, IdleReached DEF e
  <2>. QED  BY <2>1, <2>2, <1>3, <1>5, DropReached
<1>10. Safe(t, d)
  <2>1. c \in d.heap /\ d.ref[c] > 0 /\ <<Db, "clients">> \notin Places(d.map, c)
    BY <1>1 DEF Held
  <2>. QED  BY <2>1, <1>1, <1>3, MapNames, SafeAdd
<1>. QED  BY <1>9, <1>10

LEMMA ReconnectStep ==
    ASSUME NEW t, NEW d, NEW t2, NEW d2, Step(t, d, t2, d2), NEW c \in Clients, Reconnect(t, d, c)
    PROVE  Safe(t, d) /\ Reached(t2, d2)
<1>1. /\ Starts(t, NewConn(c)) /\ Tail(t) = <<>> /\ Good(d, {}, {}) /\ c \in d.heap
      /\ d.active[c] = Nil
  BY DEF Reconnect, Only
<1>2. PICK k \in Conns \ d.heap : t2 = Tail(t) /\ d2 = WithConn(d, c, k)
  BY <1>1 DEF Step, DoesConnect, Reconnect
<1>3. Good(d2, {}, {})
  BY <1>1, <1>2, ConnAdded
<1>. QED  BY <1>1, <1>2, <1>3, IdleReached, SafeClient

-----------------------------------------------------------------------------
(* client_disconnect(): the subscriptions.                                  *)

LEMMA SameUnorphaned ==
    ASSUME NEW d, NEW e, NEW k, NEW i, Unorphaned(d, k, i),
           e.map[k]["services"] = d.map[k]["services"], e.svc = d.svc
    PROVE  Unorphaned(e, k, i)
BY DEF Unorphaned

LEMMA Subs1Step ==
    ASSUME NEW t, NEW d, NEW t2, NEW d2, Step(t, d, t2, d2), NEW c \in Clients, NEW k \in Conns,
           NEW i \in Nat \ {0}, Subs1(t, d, c, k, i)
    PROVE  Safe(t, d) /\ Reached(t2, d2)
<1>. DEFINE q == d.map[k]["subs"]
<1>1. /\ Starts(t, Foreach(k, "subs", i, "sub_handle_conn_inactivation", k))
      /\ SweepTail(Tail(t), c, k, 1) /\ SubsLeaving(d, c, k, i)
  BY DEF Subs1, SubsTail
<1>2. Good(d, {<<c, k>>}, ToSet(q))
  BY <1>1 DEF SubsLeaving
<1>3. TypeOK(d) /\ k \in d.heap /\ k \in Hosts /\ q \in Seq(Subs)
  <2>1. TypeOK(d) /\ k \in Hosts
    BY <1>2, GoodType, MapNames
  <2>2. k \in d.heap
    BY <1>2, LooseOne
  <2>3. q \in Seq(Kind("subs"))
    BY <2>1, MapNames, ListOK
  <2>. QED  BY <2>1, <2>2, <2>3, Kinds
<1>4. Safe(t, d)
  BY <1>1, <1>3, SafeList
<1>5. CASE ~(i <= Len(q))
  <2>1. t2 = Tail(t) /\ d2 = d
    BY <1>1, <1>5 DEF Step, DoesForeach, Callbacks
  <2>2. \A j \in DOMAIN q : j < i
    BY <1>3, <1>5
  <2>3. \A b \in ToSet(q) : Held(d, b, 1, {<<k, "subs">>})
    BY <1>1, <2>2 DEF SubsLeaving, ToSet
  <2>4. SubsGoing(d, c, k)
    BY <1>1, <2>3 DEF SubsLeaving, SubsGoing
  <2>5. Subs3(t2, d2, c, k, 1)
    BY <1>1, <1>3, <2>1, <2>4, SweptFirst, MapNames DEF Subs3
  <2>. QED  BY <1>4, <2>5 DEF Reached, Point, ClientPoint
<1>6. CASE i <= Len(q)
  <2>1. /\ d2 = d /\ Starts(t2, Called(d, "sub_handle_conn_inactivation", q[i], k))
        /\ Next2(t, Tail(t2), Foreach(k, "subs", i + 1, "sub_handle_conn_inactivation", k))
    BY <1>1, <1>6 DEF Step, DoesForeach, Callbacks
  <2>2. Starts(t2, Del(Db, "subs", q[i], Db)) /\ SubsTail(Tail(t2), c, k, i + 1)
    BY <1>1, <2>1 DEF Called, Next2, SubsTail
  <2>3. i \in DOMAIN q
    BY <1>3, <1>6
  <2>4. Subs2(t2, d2, c, k, i)
    BY <1>1, <2>1, <2>2, <2>3 DEF Subs2
  <2>. QED  BY <1>4, <2>4 DEF Reached, Point, ClientPoint
<1>. QED  BY <1>5, <1>6

LEMMA Subs2Step ==
    ASSUME NEW t, NEW d, NEW t2, NEW d2, Step(t, d, t2, d2), NEW c \in Clients, NEW k \in Conns,
           NEW i \in Nat \ {0}, Subs2(t, d, c, k, i)
    PROVE  Safe(t, d) /\ Reached(t2, d2)
<1>. DEFINE q == d.map[k]["subs"]
            b == q[i]
            e == Dropped(Taken(d, Db, "subs", b), b)
<1>1. /\ i \in DOMAIN q /\ Starts(t, Del(Db, "subs", b, Db)) /\ SubsTail(Tail(t), c, k, i + 1)
      /\ SubsLeaving(d, c, k, i)
  BY DEF Subs2
<1>2. /\ Good(d, {<<c, k>>}, ToSet(q)) /\ Held(d, b, 2, {<<Db, "subs">>, <<k, "subs">>})
      /\ c \in d.heap /\ k \notin d.connected /\ Unorphaned(d, k, 1)
  <2>1. ~(i < i)
    OBVIOUS
  <2>2. IF i < i THEN Held(d, b, 1, {<<k, "subs">>})
                 ELSE Held(d, b, 2, {<<Db, "subs">>, <<k, "subs">>})
    BY <1>1 DEF SubsLeaving
  <2>. QED  BY <1>1, <2>1, <2>2 DEF SubsLeaving
<1>3. TypeOK(d) /\ k \in Hosts /\ Db \in Hosts /\ Db \in d.heap /\ k # Db
  BY <1>2, GoodType, MapNames, DistinctConstants
<1>4. b \in Kind("subs") /\ b \in Subs /\ b \in Objects /\ b \in ToSet(q)
  BY <1>1, <1>3, ListMember, MapNames, Kinds DEF ToSet
<1>5. q \in Seq(Kind("subs")) /\ Injective(q)
  BY <1>3, ListOK, MapNames
<1>6. \A j \in DOMAIN q : q[j] \in Objects /\ (j # i => q[j] # b)
  BY <1>1, <1>5, Kinds, MapNames DEF Injective
<1>. HIDE DEF b
<1>7. Safe(t, d)
  BY <1>1, <1>2, <1>3, SafeDel, MapNames DEF Held
<1>8. Next2(t, t2, Dec(b)) /\ d2 = Taken(d, Db, "subs", b)
  BY <1>1 DEF Step, DoesDel
<1>9. TypeOK(d2) /\ Held(d2, b, 2, {<<Db, "subs">>, <<k, "subs">>} \ {<<Db, "subs">>})
  <2>. DEFINE P == {<<Db, "subs">>, <<k, "subs">>}
              f == Taken(d, Db, "subs", b)
  <2>1. <<Db, "subs">> \in P /\ Held(d, b, 2, P)
    BY <1>2
  <2>. HIDE DEF P
  <2>2. Touches(d, f, b) /\ Held(f, b, 2, P \ {<<Db, "subs">>})
    BY <2>1, <1>3, <1>4, TakeHeld, MapNames
  <2>. QED  BY <2>2, <1>8 DEF Touches, P
<1>10. Touches(d, e, b) /\ e.svc = d.svc /\ e.heap = d.heap /\ Held(e, b, 1, {<<k, "subs">>})
  <2>1. /\ Touches(d, e, b) /\ e.svc = d.svc /\ e.heap = d.heap
        /\ Held(e, b, 2 - 1, {<<Db, "subs">>, <<k, "subs">>} \ {<<Db, "subs">>})
    BY <1>2, <1>3, <1>4, TakeDropHeld, MapNames
  <2>2. {<<Db, "subs">>, <<k, "subs">>} \ {<<Db, "subs">>} = {<<k, "subs">>}
    BY <1>3
  <2>. QED  BY <2>1, <2>2
<1>11. e.map[k]["subs"] = q /\ e.map[k]["services"] = d.map[k]["services"]
  <2>1. <<Db, "subs">> \in Places(d.map, b)
    BY <1>2 DEF Held
  <2>. QED  BY <2>1, <1>3, TakenLists, MapNames
<1>. HIDE DEF e
<1>12. Good(e, {<<c, k>>}, ToSet(q))
  BY <1>2, <1>4, <1>10, GoodStep
<1>13. \A j \in DOMAIN q :
          IF j < i + 1 THEN Held(e, q[j], 1, {<<k, "subs">>})
                       ELSE Held(e, q[j], 2, {<<Db, "subs">>, <<k, "subs">>})
  <2>. SUFFICES ASSUME NEW j \in DOMAIN q
                PROVE  IF j < i + 1 THEN Held(e, q[j], 1, {<<k, "subs">>})
                                    ELSE Held(e, q[j], 2, {<<Db, "subs">>, <<k, "subs">>})
    OBVIOUS
  <2>1. CASE j = i
    BY <2>1, <1>10 DEF b
  <2>2. CASE j # i
    <3>1. j \in Nat /\ (j < i <=> j < i + 1) /\ q[j] \in Objects \ {b}
      BY <2>2, <1>5, <1>6
    <3>2. IF j < i THEN Held(d, q[j], 1, {<<k, "subs">>})
                   ELSE Held(d, q[j], 2, {<<Db, "subs">>, <<k, "subs">>})
      BY <1>1 DEF SubsLeaving
    <3>. QED  BY <3>1, <3>2, <1>10, SameHeld
  <2>. QED  BY <2>1, <2>2
<1>14. e.connected = d.connected
  BY <1>10 DEF Touches
<1>15. Unorphaned(e, k, 1)
  BY <1>2, <1>10, <1>11, SameUnorphaned
<1>16. SubsLeaving(e, c, k, i + 1)
  BY <1>2, <1>10, <1>11, <1>12, <1>13, <1>14, <1>15 DEF SubsLeaving
<1>17. Subs1(Tail(t2), e, c, k, i + 1)
  BY <1>1, <1>8, <1>16 DEF Subs1, Next2
<1>18. Point(Tail(t2), Dropped(d2, b))
  BY <1>17, <1>8 DEF Point, ClientPoint, e
<1>19. Starts(t2, Dec(b)) /\ b \in d2.heap /\ d2.ref[b] >= 2
  BY <1>8, <1>9 DEF Next2, Held
<1>20. Reached(t2, d2)
  BY <1>4, <1>9, <1>18, <1>19, DropReached
<1>. QED  BY <1>7, <1>20

LEMMA ClearedList ==
    ASSUME NEW d, TypeOK(d), NEW h \in Hosts, NEW m \in Maps
    PROVE  LET e == Cleared(d, h, m)
           IN  /\ e.heap = d.heap /\ e.ref = d.ref /\ e.svc = d.svc
               /\ e.active = d.active /\ e.inactive = d.inactive /\ e.connected = d.connected
               /\ e.map[h][m] = <<>> /\ IsData(e)
               /\ \A h2 \in Hosts, m2 \in Maps : h2 # h \/ m2 # m =>
                     e.map[h2][m2] = d.map[h2][m2]
<1>. DEFINE q == <<>>
            e == WithList(d, h, m, q)
<1>1. q \in Seq(Kind(m)) /\ Injective(q) /\ IsData(d) /\ MapsOK(d.map)
  BY DEF Injective, TypeOK
<1>. HIDE DEF q
<1>2. /\ IsData(e) /\ e.map = SetList(d.map, h, m, q)
      /\ e.heap = d.heap /\ e.ref = d.ref /\ e.active = d.active
      /\ e.inactive = d.inactive /\ e.connected = d.connected /\ e.svc = d.svc
  BY <1>1, WithListFields
<1>. HIDE DEF e
<1>3. /\ e.map[h][m] = q
      /\ \A h2 \in Hosts, m2 \in Maps : h2 # h \/ m2 # m => e.map[h2][m2] = d.map[h2][m2]
  BY <1>1, <1>2, SetListOK
<1>. QED  BY <1>2, <1>3 DEF e, q, Cleared

\* pmap_del_cnted() of an object that has other references, or no other.
LEMMA DelStep ==
    ASSUME NEW t, NEW d, NEW t2, NEW d2, Step(t, d, t2, d2), TypeOK(d),
           NEW h \in Hosts, NEW m \in Maps, NEW o \in Kind(m), NEW c,
           Starts(t, Del(h, m, o, c)), h \in d.heap, c \in d.heap,
           NEW r, NEW P, Held(d, o, r, P), <<h, m>> \in P, r >= 2,
           Point(Tail(t), Dropped(Taken(d, h, m, o), o))
    PROVE  Safe(t, d) /\ Reached(t2, d2)
<1>1. o \in Objects /\ o \in d.heap /\ d.ref[o] = r /\ <<h, m>> \in Places(d.map, o)
  BY Kinds DEF Held
<1>2. Safe(t, d)
  BY <1>1, SafeDel
<1>. DEFINE f == Taken(d, h, m, o)
<1>3. Next2(t, t2, Dec(o)) /\ d2 = f
  BY DEF Step, DoesDel
<1>4. Touches(d, f, o) /\ Held(f, o, r, P \ {<<h, m>>})
  BY TakeHeld
<1>. HIDE DEF f
<1>5. TypeOK(d2) /\ o \in d2.heap /\ d2.ref[o] >= 2
  BY <1>3, <1>4 DEF Touches, Held
<1>6. Starts(t2, Dec(o)) /\ Point(Tail(t2), Dropped(d2, o))
  BY <1>3 DEF Next2, f
<1>. QED  BY <1>1, <1>2, <1>5, <1>6, DropReached

LEMMA DelLastStep ==
    ASSUME NEW t, NEW d, NEW t2, NEW d2, Step(t, d, t2, d2), TypeOK(d),
           NEW h \in Hosts, NEW m \in Maps, NEW o \in Kind(m), NEW c, o \in Services \cup Subs,
           Starts(t, Del(h, m, o, c)), h \in d.heap, c \in d.heap,
           NEW P, Held(d, o, 1, P), <<h, m>> \in P,
           Point(Tail(t), Freed(Taken(d, h, m, o), o))
    PROVE  Safe(t, d) /\ Reached(t2, d2)
<1>1. o \in Objects /\ o \in d.heap /\ <<h, m>> \in Places(d.map, o)
  BY Kinds DEF Held
<1>2. Safe(t, d)
  BY <1>1, SafeDel
<1>. DEFINE f == Taken(d, h, m, o)
<1>3. Next2(t, t2, Dec(o)) /\ d2 = f
  BY DEF Step, DoesDel
<1>4. Touches(d, f, o) /\ Held(f, o, 1, P \ {<<h, m>>})
  BY TakeHeld
<1>. HIDE DEF f
<1>5. TypeOK(d2) /\ o \in d2.heap /\ d2.ref[o] = 1
  BY <1>3, <1>4 DEF Touches, Held
<1>6. Starts(t2, Dec(o)) /\ Point(Tail(t2), Freed(d2, o))
  BY <1>3 DEF Next2, f
<1>. QED  BY <1>1, <1>2, <1>5, <1>6, FreeReached

LEMMA Subs3Step ==
    ASSUME NEW t, NEW d, NEW t2, NEW d2, Step(t, d, t2, d2), NEW c \in Clients, NEW k \in Conns,
           NEW i \in Nat \ {0}, Subs3(t, d, c, k, i)
    PROVE  Safe(t, d) /\ Reached(t2, d2)
<1>. DEFINE q == d.map[k]["subs"]
            v == Swept(d, k, "subs", i)
<1>1. /\ Starts(t, Foreach(k, "subs", i, "dec_ref", k)) /\ ClearTail(Tail(t), c, k)
      /\ TypeOK(d) /\ SubsGoing(v, c, k)
  BY DEF Subs3, SweepTail
<1>2. k \in Hosts /\ "subs" \in Maps /\ "services" \in Maps
  BY MapNames
<1>3. /\ v.heap = d.heap /\ v.ref = d.ref /\ v.svc = d.svc /\ TypeOK(v)
      /\ v.connected = d.connected
  BY <1>1, <1>2, SweptList
<1>. HIDE DEF v
<1>4. k \in d.heap
  <2>1. Good(v, {<<c, k>>}, ToSet(v.map[k]["subs"]))
    BY <1>1 DEF SubsGoing
  <2>. QED  BY <2>1, <1>3, LooseOne
<1>5. Safe(t, d)
  BY <1>1, <1>4, SafeList
<1>6. CASE ~(i <= Len(q))
  <2>1. t2 = Tail(t) /\ d2 = d
    BY <1>1, <1>6 DEF Step, DoesForeach, Callbacks
  <2>2. Subs4(t2, d2, c, k)
    BY <1>1, <1>2, <1>6, <2>1, SweptLast DEF Subs4, v
  <2>. QED  BY <1>5, <2>2 DEF Reached, Point, ClientPoint
<1>7. CASE i <= Len(q)
  <2>. DEFINE x == q[i]
              e == Freed(d, x)
              w == Swept(e, k, "subs", i + 1)
  <2>1. /\ d2 = d /\ Starts(t2, Called(d, "dec_ref", x, k))
        /\ Next2(t, Tail(t2), Foreach(k, "subs", i + 1, "dec_ref", k))
    BY <1>1, <1>7 DEF Step, DoesForeach, Callbacks
  <2>2. Starts(t2, Dec(x)) /\ SweepTail(Tail(t2), c, k, i + 1)
    BY <1>1, <2>1 DEF Called, Next2, SweepTail
  <2>3. /\ x \in Subs /\ x \in Objects /\ x \notin Clients
        /\ <<k, "subs">> \in Places(v.map, x)
    BY <1>1, <1>2, <1>7, SweepStep, Kinds, DistinctConstants DEF v
  <2>4. Held(v, x, 1, {<<k, "subs">>})
    <3>1. x \in ToSet(v.map[k]["subs"])
      BY <1>2, <1>3, <2>3, MemberOf
    <3>. QED  BY <3>1, <1>1 DEF SubsGoing
  <2>5. Touches(v, w, x) /\ Gone(w, x) /\ w.svc = v.svc
    BY <1>1, <1>2, <1>7, <2>4, SweepFree DEF v, Held
  <2>6. TypeOK(e) /\ w.map[k]["services"] = v.map[k]["services"]
    <3>1. TypeOK(e) /\ e.map = d.map
      BY <1>1, <2>3, FreedOK DEF Touches
    <3>2. w.map[k]["services"] = e.map[k]["services"]
      BY <1>2, <3>1, SweptList
    <3>3. v.map[k]["services"] = d.map[k]["services"]
      BY <1>1, <1>2, SweptList DEF v
    <3>. QED  BY <3>1, <3>2, <3>3
  <2>. HIDE DEF x, e, w
  <2>7. TypeOK(w) /\ w.connected = v.connected /\ c \in w.heap
    <3>1. c \in v.heap /\ c \in Objects /\ c # x
      BY <1>1, <2>3 DEF SubsGoing, Objects
    <3>. QED  BY <3>1, <2>5 DEF Touches, Same
  <2>8. \A b \in Objects :
           b \in ToSet(w.map[k]["subs"]) <=> b \in ToSet(v.map[k]["subs"]) /\ b # x
    <3>. SUFFICES ASSUME NEW b \in Objects
                  PROVE  b \in ToSet(w.map[k]["subs"]) <=> b \in ToSet(v.map[k]["subs"]) /\ b # x
      OBVIOUS
    <3>1. /\ b \in ToSet(w.map[k]["subs"]) <=> <<k, "subs">> \in Places(w.map, b)
          /\ b \in ToSet(v.map[k]["subs"]) <=> <<k, "subs">> \in Places(v.map, b)
      BY <1>2, <1>3, <2>7, MemberOf
    <3>2. b = x => Places(w.map, b) = {}
      BY <2>5 DEF Gone
    <3>3. b # x => Places(w.map, b) = Places(v.map, b)
      BY <2>5 DEF Touches, Same
    <3>. QED  BY <3>1, <3>2, <3>3
  <2>9. ToSet(v.map[k]["subs"]) \subseteq Objects /\ ToSet(w.map[k]["subs"]) \subseteq Objects
    BY <1>2, <1>3, <2>7, MemberOf, Kinds
  <2>10. Good(w, {<<c, k>>}, ToSet(w.map[k]["subs"]))
    <3>. DEFINE X == ToSet(v.map[k]["subs"])
                Y == ToSet(w.map[k]["subs"])
    <3>1. Good(v, {<<c, k>>}, X)
      BY <1>1 DEF SubsGoing
    <3>2. X \subseteq Y \cup {x}
      BY <2>8, <2>9
    <3>3. OK(w, {<<c, k>>}, x)
      BY <2>3, <2>5, OKGone
    <3>. HIDE DEF X, Y
    <3>4. Good(w, {<<c, k>>}, Y)
      BY <3>1, <3>2, <3>3, <2>5, GoodStep
    <3>. QED  BY <3>4 DEF Y
  <2>11. \A b \in ToSet(w.map[k]["subs"]) : Held(w, b, 1, {<<k, "subs">>})
    BY <1>1, <2>5, <2>8, <2>9, SameHeld DEF SubsGoing
  <2>12. Unorphaned(w, k, 1)
    BY <1>1, <2>5, <2>6, SameUnorphaned DEF SubsGoing
  <2>13. Subs3(Tail(t2), e, c, k, i + 1)
    BY <1>1, <2>2, <2>6, <2>7, <2>10, <2>11, <2>12 DEF Subs3, SubsGoing, w
  <2>14. Point(Tail(t2), Freed(d2, x))
    BY <2>1, <2>13 DEF Point, ClientPoint, e
  <2>15. x \in d2.heap /\ d2.ref[x] = 1
    BY <2>1, <2>4, <1>3 DEF Held
  <2>. QED  BY <1>1, <1>5, <2>1, <2>2, <2>3, <2>14, <2>15, FreeReached
<1>. QED  BY <1>6, <1>7

LEMMA Subs4Step ==
    ASSUME NEW t, NEW d, NEW t2, NEW d2, Step(t, d, t2, d2), NEW c \in Clients, NEW k \in Conns,
           Subs4(t, d, c, k)
    PROVE  Safe(t, d) /\ Reached(t2, d2)
<1>1. /\ Starts(t, Clear(k, "subs")) /\ ServicesTail(Tail(t), c, k, 1) /\ TypeOK(d)
      /\ SubsGoing(Cleared(d, k, "subs"), c, k)
  BY DEF Subs4, ClearTail
<1>2. t2 = Tail(t) /\ d2 = Cleared(d, k, "subs")
  BY <1>1 DEF Step, DoesClear
<1>4. d2.heap = d.heap /\ d2.map[k]["subs"] = <<>>
  BY <1>1, <1>2, ClearedList, MapNames
<1>5. Good(d2, {<<c, k>>}, {})
  <2>1. Good(d2, {<<c, k>>}, ToSet(d2.map[k]["subs"]))
    BY <1>1, <1>2 DEF SubsGoing
  <2>2. ToSet(d2.map[k]["subs"]) = {}
    BY <1>4 DEF ToSet
  <2>. QED  BY <2>1, <2>2
<1>6. Orphan1(t2, d2, c, k, 1)
  BY <1>1, <1>2, <1>5 DEF Orphan1, ServicesLeaving, SubsGoing
<1>7. Safe(t, d)
  BY <1>1, <1>4, <1>5, LooseOne, SafeList
<1>. QED  BY <1>6, <1>7 DEF Reached, Point, ClientPoint

-----------------------------------------------------------------------------
(* client_disconnect(): the services.                                       *)

LEMMA Orphan1Step ==
    ASSUME NEW t, NEW d, NEW t2, NEW d2, Step(t, d, t2, d2), NEW c \in Clients, NEW k \in Conns,
           NEW i \in Nat \ {0}, Orphan1(t, d, c, k, i)
    PROVE  Safe(t, d) /\ Reached(t2, d2)
<1>. DEFINE q == d.map[k]["services"]
<1>1. /\ Starts(t, Foreach(k, "services", i, "service_handle_conn_inactivation", k))
      /\ KeepTail(Tail(t), c, k) /\ ServicesLeaving(d, c, k, i, {})
  BY DEF Orphan1, ServicesTail
<1>2. Good(d, {<<c, k>>}, {}) /\ c \in d.heap /\ k \notin d.connected
  BY <1>1 DEF ServicesLeaving
<1>3. TypeOK(d) /\ k \in Hosts
  BY <1>2, GoodType, MapNames
<1>4. k \in d.heap /\ k \in Owned(d, {<<c, k>>}, c)
  BY <1>2, LooseOne
<1>5. Safe(t, d)
  BY <1>1, <1>4, SafeList
<1>6. CASE ~(i <= Len(q))
  <2>1. t2 = Tail(t) /\ d2 = d
    BY <1>1, <1>6 DEF Step, DoesForeach, Callbacks
  <2>2. Keep(t2, d2, c, k)
    BY <1>1, <1>2, <2>1 DEF Keep
  <2>. QED  BY <1>5, <2>2 DEF Reached, Point, ClientPoint
<1>7. CASE i <= Len(q)
  <2>. DEFINE s == q[i]
  <2>1. /\ d2 = d /\ Starts(t2, Called(d, "service_handle_conn_inactivation", s, k))
        /\ Next2(t, Tail(t2), Foreach(k, "services", i + 1, "service_handle_conn_inactivation", k))
    BY <1>1, <1>7 DEF Step, DoesForeach, Callbacks
  <2>2. q \in Seq(Kind("services"))
    BY <1>3, ListOK, MapNames
  <2>3. i \in DOMAIN q
    BY <1>7, <2>2
  <2>4. s \in Services /\ <<k, "services">> \in Places(d.map, s)
    BY <1>3, <2>3, ListMember, MapNames, Kinds
  <2>. HIDE DEF s
  <2>5. d.svc[s].client_id = c
    <3>. DEFINE L == {<<c, k>>}
    <3>1. Good(d, L, {}) /\ k \in Owned(d, L, c)
      BY <1>2, <1>4
    <3>. HIDE DEF L
    <3>2. ServiceIn(d, L, s, k)
      BY <3>1, <2>4, ServiceOfConn
    <3>3. d.svc[s].client_id \in Clients /\ k \in Owned(d, L, d.svc[s].client_id)
      BY <3>2 DEF ServiceIn
    <3>. QED  BY <3>1, <3>3, SameOwner
  <2>6. Starts(t2, Commit(s, c, TRUE, "modified")) /\ ServicesTail(Tail(t2), c, k, i + 1)
    BY <1>1, <2>1, <2>5 DEF Called, Next2, ServicesTail
  <2>7. Orphan2(t2, d2, c, k, i)
    BY <1>1, <2>1, <2>3, <2>6 DEF Orphan2, s
  <2>. QED  BY <1>5, <2>7 DEF Reached, Point, ClientPoint
<1>. QED  BY <1>6, <1>7

LEMMA ToldReached ==
    ASSUME NEW t, NEW d, NEW s \in Services,
           Starts(t, Foreach(Db, "subs", 1, "notify_sub_service_changed", s)), Told(Tail(t), d, s)
    PROVE  Reached(t, d)
<1>1. ToldFrom(t, d, s, 1)
  BY DEF ToldFrom
<1>. QED  BY <1>1 DEF Reached, Telling

LEMMA Orphan2Step ==
    ASSUME NEW t, NEW d, NEW t2, NEW d2, Step(t, d, t2, d2), NEW c \in Clients, NEW k \in Conns,
           NEW i \in Nat \ {0}, Orphan2(t, d, c, k, i)
    PROVE  Safe(t, d) /\ Reached(t2, d2)
<1>. DEFINE q == d.map[k]["services"]
            s == q[i]
            L == {<<c, k>>}
            v == [client_id |-> c, orphan |-> TRUE, was_orphan |-> FALSE]
<1>1. /\ i \in DOMAIN q /\ Starts(t, Commit(s, c, TRUE, "modified"))
      /\ ServicesTail(Tail(t), c, k, i + 1) /\ ServicesLeaving(d, c, k, i, {})
  BY DEF Orphan2
<1>2. Good(d, L, {}) /\ c \in d.heap /\ k \notin d.connected /\ Unorphaned(d, k, i)
  BY <1>1 DEF ServicesLeaving
<1>. HIDE DEF L
<1>3. TypeOK(d) /\ k \in Hosts
  BY <1>2, GoodType, MapNames
<1>4. s \in Services /\ <<k, "services">> \in Places(d.map, s)
  BY <1>1, <1>3, ListMember, MapNames, Kinds
<1>5. q \in Seq(Kind("services")) /\ Injective(q)
  BY <1>3, ListOK, MapNames
<1>6. ~d.svc[s].orphan
  BY <1>1, <1>2 DEF Unorphaned
<1>7. \A j \in DOMAIN q : j >= i + 1 => q[j] # s /\ q[j] \in Services /\ ~d.svc[q[j]].orphan
  <2>1. \A j \in DOMAIN q : j >= i + 1 => j >= i /\ j # i
    BY <1>5
  <2>2. \A j \in DOMAIN q : q[j] \in Services
    BY <1>5, Kinds
  <2>. QED  BY <1>1, <1>2, <1>5, <2>1, <2>2 DEF Unorphaned, Injective
<1>. HIDE DEF s
<1>8. ServiceIn(d, L, s, k)
  BY <1>2, <1>4, ServiceOfConn
<1>9. Held(d, s, 2, Published(k))
  <2>1. HeldService(d, s, 2, Published(k), d.svc[s].orphan)
    BY <1>8 DEF ServiceIn
  <2>. QED  BY <1>6, <2>1 DEF HeldService, TimerPlace, TimerRef
<1>10. /\ d2 = Committed(d, s, [client_id |-> c, orphan |-> TRUE,
                                was_orphan |-> "modified" # "added" /\ d.svc[s].orphan])
       /\ Starts(t2, Foreach(Db, "subs", 1, "notify_sub_service_changed", s))
       /\ Next2(t, Tail(t2), Maintain(s, "modified"))
  BY <1>1 DEF Step, DoesCommit
<1>11. ("modified" # "added" /\ d.svc[s].orphan) = FALSE
  BY <1>6
<1>12. d2 = Committed(d, s, v) /\ v \in SvcType
  BY <1>10, <1>11 DEF SvcType
<1>. HIDE DEF v
<1>13. /\ Touches(d, d2, s) /\ d2.svc[s] = v /\ d2.heap = d.heap /\ d2.map = d.map
       /\ Held(d2, s, 2, Published(k))
  BY <1>3, <1>4, <1>9, <1>12, CommitHeld
<1>14. Good(d2, L, {s})
  BY <1>2, <1>13, GoodStep
<1>15. Unorphaned(d2, k, i + 1)
  <2>1. \A x \in Services \ {s} : d2.svc[x] = d.svc[x]
    BY <1>13 DEF Touches, Same, Objects
  <2>. QED  BY <1>7, <1>13, <2>1 DEF Unorphaned
<1>16. d2.connected = d.connected
  BY <1>13 DEF Touches
<1>17. ServicesLeaving(d2, c, k, i + 1, {s})
  BY <1>2, <1>13, <1>14, <1>15, <1>16 DEF ServicesLeaving, L
<1>18. Orphan3(Tail(t2), d2, c, k, i, s)
  BY <1>1, <1>10, <1>13, <1>17 DEF Orphan3, Next2, s, v
<1>19. Reached(t2, d2)
  BY <1>4, <1>10, <1>18, ToldReached DEF Told
<1>20. Safe(t, d)
  BY <1>1, <1>9, SafeService DEF Held
<1>. QED  BY <1>19, <1>20

LEMMA Orphan3Step ==
    ASSUME NEW t, NEW d, NEW t2, NEW d2, Step(t, d, t2, d2), NEW c \in Clients, NEW k \in Conns,
           NEW i \in Nat, NEW s, Orphan3(t, d, c, k, i, s)
    PROVE  Safe(t, d) /\ Reached(t2, d2)
<1>. DEFINE L == {<<c, k>>}
            P == Published(k)
<1>1. /\ i \in DOMAIN d.map[k]["services"] /\ s = d.map[k]["services"][i]
      /\ Starts(t, Maintain(s, "modified")) /\ ServicesTail(Tail(t), c, k, i + 1)
      /\ Held(d, s, 2, P)
      /\ d.svc[s] = [client_id |-> c, orphan |-> TRUE, was_orphan |-> FALSE]
  BY DEF Orphan3
<1>2. /\ Good(d, L, {s}) /\ c \in d.heap /\ k \notin d.connected /\ Unorphaned(d, k, i + 1)
      /\ k \in Owned(d, L, c)
  BY LooseOne DEF Orphan3, ServicesLeaving
<1>3. TypeOK(d) /\ k \in Hosts /\ k # Db /\ Db \in Hosts
  BY <1>2, GoodType, MapNames, DistinctConstants
<1>4. s \in Services /\ s \in Kind("timers")
  BY <1>1, <1>3, ListMember, MapNames, Kinds
<1>5. <<Db, "timers">> \notin P
  BY <1>3 DEF Published
<1>6. Safe(t, d)
  <2>1. s \in d.heap /\ (<<Db, "timers">> \in Places(d.map, s) <=> d.svc[s].was_orphan)
    BY <1>1, <1>5 DEF Held
  <2>. QED  BY <1>1, <2>1, SafeMaintain
<1>. DEFINE e == Put(d, Db, "timers", s)
<1>7. t2 = Tail(t) /\ d2 = e
  <2>1. d.svc[s].orphan /\ ~d.svc[s].was_orphan /\ "modified" # "removed"
    BY <1>1
  <2>. QED  BY <1>1, <1>3, <1>4, <2>1 DEF Step, DoesMaintain
<1>. HIDE DEF L, P
<1>8. /\ Touches(d, e, s) /\ e.svc = d.svc /\ e.heap = d.heap
      /\ Held(e, s, 2 + 1, P \cup {<<Db, "timers">>})
  BY <1>1, <1>3, <1>4, <1>5, PutHeld, MapNames
<1>9. e.map[k]["services"] = d.map[k]["services"]
  <2>1. <<Db, "timers">> \notin Places(d.map, s)
    BY <1>1, <1>5 DEF Held
  <2>. QED  BY <2>1, <1>3, <1>4, PutLists, MapNames
<1>. HIDE DEF e
<1>10. HeldService(e, s, 2, P, TRUE)
  BY <1>8 DEF HeldService, TimerPlace, TimerRef
<1>11. e.connected = d.connected /\ Owned(e, L, c) = Owned(d, L, c)
  BY <1>8, TouchesOwned DEF Touches
<1>12. ServiceIn(e, L, s, k)
  <2>1. e.svc[s].orphan = TRUE /\ e.svc[s].client_id = c
    BY <1>1, <1>8
  <2>2. HeldService(e, s, 2, Published(k), e.svc[s].orphan)
    BY <1>10, <2>1 DEF P
  <2>3. e.svc[s].client_id \in Clients /\ k \in Owned(e, L, e.svc[s].client_id)
    BY <1>2, <1>11, <2>1
  <2>. QED  BY <1>2, <1>11, <2>2, <2>3 DEF ServiceIn
<1>13. OK(e, L, s)
  BY <1>4, <1>12, OKService
<1>14. Good(e, L, {})
  BY <1>2, <1>8, <1>13, GoodStep
<1>15. Unorphaned(e, k, i + 1)
  BY <1>2, <1>8, <1>9, SameUnorphaned
<1>16. Orphan1(t2, d2, c, k, i + 1)
  BY <1>1, <1>2, <1>7, <1>8, <1>11, <1>14, <1>15 DEF Orphan1, ServicesLeaving, L
<1>17. i + 1 \in Nat \ {0}
  OBVIOUS
<1>. QED  BY <1>6, <1>16, <1>17 DEF Reached, Point, ClientPoint

LEMMA KeepStep ==
    ASSUME NEW t, NEW d, NEW t2, NEW d2, Step(t, d, t2, d2), NEW c \in Clients, NEW k \in Conns,
           Keep(t, d, c, k)
    PROVE  Safe(t, d) /\ Reached(t2, d2)
<1>1. /\ Starts(t, KeepConn(c, k)) /\ Only(Tail(t), DropClient(c))
      /\ c \in d.heap /\ k \notin d.connected /\ Good(d, {<<c, k>>}, {})
  BY DEF Keep, KeepTail
<1>2. TypeOK(d) /\ k \in d.heap
  BY <1>1, GoodType, LooseOne
<1>3. Safe(t, d)
  BY <1>1, <1>2, SafeClient
<1>4. CASE Idles(d, k)
  <2>1. d2 = d /\ ConnProgram(t2, k, Tail(t))
    BY <1>1, <1>2, <1>4 DEF Step, DoesKeep
  <2>2. d.map[k]["subs"] = <<>>
    <3>1. \A b \in Subs \cap {} : <<k, "subs">> \notin Places(d.map, b)
      OBVIOUS
    <3>. QED  BY <1>1, <3>1, NoSubs
  <2>3. LooseConn(Tail(t), d, c, k)
    BY <1>1, <1>4, <2>2 DEF LooseConn, Leave1
  <2>4. Conn1(t2, d2, c, k)
    BY <2>1, <2>3 DEF ConnProgram, Conn1, Conn2, Conn3, Conn4, Conn5
  <2>. QED  BY <1>3, <2>4 DEF Reached, Point, ClientPoint
<1>5. CASE ~Idles(d, k)
  <2>1. t2 = Tail(t) /\ d2 = WithInactive(d, c, Append(d.inactive[c], k))
    BY <1>1, <1>2, <1>5 DEF Step, DoesKeep
  <2>2. Good(d2, {}, {})
    BY <1>1, <2>1, ConnKept
  <2>3. d2.heap = d.heap
    BY <2>1 DEF WithInactive
  <2>4. Leave1(t2, d2, {}, c)
    BY <1>1, <2>1, <2>2, <2>3 DEF Leave1
  <2>. QED  BY <1>3, <2>4 DEF Reached, Point, ClientPoint
<1>. QED  BY <1>4, <1>5

-----------------------------------------------------------------------------
(* A client without connections leaves the database and is destroyed.       *)

LEMMA Leave1Step ==
    ASSUME NEW t, NEW d, NEW t2, NEW d2, Step(t, d, t2, d2), NEW c \in Clients,
           Leave1(t, d, {}, c)
    PROVE  Safe(t, d) /\ Reached(t2, d2)
<1>1. Starts(t, DropClient(c)) /\ Tail(t) = <<>> /\ Good(d, {}, {}) /\ c \in d.heap
  BY DEF Leave1, Only
<1>2. TypeOK(d)
  BY <1>1, GoodType
<1>3. /\ d2 = d
      /\ Stale(d, c) => Next2(t, t2, Del(Db, "clients", c, c))
      /\ ~Stale(d, c) => t2 = Tail(t)
  BY <1>1, <1>2 DEF Step, DoesLeave
<1>4. Safe(t, d)
  BY <1>1, SafeClient
<1>5. CASE Stale(d, c)
  <2>1. Leave2(t2, d2, c)
    BY <1>1, <1>3, <1>5 DEF Leave2, Only, Next2
  <2>. QED  BY <1>4, <2>1 DEF Reached, Point, ClientPoint
<1>6. CASE ~Stale(d, c)
  BY <1>1, <1>3, <1>4, <1>6, IdleReached
<1>. QED  BY <1>5, <1>6

LEMMA Leave2Step ==
    ASSUME NEW t, NEW d, NEW t2, NEW d2, Step(t, d, t2, d2), NEW c \in Clients, Leave2(t, d, c)
    PROVE  Safe(t, d) /\ Reached(t2, d2)
<1>1. /\ Starts(t, Del(Db, "clients", c, c)) /\ Tail(t) = <<>> /\ Good(d, {}, {}) /\ c \in d.heap
      /\ Stale(d, c)
  BY DEF Leave2, Only
<1>2. TypeOK(d) /\ Db \in d.heap /\ Db \in Hosts /\ "clients" \in Maps /\ c \in Kind("clients")
  BY <1>1, GoodType, MapNames, Kinds
<1>. DEFINE P == {<<Db, "clients">>}
            e == Taken(d, Db, "clients", c)
<1>3. Held(d, c, 1, P) /\ <<Db, "clients">> \in P /\ <<Db, "clients">> \in Places(d.map, c)
  BY <1>1, OwnerKnown DEF Held
<1>4. Safe(t, d)
  BY <1>1, <1>2, <1>3, SafeDel
<1>5. Next2(t, t2, Dec(c)) /\ d2 = e
  BY <1>1 DEF Step, DoesDel
<1>6. Touches(d, e, c) /\ Held(e, c, 1, {})
  <2>1. P \ {<<Db, "clients">>} = {}
    OBVIOUS
  <2>. HIDE DEF P
  <2>2. Touches(d, e, c) /\ Held(e, c, 1, P \ {<<Db, "clients">>})
    BY <1>2, <1>3, TakeHeld
  <2>. QED  BY <2>1, <2>2
<1>7. \A k \in Conns : e.map[k]["services"] = d.map[k]["services"]
  BY <1>2, <1>3, TakenLists, MapNames
<1>. HIDE DEF e
<1>8. Good(e, {}, {c})
  BY <1>1, <1>6, GoodStep
<1>9. Stale(e, c)
  <2>1. Own(e, c) = Own(d, c) /\ e.connected = d.connected
    BY <1>6, TouchesOwned DEF Touches
  <2>. QED  BY <1>1, <1>2, <1>7, <2>1, SameStale
<1>10. Leave3(t2, d2, c)
  BY <1>1, <1>5, <1>6, <1>8, <1>9 DEF Leave3, Parting, Only, Next2
<1>. QED  BY <1>4, <1>10 DEF Reached, Point, ClientPoint

\* The last connection has been marked as disconnected.
LEMMA StaleInactive ==
    ASSUME NEW d, NEW L, NEW X, Good(d, L, X), NEW c \in Clients, Stale(d, c)
    PROVE  d.active[c] = Nil
<1>1. d.active[c] # Nil => d.active[c] \in Own(d, c) /\ d.active[c] \in d.connected
  BY ActiveOwn
<1>. QED  BY <1>1 DEF Stale, Idles

LEMMA Leave3Step ==
    ASSUME NEW t, NEW d, NEW t2, NEW d2, Step(t, d, t2, d2), NEW c \in Clients, Leave3(t, d, c)
    PROVE  Safe(t, d) /\ Reached(t2, d2)
<1>1. Starts(t, Dec(c)) /\ Tail(t) = <<>> /\ Good(d, {}, {c}) /\ Parting(d, c)
  BY DEF Leave3, Only
<1>2. TypeOK(d) /\ c \in Objects
  BY <1>1, GoodType DEF Objects
<1>3. Safe(t, d)
  <2>1. c \in d.heap /\ d.ref[c] > 0
    BY <1>1 DEF Parting, Held
  <2>. QED  BY <1>1, <2>1, SafeCount
<1>4. d2 = Dropped(d, c)
  BY <1>1 DEF Step, DoesDec
<1>5. CASE Held(d, c, 2, {<<Db, "clients">>})
  <2>1. Touches(d, d2, c) /\ Held(d2, c, 2 - 1, {<<Db, "clients">>})
    BY <1>2, <1>4, <1>5, DropHeld
  <2>2. OK(d2, {}, c)
    BY <2>1, OKClient
  <2>3. Good(d2, {}, {})
    BY <1>1, <2>1, <2>2, GoodStep
  <2>4. d.ref[c] # 1
    BY <1>5 DEF Held
  <2>5. t2 = <<>>
    BY <1>1, <2>4 DEF Step, DoesDec
  <2>. QED  BY <1>3, <2>3, <2>5, IdleReached
<1>6. CASE Held(d, c, 1, {}) /\ Stale(d, c)
  <2>1. Touches(d, d2, c) /\ Held(d2, c, 1 - 1, {}) /\ d2.map = d.map
    BY <1>2, <1>4, <1>6, DropHeld
  <2>2. Good(d2, {}, {c})
    BY <1>1, <2>1, GoodStep
  <2>3. TypeOK(d2) /\ Own(d2, c) = Own(d, c) /\ d2.connected = d.connected
    BY <2>1, TouchesOwned DEF Touches
  <2>4. Stale(d2, c)
    BY <1>2, <1>6, <2>1, <2>3, SameStale
  <2>5. Good(Disowned(d2, c), {c} \X Own(d2, c), {c})
    BY <2>2, <2>4, StaleInactive, ClientDisowned
  <2>6. ConnsFrom(d2, c, 1) \cup {} = Own(d2, c)
    BY <2>3, ConnsLeft
  <2>7. Dying(d2, c, ConnsFrom(d2, c, 1) \cup {})
    BY <2>1, <2>3, <2>4, <2>5, <2>6 DEF Dying, Stale
  <2>8. d.ref[c] = 1
    BY <1>6 DEF Held
  <2>9. Starts(t2, DestroyConns(c, 1)) /\ Only(Tail(t2), Free(c))
    BY <1>1, <2>8 DEF Step, DoesDec, Next2, Only
  <2>10. Destroy1(t2, d2, c, 1, {})
    BY <2>7, <2>9 DEF Destroy1
  <2>. QED  BY <1>3, <2>10 DEF Reached, Point, ClientPoint
<1>. QED  BY <1>1, <1>5, <1>6 DEF Parting

LEMMA Destroy1Step ==
    ASSUME NEW t, NEW d, NEW t2, NEW d2, Step(t, d, t2, d2), NEW c \in Clients,
           NEW i \in Nat \ {0}, Destroy1(t, d, c, i, {})
    PROVE  Safe(t, d) /\ Reached(t2, d2)
<1>. DEFINE q == ConnsOf(d, c)
            K == ConnsFrom(d, c, i)
            N == ConnsFrom(d, c, i + 1)
<1>1. Starts(t, DestroyConns(c, i)) /\ Only(Tail(t), Free(c)) /\ Dying(d, c, K)
  <2>1. K \cup {} = K
    OBVIOUS
  <2>. QED  BY <2>1 DEF Destroy1
<1>2. TypeOK(d) /\ Held(d, c, 0, {}) /\ Good(Disowned(d, c), {c} \X K, {c})
  BY <1>1 DEF Dying
<1>3. Safe(t, d)
  BY <1>1, <1>2, SafeClient DEF Held
<1>4. CASE ~(i <= Len(q))
  <2>1. d2 = d /\ t2 = Tail(t)
    BY <1>1, <1>4 DEF Step, DoesDestroy
  <2>2. K = {}
    BY <1>2, <1>4, ConnsLeft
  <2>3. Destroy2(t2, d2, c)
    BY <1>1, <2>1, <2>2 DEF Destroy2
  <2>. QED  BY <1>3, <2>3 DEF Reached, Point, ClientPoint
<1>5. CASE i <= Len(q)
  <2>. DEFINE k == q[i]
  <2>1. PICK r : d2 = d /\ ConnProgram(t2, k, r) /\ Next2(t, r, DestroyConns(c, i + 1))
    BY <1>1, <1>5 DEF Step, DoesDestroy
  <2>2. K = N \cup {k} /\ k \notin N /\ k \in Conns
    BY <1>2, <1>5, ConnsLeft
  <2>. HIDE DEF k, N, K
  <2>3. Idles(d, k)
    BY <1>1, <2>2 DEF Dying
  <2>4. d.map[k]["subs"] = <<>>
    <3>. DEFINE e == Disowned(d, c)
    <3>1. e.map = d.map /\ e.connected = d.connected
      BY <1>2, DisownedType
    <3>2. k \notin e.connected
      BY <3>1, <2>3 DEF Idles
    <3>3. \A b \in Subs \cap {c} : <<k, "subs">> \notin Places(e.map, b)
      BY DistinctConstants
    <3>. HIDE DEF e
    <3>4. Good(e, {c} \X K, {c})
      BY <1>2 DEF e
    <3>5. e.map[k]["subs"] = <<>>
      BY <2>2, <3>2, <3>3, <3>4, NoSubs
    <3>. QED  BY <3>1, <3>5
  <2>5. Destroy1(r, d, c, i + 1, {k})
    BY <1>1, <2>1, <2>2 DEF Destroy1, Next2, N
  <2>6. i + 1 \in Nat \ {0}
    OBVIOUS
  <2>7. LooseConn(r, d, c, k)
    BY <2>3, <2>4, <2>5, <2>6 DEF LooseConn
  <2>8. Conn1(t2, d2, c, k)
    BY <2>1, <2>7 DEF ConnProgram, Conn1, Conn2, Conn3, Conn4, Conn5
  <2>. QED  BY <1>3, <2>2, <2>8 DEF Reached, Point, ClientPoint
<1>. QED  BY <1>4, <1>5

LEMMA Destroy2Step ==
    ASSUME NEW t, NEW d, NEW t2, NEW d2, Step(t, d, t2, d2), NEW c \in Clients,
           Destroy2(t, d, c)
    PROVE  Safe(t, d) /\ Reached(t2, d2)
<1>. DEFINE e == Disowned(d, c)
<1>1. Starts(t, Free(c)) /\ Tail(t) = <<>> /\ TypeOK(d) /\ Held(d, c, 0, {}) /\ Good(e, {}, {c})
  <2>1. {c} \X {} = {}
    OBVIOUS
  <2>. QED  BY <2>1 DEF Destroy2, Dying, Only
<1>2. Safe(t, d)
  BY <1>1, SafeFree DEF Held
<1>3. t2 = <<>> /\ d2 = Unheaped(e, c)
  BY <1>1 DEF Step, DoesFree
<1>4. TypeOK(e) /\ e.ref = d.ref /\ e.map = d.map /\ Own(e, c) = {}
  BY <1>1, DisownedType
<1>. HIDE DEF e
<1>5. c \in Objects /\ e.ref[c] = 0 /\ Places(e.map, c) = {}
  BY <1>1, <1>4 DEF Held, Objects
<1>6. d2 = Freed(e, c)
  BY <1>3, <1>4, <1>5, UnheapedFreed
<1>7. Touches(e, d2, c) /\ Gone(d2, c)
  BY <1>4, <1>5, <1>6, FreeHeld
<1>8. Owned(d2, {}, c) = {}
  <2>1. Own(d2, c) = {}
    BY <1>4, <1>7, TouchesOwned
  <2>. QED  BY <2>1 DEF Owned
<1>9. OK(d2, {}, c)
  BY <1>7, <1>8, OKGone
<1>10. Good(d2, {}, {})
  BY <1>1, <1>7, <1>9, GoodStep
<1>. QED  BY <1>2, <1>3, <1>10, IdleReached

-----------------------------------------------------------------------------
(* conn_destroy() of a connection with empty maps.                          *)

LEMMA ClearedSame ==
    ASSUME NEW d, TypeOK(d), NEW h \in Hosts, NEW m \in Maps, d.map[h][m] = <<>>
    PROVE  Cleared(d, h, m) = d
<1>. DEFINE q == d.map[h][m]
<1>1. ~(1 <= Len(q)) /\ 1 \in Nat \ {0}
  OBVIOUS
<1>. HIDE DEF q
<1>. QED  BY <1>1, SweptFirst, SweptLast DEF q

\* conn_destroy() leaves the reference counts alone.
LEMMA UnheapedHeld ==
    ASSUME NEW d, TypeOK(d), NEW k \in Conns, NEW o \in Objects, NEW r, NEW P, Held(d, o, r, P)
    PROVE  Held(Unheaped(d, k), o, r, P)
BY UnheapedFields, DistinctConstants DEF Held

LEMMA WithoutOne ==
    ASSUME NEW c \in Clients, NEW k \in Conns
    PROVE  Without({<<c, k>>}, {}, c, k)
BY DEF Without

LEMMA WithoutFrom ==
    ASSUME NEW c \in Clients, NEW k \in Conns, NEW K, k \notin K
    PROVE  Without({c} \X (K \cup {k}), {c} \X K, c, k)
BY DEF Without

LEMMA LooseHeld ==
    ASSUME NEW t, NEW d, NEW c \in Clients, NEW k \in Conns, LooseConn(t, d, c, k)
    PROVE  TypeOK(d) /\ k \in d.heap
<1>. DEFINE L == {<<c, k>>}
<1>1. CASE Leave1(t, d, L, c)
  BY <1>1, GoodType, LooseOne DEF Leave1
<1>2. CASE \E s \in Services : Removal5(t, d, L, c, s)
  BY <1>2, GoodType, LooseOne DEF Removal5
<1>3. CASE \E i \in Nat \ {0} : Destroy1(t, d, c, i, {k})
  <2>1. PICK i \in Nat \ {0} : Destroy1(t, d, c, i, {k})
    BY <1>3
  <2>. DEFINE e == Disowned(d, c)
              M == {c} \X (ConnsFrom(d, c, i) \cup {k})
  <2>2. TypeOK(d) /\ Good(e, M, {c}) /\ <<c, k>> \in M
    BY <2>1 DEF Destroy1, Dying
  <2>3. e.heap = d.heap
    BY <2>2, DisownedType
  <2>. HIDE DEF e, M
  <2>. QED  BY <2>2, <2>3, LooseHeap
<1>. QED  BY <1>1, <1>2, <1>3 DEF LooseConn

LEMMA ConnEmptyStep ==
    ASSUME NEW t, NEW d, NEW t2, NEW d2, Step(t, d, t2, d2), NEW c \in Clients, NEW k \in Conns,
           Conn1(t, d, c, k) \/ Conn2(t, d, c, k) \/ Conn3(t, d, c, k) \/ Conn4(t, d, c, k)
    PROVE  Safe(t, d) /\ Reached(t2, d2)
<1>1. /\ d.map[k]["services"] = <<>> /\ d.map[k]["subs"] = <<>>
      /\ TypeOK(d) /\ k \in d.heap
  BY LooseHeld DEF Conn1, Conn2, Conn3, Conn4, Conn5, LooseConn, Idles
<1>2. k \in Hosts /\ "services" \in Maps /\ "subs" \in Maps
  BY MapNames
<1>3. ~(1 <= Len(d.map[k]["services"])) /\ ~(1 <= Len(d.map[k]["subs"]))
  BY <1>1
<1>4. Cleared(d, k, "services") = d /\ Cleared(d, k, "subs") = d
  BY <1>1, <1>2, ClearedSame
<1>5. CASE Conn1(t, d, c, k)
  <2>1. Starts(t, Foreach(k, "services", 1, "dec_ref", k)) /\ Conn2(Tail(t), d, c, k)
    BY <1>5 DEF Conn1
  <2>2. t2 = Tail(t) /\ d2 = d
    BY <1>3, <2>1 DEF Step, DoesForeach, Callbacks
  <2>. QED  BY <1>1, <2>1, <2>2, SafeList DEF Reached, Point, ClientPoint
<1>6. CASE Conn2(t, d, c, k)
  <2>1. Starts(t, Clear(k, "services")) /\ Conn3(Tail(t), d, c, k)
    BY <1>6 DEF Conn2
  <2>2. t2 = Tail(t) /\ d2 = d
    BY <1>4, <2>1 DEF Step, DoesClear
  <2>. QED  BY <1>1, <2>1, <2>2, SafeList DEF Reached, Point, ClientPoint
<1>7. CASE Conn3(t, d, c, k)
  <2>1. Starts(t, Foreach(k, "subs", 1, "dec_ref", k)) /\ Conn4(Tail(t), d, c, k)
    BY <1>7 DEF Conn3
  <2>2. t2 = Tail(t) /\ d2 = d
    BY <1>3, <2>1 DEF Step, DoesForeach, Callbacks
  <2>. QED  BY <1>1, <2>1, <2>2, SafeList DEF Reached, Point, ClientPoint
<1>8. CASE Conn4(t, d, c, k)
  <2>1. Starts(t, Clear(k, "subs")) /\ Conn5(Tail(t), d, c, k)
    BY <1>8 DEF Conn4
  <2>2. t2 = Tail(t) /\ d2 = d
    BY <1>4, <2>1 DEF Step, DoesClear
  <2>. QED  BY <1>1, <2>1, <2>2, SafeList DEF Reached, Point, ClientPoint
<1>. QED  BY <1>5, <1>6, <1>7, <1>8

LEMMA DisownedUnheaped ==
    ASSUME NEW d, TypeOK(d), NEW c \in Clients, NEW k \in Conns
    PROVE  Disowned(Unheaped(d, k), c) = Unheaped(Disowned(d, c), k)
<1>. DEFINE a == [d.active EXCEPT ![c] = Nil]
            b == [d.inactive EXCEPT ![c] = <<>>]
<1>1. Disowned(Unheaped(d, k), c) =
         [heap |-> d.heap \ {k}, ref |-> d.ref, map |-> d.map, active |-> a, inactive |-> b,
          connected |-> d.connected, svc |-> d.svc]
  BY DEF Disowned, Unheaped
<1>2. Unheaped(Disowned(d, c), k) =
         [heap |-> d.heap \ {k}, ref |-> d.ref, map |-> d.map, active |-> a, inactive |-> b,
          connected |-> d.connected, svc |-> d.svc]
  BY DEF Disowned, Unheaped
<1>. QED  BY <1>1, <1>2

LEMMA Conn5Step ==
    ASSUME NEW t, NEW d, NEW t2, NEW d2, Step(t, d, t2, d2), NEW c \in Clients, NEW k \in Conns,
           Conn5(t, d, c, k)
    PROVE  Safe(t, d) /\ Reached(t2, d2)
<1>1. Starts(t, Free(k)) /\ LooseConn(Tail(t), d, c, k)
  BY DEF Conn5
<1>2. TypeOK(d) /\ k \in d.heap /\ k \notin Clients /\ d.map[k]["services"] = <<>>
  BY <1>1, LooseHeld, DistinctConstants DEF LooseConn, Idles, Objects
<1>3. Safe(t, d)
  BY <1>1, <1>2, SafeFree
<1>4. t2 = Tail(t) /\ d2 = Unheaped(d, k)
  BY <1>1, <1>2 DEF Step, DoesFree
<1>5. /\ TypeOK(d2) /\ d2.heap = d.heap \ {k} /\ d2.ref = d.ref /\ d2.map = d.map
      /\ d2.connected = d.connected /\ d2.svc = d.svc /\ d2.active = d.active
      /\ d2.inactive = d.inactive
  BY <1>2, <1>4, UnheapedFields
<1>6. \A X : Good(d, {<<c, k>>}, X) => Good(d2, {}, X)
  <2>. DEFINE L == {<<c, k>>}
              M == {}
  <2>1. Without(L, M, c, k)
    BY WithoutOne
  <2>. HIDE DEF L, M
  <2>2. \A X : Good(d, L, X) => Good(d2, M, X)
    BY <1>2, <1>4, <2>1, ConnFreed
  <2>. QED  BY <2>2 DEF L, M
<1>7. c \in Objects /\ c # k
  BY DistinctConstants DEF Objects
<1>8. CASE Leave1(t2, d, {<<c, k>>}, c)
  <2>1. Leave1(t2, d2, {}, c)
    BY <1>5, <1>6, <1>7, <1>8 DEF Leave1
  <2>. QED  BY <1>3, <2>1 DEF Reached, Point, ClientPoint
<1>9. CASE \E s \in Services : Removal5(t2, d, {<<c, k>>}, c, s)
  <2>1. PICK s \in Services : Removal5(t2, d, {<<c, k>>}, c, s)
    BY <1>9
  <2>2. \A o \in Objects : \A r, P : Held(d, o, r, P) => Held(d2, o, r, P)
    BY <1>2, <1>4, UnheapedHeld
  <2>3. /\ HeldService(d2, s, 2, {<<Db, "services">>}, d2.svc[s].orphan)
        /\ Kept(d2, c)
    BY <1>5, <1>7, <2>1, <2>2 DEF Removal5, HeldService, Kept, Objects
  <2>4. Removal5(t2, d2, {}, c, s)
    BY <1>6, <2>1, <2>3 DEF Removal5
  <2>. QED  BY <1>3, <2>4 DEF Reached, Point, ServicePoint
<1>10. CASE \E i \in Nat \ {0} : Destroy1(t2, d, c, i, {k})
  <2>1. PICK i \in Nat \ {0} : Destroy1(t2, d, c, i, {k})
    BY <1>10
  <2>. DEFINE e == Disowned(d, c)
              K == ConnsFrom(d, c, i)
              L == {c} \X (K \cup {k})
              M == {c} \X K
  <2>2. Dying(d, c, K \cup {k}) /\ k \notin K
    BY <2>1 DEF Destroy1
  <2>3. Good(e, L, {c}) /\ Held(d, c, 0, {}) /\ \A x \in K : Idles(d, x)
    BY <2>2 DEF Dying
  <2>4. Without(L, M, c, k)
    BY <2>2, WithoutFrom
  <2>5. e.map[k]["services"] = <<>>
    BY <1>2, DisownedType
  <2>6. ConnsFrom(d2, c, i) = K
    BY <1>5 DEF ConnsFrom, ConnsOf
  <2>7. Unheaped(e, k) = Disowned(d2, c)
    BY <1>2, <1>4, DisownedUnheaped
  <2>. HIDE DEF e, L, M, K
  <2>8. Good(Disowned(d2, c), M, {c})
    BY <2>3, <2>4, <2>5, <2>7, ConnFreed
  <2>9. Held(d2, c, 0, {})
    BY <1>2, <1>4, <1>7, <2>3, UnheapedHeld
  <2>10. \A x \in K : Idles(d2, x)
    BY <1>5, <2>3 DEF Idles
  <2>11. Dying(d2, c, K)
    BY <1>5, <2>8, <2>9, <2>10 DEF Dying, M
  <2>12. K \cup {} = K /\ {} \cap K = {}
    OBVIOUS
  <2>13. Destroy1(t2, d2, c, i, {})
    BY <2>1, <2>6, <2>11, <2>12 DEF Destroy1
  <2>. QED  BY <1>3, <2>13 DEF Reached, Point, ClientPoint
<1>. QED  BY <1>1, <1>4, <1>8, <1>9, <1>10 DEF LooseConn

-----------------------------------------------------------------------------
(* sd_publish()                                                             *)

\* service_commit() of a service that the call is working on, or that is in
\* order.
Was(d, s, change) == change # "added" /\ d.svc[s].orphan

CommitDone(t, d, t2, d2, s, c, change) ==
    /\ Safe(t, d)
    /\ Starts(t2, Foreach(Db, "subs", 1, "notify_sub_service_changed", s))
    /\ Next2(t, Tail(t2), Maintain(s, change))
    /\ Touches(d, d2, s) /\ d2.heap = d.heap /\ d2.active = d.active
    /\ d2.connected = d.connected /\ d2.map = d.map /\ d2.ref = d.ref
    /\ d2.svc[s] = [client_id |-> c, orphan |-> FALSE, was_orphan |-> Was(d, s, change)]

LEMMA CommitStep ==
    ASSUME NEW t, NEW d, NEW t2, NEW d2, Step(t, d, t2, d2), TypeOK(d),
           NEW s \in Services, s \in d.heap, NEW c \in Clients \cup {Nil}, NEW change,
           Starts(t, Commit(s, c, FALSE, change))
    PROVE  CommitDone(t, d, t2, d2, s, c, change)
<1>. DEFINE w == Was(d, s, change)
            v == [client_id |-> c, orphan |-> FALSE, was_orphan |-> w]
<1>1. v \in SvcType
  <2>1. w \in BOOLEAN
    BY DEF Was
  <2>. HIDE DEF w
  <2>. QED  BY <2>1 DEF SvcType
<1>2. /\ d2 = Committed(d, s, v)
      /\ Starts(t2, Foreach(Db, "subs", 1, "notify_sub_service_changed", s))
      /\ Next2(t, Tail(t2), Maintain(s, change))
  BY DEF Step, DoesCommit, Was
<1>. HIDE DEF v
<1>3. Touches(d, d2, s) /\ d2.svc[s] = v /\ d2.heap = d.heap /\ d2.map = d.map
  BY <1>1, <1>2, CommitHeld
<1>4. d2.active = d.active /\ d2.connected = d.connected
  BY <1>3 DEF Touches
<1>5. d2.ref = d.ref
  BY <1>2 DEF Committed
<1>6. Safe(t, d)
  BY SafeService
<1>. QED  BY <1>2, <1>3, <1>4, <1>5, <1>6 DEF v, CommitDone

LEMMA SameCounts ==
    ASSUME NEW d, NEW e, e.heap = d.heap, e.map = d.map, e.ref = d.ref, NEW o, NEW r, NEW P
    PROVE  Held(e, o, r, P) <=> Held(d, o, r, P)
BY DEF Held

LEMMA Publish1Step ==
    ASSUME NEW t, NEW d, NEW t2, NEW d2, Step(t, d, t2, d2), NEW c \in Clients,
           NEW s \in Services, NEW k \in Conns, Publish1(t, d, c, s, k)
    PROVE  Safe(t, d) /\ Reached(t2, d2)
<1>1. /\ Starts(t, Commit(s, c, FALSE, "added")) /\ NewTail(Tail(t), c, s, k)
      /\ Good(d, {}, {s}) /\ Held(d, s, 1, {}) /\ c \in d.heap /\ d.active[c] = k
  BY DEF Publish1, NewService
<1>2. s \in d.heap /\ TypeOK(d) /\ c \in Clients \cup {Nil}
  BY <1>1, GoodType DEF Held
<1>. DEFINE w == Was(d, s, "added")
<1>3. /\ Safe(t, d)
      /\ Starts(t2, Foreach(Db, "subs", 1, "notify_sub_service_changed", s))
      /\ Next2(t, Tail(t2), Maintain(s, "added"))
      /\ Touches(d, d2, s) /\ d2.heap = d.heap /\ d2.active = d.active
      /\ d2.map = d.map /\ d2.ref = d.ref
      /\ d2.svc[s] = [client_id |-> c, orphan |-> FALSE, was_orphan |-> w]
  <2>1. CommitDone(t, d, t2, d2, s, c, "added")
    BY <1>1, <1>2, CommitStep
  <2>. QED  BY <2>1 DEF CommitDone
<1>4. w = FALSE /\ Held(d2, s, 1, {})
  BY <1>1, <1>3, SameCounts DEF Was
<1>. HIDE DEF w
<1>5. Good(d2, {}, {s})
  BY <1>1, <1>3, GoodStep
<1>6. Publish2(Tail(t2), d2, c, s, k)
  BY <1>1, <1>3, <1>4, <1>5 DEF Publish2, NewService, Fresh, Next2
<1>. QED  BY <1>3, <1>6, ToldReached DEF Told

LEMMA Publish2Step ==
    ASSUME NEW t, NEW d, NEW t2, NEW d2, Step(t, d, t2, d2), NEW c \in Clients,
           NEW s \in Services, NEW k \in Conns, Publish2(t, d, c, s, k)
    PROVE  Safe(t, d) /\ Reached(t2, d2)
<1>1. /\ Starts(t, Maintain(s, "added")) /\ NewTail(Tail(t), c, s, k)
      /\ NewService(d, c, s, k, 1, {}) /\ Fresh(d, c, s)
  BY DEF Publish2
<1>2. TypeOK(d) /\ Held(d, s, 1, {}) /\ d.svc[s].orphan = FALSE /\ d.svc[s].was_orphan = FALSE
  BY <1>1, GoodType DEF NewService, Fresh
<1>3. Safe(t, d)
  <2>1. s \in d.heap /\ (<<Db, "timers">> \in Places(d.map, s) <=> d.svc[s].was_orphan)
    BY <1>2 DEF Held
  <2>. QED  BY <1>1, <2>1, SafeMaintain
<1>4. t2 = Tail(t) /\ d2 = d
  BY <1>1, <1>2 DEF Step, DoesMaintain
<1>5. Publish3(t2, d2, c, s, k)
  BY <1>1, <1>4 DEF Publish3
<1>. QED  BY <1>3, <1>5 DEF Reached, Point, ServicePoint

LEMMA Publish3Step ==
    ASSUME NEW t, NEW d, NEW t2, NEW d2, Step(t, d, t2, d2), NEW c \in Clients,
           NEW s \in Services, NEW k \in Conns, Publish3(t, d, c, s, k)
    PROVE  Safe(t, d) /\ Reached(t2, d2)
<1>1. /\ Starts(t, Add(Db, "services", s, c)) /\ Starts(Tail(t), Add(k, "services", s, c))
      /\ Only(Tail(Tail(t)), Dec(s)) /\ Good(d, {}, {s}) /\ Held(d, s, 1, {})
      /\ c \in d.heap /\ d.active[c] = k /\ Fresh(d, c, s)
  BY DEF Publish3, NewTail, NewService
<1>2. TypeOK(d) /\ Db \in d.heap /\ Db \in Hosts /\ s \in Kind("services") /\ "services" \in Maps
  BY <1>1, GoodType, MapNames, Kinds
<1>. DEFINE P == {}
            Q == {<<Db, "services">>}
<1>3. /\ <<Db, "services">> \notin P /\ Held(d, s, 1, P) /\ 1 >= 1 /\ 2 = 1 + 1
      /\ Q = P \cup {<<Db, "services">>}
  BY <1>1
<1>. HIDE DEF P, Q
<1>4. /\ Safe(t, d) /\ t2 = Tail(t) /\ Touches(d, d2, s) /\ d2.svc = d.svc
      /\ d2.heap = d.heap /\ d2.active = d.active
      /\ Held(d2, s, 2, Q)
  <2>1. t2 = Tail(t) /\ d2 = Put(d, Db, "services", s)
    BY <1>1 DEF Step, DoesAdd
  <2>2. /\ Touches(d, d2, s) /\ d2.svc = d.svc /\ d2.heap = d.heap
        /\ Held(d2, s, 1 + 1, P \cup {<<Db, "services">>})
    BY <1>2, <1>3, <2>1, PutHeld
  <2>3. s \in d.heap /\ d.ref[s] > 0 /\ <<Db, "services">> \notin Places(d.map, s)
    BY <1>3 DEF Held
  <2>4. Safe(t, d)
    BY <1>1, <1>2, <2>3, SafeAdd
  <2>5. Held(d2, s, 2, Q)
    BY <1>3, <2>2 DEF Held
  <2>. QED  BY <2>1, <2>2, <2>4, <2>5 DEF Touches
<1>5. Good(d2, {}, {s})
  BY <1>1, <1>4, GoodStep
<1>6. Held(d2, s, 2, {<<Db, "services">>})
  BY <1>4 DEF Q
<1>7. Publish4(t2, d2, c, s, k)
  BY <1>1, <1>4, <1>5, <1>6 DEF Publish4, NewService, Fresh
<1>. QED  BY <1>4, <1>7 DEF Reached, Point, ServicePoint

LEMMA Publish4Step ==
    ASSUME NEW t, NEW d, NEW t2, NEW d2, Step(t, d, t2, d2), NEW c \in Clients,
           NEW s \in Services, NEW k \in Conns, Publish4(t, d, c, s, k)
    PROVE  Safe(t, d) /\ Reached(t2, d2)
<1>. DEFINE P == {<<Db, "services">>}
<1>1. /\ Starts(t, Add(k, "services", s, c)) /\ Only(Tail(t), Dec(s))
      /\ Good(d, {}, {s}) /\ Held(d, s, 2, P)
      /\ c \in d.heap /\ d.active[c] = k /\ Fresh(d, c, s)
  BY DEF Publish4, NewService
<1>2. /\ TypeOK(d) /\ k \in Hosts /\ s \in Kind("services") /\ "services" \in Maps
      /\ s \in Objects /\ k # Db /\ k # Nil
  BY <1>1, GoodType, MapNames, Kinds, DistinctConstants DEF Objects
<1>3. k \in d.heap /\ k \in Own(d, c)
  BY <1>1, <1>2, ActiveOwn
<1>4. /\ <<k, "services">> \notin P /\ Published(k) = P \cup {<<k, "services">>} /\ 2 >= 1
      /\ 3 = 2 + 1
  BY <1>2 DEF Published
<1>. HIDE DEF P
<1>5. /\ Safe(t, d) /\ t2 = Tail(t) /\ Touches(d, d2, s) /\ d2.svc = d.svc
      /\ d2.heap = d.heap /\ TypeOK(d2)
      /\ Held(d2, s, 3, Published(k))
  <2>1. t2 = Tail(t) /\ d2 = Put(d, k, "services", s)
    BY <1>1 DEF Step, DoesAdd
  <2>2. /\ Touches(d, d2, s) /\ d2.svc = d.svc /\ d2.heap = d.heap
        /\ Held(d2, s, 2 + 1, P \cup {<<k, "services">>})
    BY <1>1, <1>2, <1>4, <2>1, PutHeld
  <2>3. s \in d.heap /\ d.ref[s] > 0 /\ <<k, "services">> \notin Places(d.map, s)
    BY <1>1, <1>4 DEF Held
  <2>4. Safe(t, d)
    BY <1>1, <1>2, <1>3, <2>3, SafeAdd
  <2>5. Held(d2, s, 3, Published(k))
    BY <1>4, <2>2 DEF Held
  <2>. QED  BY <2>1, <2>2, <2>4, <2>5 DEF Touches
<1>. DEFINE e == Dropped(d2, s)
<1>7. Touches(d2, e, s) /\ e.svc = d2.svc /\ Held(e, s, 3 - 1, Published(k))
  BY <1>2, <1>5, DropHeld
<1>. HIDE DEF e
<1>8. Touches(d, e, s)
  BY <1>5, <1>7, TouchesTwice
<1>9. ServiceIn(e, {}, s, k)
  <2>1. e.svc[s].orphan = FALSE /\ e.svc[s].client_id = c
    BY <1>1, <1>5, <1>7 DEF Fresh
  <2>2. Held(e, s, 2, Published(k))
    BY <1>7
  <2>3. HeldService(e, s, 2, Published(k), e.svc[s].orphan)
    BY <2>1, <2>2 DEF HeldService, TimerPlace, TimerRef, Held
  <2>4. k \in Owned(e, {}, c)
    BY <1>3, <1>8, TouchesOwned DEF Owned
  <2>. QED  BY <2>1, <2>3, <2>4 DEF ServiceIn
<1>10. OK(e, {}, s)
  BY <1>9, OKService
<1>11. Good(e, {}, {})
  BY <1>1, <1>8, <1>10, GoodStep
<1>12. Starts(t2, Dec(s)) /\ s \in d2.heap /\ d2.ref[s] >= 2 /\ Tail(t2) = <<>>
  BY <1>1, <1>5 DEF Only, Held
<1>13. Point(Tail(t2), Dropped(d2, s))
  BY <1>11, <1>12, IdleReached DEF e
<1>. QED  BY <1>2, <1>5, <1>12, <1>13, DropReached

-----------------------------------------------------------------------------
(* Services with or without a timer.                                        *)

LEMMA TakeService ==
    ASSUME NEW d, TypeOK(d), NEW s \in Services, NEW h \in Hosts, NEW r \in Int, NEW P, NEW w,
           HeldService(d, s, r, P, w), <<h, "services">> \in P
    PROVE  LET e == Dropped(Taken(d, h, "services", s), s)
           IN  /\ Touches(d, e, s) /\ e.svc = d.svc /\ e.heap = d.heap
               /\ HeldService(e, s, r - 1, P \ {<<h, "services">>}, w)
<1>. DEFINE e == Dropped(Taken(d, h, "services", s), s)
            Q == P \cup TimerPlace(w)
            n == r + TimerRef(w)
<1>1. /\ Held(d, s, n, Q) /\ <<h, "services">> \in Q /\ s \in Kind("services")
      /\ "services" \in Maps
  BY Kinds, MapNames DEF HeldService
<1>2. Q \ {<<h, "services">>} = (P \ {<<h, "services">>}) \cup TimerPlace(w)
  BY DEF TimerPlace
<1>3. n - 1 = (r - 1) + TimerRef(w)
  BY TimerRefs
<1>. HIDE DEF Q, n
<1>4. /\ Touches(d, e, s) /\ e.svc = d.svc /\ e.heap = d.heap
      /\ Held(e, s, n - 1, Q \ {<<h, "services">>})
  BY <1>1, TakeDropHeld
<1>. HIDE DEF e
<1>5. HeldService(e, s, r - 1, P \ {<<h, "services">>}, w)
  BY <1>2, <1>3, <1>4 DEF HeldService, Held
<1>. QED  BY <1>4, <1>5 DEF e

LEMMA IncService ==
    ASSUME NEW d, TypeOK(d), NEW s \in Services, NEW r \in Int, NEW P, NEW w,
           HeldService(d, s, r, P, w)
    PROVE  LET e == Inced(d, s)
           IN  /\ Touches(d, e, s) /\ e.svc = d.svc /\ e.heap = d.heap
               /\ HeldService(e, s, r + 1, P, w)
<1>. DEFINE e == Inced(d, s)
            Q == P \cup TimerPlace(w)
            n == r + TimerRef(w)
<1>1. Held(d, s, n, Q) /\ s \in Objects
  BY DEF HeldService, Objects
<1>2. n + 1 = (r + 1) + TimerRef(w)
  BY TimerRefs
<1>. HIDE DEF Q, n
<1>3. Touches(d, e, s) /\ e.svc = d.svc /\ e.heap = d.heap /\ Held(e, s, n + 1, Q)
  BY <1>1, IncHeld
<1>. HIDE DEF e
<1>4. HeldService(e, s, r + 1, P, w)
  BY <1>2, <1>3 DEF HeldService, Held, Q
<1>. QED  BY <1>3, <1>4 DEF e

LEMMA PutService ==
    ASSUME NEW d, TypeOK(d), NEW s \in Services, NEW k \in Conns, NEW r \in Int, NEW P, NEW w,
           HeldService(d, s, r, P, w), <<k, "services">> \notin P
    PROVE  LET e == Put(d, k, "services", s)
           IN  /\ Touches(d, e, s) /\ e.svc = d.svc /\ e.heap = d.heap
               /\ HeldService(e, s, r + 1, P \cup {<<k, "services">>}, w)
<1>. DEFINE e == Put(d, k, "services", s)
            Q == P \cup TimerPlace(w)
            n == r + TimerRef(w)
<1>1. /\ Held(d, s, n, Q) /\ <<k, "services">> \notin Q /\ s \in Kind("services")
      /\ "services" \in Maps /\ k \in Hosts
  BY Kinds, MapNames DEF HeldService, TimerPlace
<1>2. Q \cup {<<k, "services">>} = (P \cup {<<k, "services">>}) \cup TimerPlace(w)
  OBVIOUS
<1>3. n + 1 = (r + 1) + TimerRef(w)
  BY TimerRefs
<1>. HIDE DEF Q, n
<1>4. /\ Touches(d, e, s) /\ e.svc = d.svc /\ e.heap = d.heap
      /\ Held(e, s, n + 1, Q \cup {<<k, "services">>})
  BY <1>1, PutHeld
<1>. HIDE DEF e
<1>5. HeldService(e, s, r + 1, P \cup {<<k, "services">>}, w)
  BY <1>2, <1>3, <1>4 DEF HeldService, Held
<1>. QED  BY <1>4, <1>5 DEF e

LEMMA DelServiceStep ==
    ASSUME NEW t, NEW d, NEW t2, NEW d2, Step(t, d, t2, d2), TypeOK(d),
           NEW s \in Services, NEW h \in Hosts, NEW r \in Int, NEW P, NEW w, NEW c,
           HeldService(d, s, r, P, w), <<h, "services">> \in P, r >= 2,
           Starts(t, Del(h, "services", s, c)), h \in d.heap, c \in d.heap,
           Point(Tail(t), Dropped(Taken(d, h, "services", s), s))
    PROVE  Safe(t, d) /\ Reached(t2, d2)
<1>. DEFINE Q == P \cup TimerPlace(w)
            n == r + TimerRef(w)
<1>1. /\ Held(d, s, n, Q) /\ <<h, "services">> \in Q /\ s \in Kind("services")
      /\ "services" \in Maps
  BY Kinds, MapNames DEF HeldService
<1>2. n >= 2
  BY TimerRefs
<1>. HIDE DEF Q, n
<1>. QED  BY <1>1, <1>2, DelStep

LEMMA HeldServiceHeap ==
    ASSUME NEW d, NEW s, NEW r \in Int, NEW P, NEW w, HeldService(d, s, r, P, w)
    PROVE  s \in d.heap /\ d.ref[s] >= r
<1>1. s \in d.heap /\ d.ref[s] = r + TimerRef(w)
  BY DEF HeldService, Held
<1>. QED  BY <1>1, TimerRefs

\* get_service_conn() finds the connection.
LEMMA ConnFound ==
    ASSUME NEW d, TypeOK(d), NEW L, NEW s \in Services, NEW k \in Conns, ServiceIn(d, L, s, k),
           NEW c \in Clients, k \in Own(d, c)
    PROVE  ServiceConn(d, c, s) = k
<1>. DEFINE K == {x \in ToSet(ConnsOf(d, c)) : Contains(d.map[x]["services"], s)}
<1>1. ToSet(ConnsOf(d, c)) = Own(d, c) /\ Own(d, c) \subseteq Conns
  BY ConnsList, OwnedConns
<1>2. \A x \in Conns : Contains(d.map[x]["services"], s) <=> <<x, "services">> \in Places(d.map, s)
  BY PlaceOf, MapNames
<1>3. \A x \in Conns : <<x, "services">> \in Places(d.map, s) => x = k
  BY ServicePlaces
<1>4. <<k, "services">> \in Places(d.map, s)
  BY DEF ServiceIn, HeldService, Held, Published
<1>5. K = {k}
  BY <1>1, <1>2, <1>3, <1>4
<1>6. (CHOOSE x \in {k} : TRUE) = k
  OBVIOUS
<1>. HIDE DEF K
<1>7. K # {} /\ (CHOOSE x \in K : TRUE) = k
  BY <1>5, <1>6
<1>. QED  BY <1>7 DEF ServiceConn, K

\* The owner of a connection is known to the database.
LEMMA OwnerHeld ==
    ASSUME NEW d, NEW L, NEW X, Good(d, L, X), NEW c \in Clients, c \notin X, NEW k \in Own(d, c)
    PROVE  Held(d, c, 1, {<<Db, "clients">>}) /\ c \in d.heap
<1>1. TypeOK(d) /\ c \in Clients \ X
  BY GoodType
<1>2. Owned(d, L, c) # {}
  BY <1>1, OwnedConns
<1>3. Held(d, c, 1, {<<Db, "clients">>})
  BY <1>1, <1>2, OwnerKnown
<1>. QED  BY <1>3 DEF Held

-----------------------------------------------------------------------------
(* sd_publish() of a service that another client has.                       *)

LEMMA Capture1Step ==
    ASSUME NEW t, NEW d, NEW t2, NEW d2, Step(t, d, t2, d2), NEW c \in Clients,
           NEW s \in Services, Capture1(t, d, c, s)
    PROVE  Safe(t, d) /\ Reached(t2, d2)
<1>1. /\ Starts(t, Capture(c, s)) /\ CommitTail(Tail(t), c, s)
      /\ Good(d, {}, {}) /\ s \in d.heap /\ c \in d.heap
      /\ d.svc[s].client_id # c /\ d.active[c] # Nil
  BY DEF Capture1
<1>2. Safe(t, d)
  BY <1>1, SafeService
<1>3. PICK k \in Conns : ServiceIn(d, {}, s, k)
  BY <1>1, ServiceAt
<1>. DEFINE v == d.svc[s].client_id
<1>4. v \in Clients /\ k \in Owned(d, {}, v) /\ k \in Own(d, v) /\ TypeOK(d)
  BY <1>1, <1>3, GoodType DEF ServiceIn, Owned
<1>. HIDE DEF v
<1>5. Contains(d.map[Db]["clients"], v)
  <2>1. Held(d, v, 1, {<<Db, "clients">>})
    BY <1>1, <1>4, OwnerHeld
  <2>2. <<Db, "clients">> \in Places(d.map, v)
    BY <2>1 DEF Held
  <2>. QED  BY <2>2, PlaceOf, MapNames
<1>6. Lookup(d, v) = v /\ v # Nil
  BY <1>4, <1>5, DistinctConstants DEF Lookup, Objects
<1>7. ServiceConn(d, v, s) = k
  BY <1>3, <1>4, ConnFound
<1>8. /\ d2 = d /\ Starts(t2, Del(k, "services", s, v))
      /\ Next2(t, Tail(t2), Add(d.active[c], "services", s, c))
  BY <1>1, <1>6, <1>7 DEF Step, DoesCapture, v
<1>9. CaptureTail(Tail(t2), c, s, d.active[c])
  BY <1>1, <1>8 DEF CaptureTail, Next2
<1>10. Capture2(t2, d2, c, s, k)
  BY <1>1, <1>3, <1>8, <1>9 DEF Capture2, v
<1>. QED  BY <1>2, <1>10 DEF Reached, Point, ServicePoint

LEMMA Capture2Step ==
    ASSUME NEW t, NEW d, NEW t2, NEW d2, Step(t, d, t2, d2), NEW c \in Clients,
           NEW s \in Services, NEW k \in Conns, Capture2(t, d, c, s, k)
    PROVE  Safe(t, d) /\ Reached(t2, d2)
<1>. DEFINE v == d.svc[s].client_id
            w == d.svc[s].orphan
            e == Dropped(Taken(d, k, "services", s), s)
            P == Published(k)
<1>1. /\ Starts(t, Del(k, "services", s, v)) /\ CaptureTail(Tail(t), c, s, d.active[c])
      /\ Good(d, {}, {}) /\ c \in d.heap /\ d.active[c] # Nil
      /\ HeldService(d, s, 2, P, w) /\ v \in Clients /\ k \in Own(d, v)
  BY DEF Capture2, ServiceIn, Owned
<1>2. TypeOK(d) /\ k \in Hosts /\ k # Db
  BY <1>1, GoodType, MapNames, DistinctConstants
<1>3. k \in d.heap /\ v \in d.heap
  <2>. HIDE DEF v
  <2>. QED  BY <1>1, OwnHeap, OwnerHeld
<1>4. <<k, "services">> \in P /\ P \ {<<k, "services">>} = {<<Db, "services">>}
  BY <1>2 DEF Published
<1>. HIDE DEF P, v, w
<1>5. /\ Touches(d, e, s) /\ e.svc = d.svc /\ e.heap = d.heap
      /\ HeldService(e, s, 2 - 1, P \ {<<k, "services">>}, w)
  BY <1>1, <1>2, <1>4, TakeService
<1>. HIDE DEF e
<1>6. Good(e, {}, {s})
  BY <1>1, <1>5, GoodStep
<1>7. HeldService(e, s, 1, {<<Db, "services">>}, e.svc[s].orphan)
  BY <1>4, <1>5 DEF HeldService, Held, w
<1>8. e.active = d.active
  BY <1>5 DEF Touches
<1>9. Capture3(Tail(t), e, c, s)
  BY <1>1, <1>5, <1>6, <1>7, <1>8 DEF Capture3
<1>10. Point(Tail(t), Dropped(Taken(d, k, "services", s), s))
  BY <1>9 DEF Point, ServicePoint, e
<1>11. 2 >= 2 /\ 2 \in Int
  OBVIOUS
<1>. QED  BY <1>1, <1>2, <1>3, <1>4, <1>10, <1>11, DelServiceStep

LEMMA Capture3Step ==
    ASSUME NEW t, NEW d, NEW t2, NEW d2, Step(t, d, t2, d2), NEW c \in Clients,
           NEW s \in Services, Capture3(t, d, c, s)
    PROVE  Safe(t, d) /\ Reached(t2, d2)
<1>. DEFINE a == d.active[c]
            w == d.svc[s].orphan
            P == {<<Db, "services">>}
<1>1. /\ Starts(t, Add(a, "services", s, c)) /\ CommitTail(Tail(t), c, s)
      /\ Good(d, {}, {s}) /\ HeldService(d, s, 1, P, w) /\ c \in d.heap /\ a # Nil
  BY DEF Capture3, CaptureTail
<1>2. TypeOK(d) /\ a \in Own(d, c) /\ a \in d.heap /\ a \in Conns
  BY <1>1, GoodType, ActiveOwn
<1>. HIDE DEF a, w
<1>3. a \in Hosts /\ a # Db
  BY <1>2, MapNames, DistinctConstants
<1>4. <<a, "services">> \notin P /\ P \cup {<<a, "services">>} = Published(a)
  BY <1>3 DEF Published
<1>. HIDE DEF P
<1>5. t2 = Tail(t) /\ d2 = Put(d, a, "services", s)
  BY <1>1 DEF Step, DoesAdd
<1>6. /\ Touches(d, d2, s) /\ d2.svc = d.svc
      /\ HeldService(d2, s, 1 + 1, P \cup {<<a, "services">>}, w)
  <2>. DEFINE e == Put(d, a, "services", s)
  <2>1. 1 \in Int
    OBVIOUS
  <2>2. /\ Touches(d, e, s) /\ e.svc = d.svc /\ e.heap = d.heap
        /\ HeldService(e, s, 1 + 1, P \cup {<<a, "services">>}, w)
    BY <1>1, <1>2, <1>4, <2>1, PutService
  <2>. HIDE DEF e
  <2>3. d2 = e
    BY <1>5 DEF e
  <2>. QED  BY <2>2, <2>3
<1>7. HeldService(d2, s, 2, Published(a), d2.svc[s].orphan)
  BY <1>4, <1>6 DEF HeldService, Held, w
<1>8. Good(d2, {}, {s})
  BY <1>1, <1>6, GoodStep
<1>9. a \in Own(d2, c)
  BY <1>2, <1>6, TouchesOwned
<1>10. Commit1(t2, d2, c, s, a)
  BY <1>1, <1>5, <1>7, <1>8, <1>9 DEF Commit1
<1>11. Safe(t, d)
  <2>1. s \in d.heap /\ d.ref[s] >= 1 /\ d.ref[s] \in Int
    BY <1>1, <1>2, HeldServiceHeap DEF TypeOK, Objects
  <2>2. <<a, "services">> \notin Places(d.map, s)
    BY <1>1, <1>4 DEF HeldService, Held, TimerPlace
  <2>. QED  BY <1>1, <1>2, <1>3, <2>1, <2>2, SafeAdd, MapNames
<1>. QED  BY <1>2, <1>10, <1>11 DEF Reached, Point, ServicePoint
Recommitted(d, s, c, r, P) ==
    /\ HeldService(d, s, r, P, d.svc[s].was_orphan)
    /\ ~d.svc[s].orphan /\ d.svc[s].client_id = c

\* service_commit() keeps whether the service was an orphan.
LEMMA CommitService ==
    ASSUME NEW t, NEW d, NEW t2, NEW d2, NEW s \in Services, NEW c, NEW change, TypeOK(d),
           CommitDone(t, d, t2, d2, s, c, change), change # "added", NEW r, NEW P,
           HeldService(d, s, r, P, d.svc[s].orphan)
    PROVE  Recommitted(d2, s, c, r, P)
<1>1. /\ d2.heap = d.heap /\ d2.map = d.map /\ d2.ref = d.ref
      /\ d2.svc[s] = [client_id |-> c, orphan |-> FALSE, was_orphan |-> Was(d, s, change)]
  BY DEF CommitDone
<1>2. d2.svc[s].was_orphan = Was(d, s, change)
  BY <1>1
<1>3. /\ TimerPlace(Was(d, s, change)) = TimerPlace(d.svc[s].orphan)
      /\ TimerRef(Was(d, s, change)) = TimerRef(d.svc[s].orphan)
  BY DEF TimerPlace, TimerRef, Was
<1>4. HeldService(d2, s, r, P, d2.svc[s].was_orphan)
  BY <1>1, <1>2, <1>3 DEF HeldService, Held
<1>. QED  BY <1>1, <1>4 DEF Recommitted

\* The connections have the same services.
SameServices(d, e) == \A k \in Conns : e.map[k]["services"] = d.map[k]["services"]

Maintained(d, e, s, r, P) ==
    /\ Touches(d, e, s) /\ e.svc = d.svc /\ e.heap = d.heap /\ Held(e, s, r, P)
    /\ SameServices(d, e)

\* maintain_orphans() of a service that is no orphan removes its timer.
LEMMA MaintainStep ==
    ASSUME NEW t, NEW d, NEW t2, NEW d2, Step(t, d, t2, d2), TypeOK(d),
           NEW s \in Services, NEW change, Starts(t, Maintain(s, change)), ~d.svc[s].orphan,
           NEW r \in Int, r >= 1, NEW P, <<Db, "timers">> \notin P,
           HeldService(d, s, r, P, d.svc[s].was_orphan),
           \A e : Maintained(d, e, s, r, P) => Point(Tail(t), e)
    PROVE  Safe(t, d) /\ Reached(t2, d2)
<1>1. /\ s \in d.heap /\ s \in Objects /\ s \in Kind("timers") /\ Db \in Hosts /\ "timers" \in Maps
      /\ d.svc[s].was_orphan \in BOOLEAN
  BY Kinds, MapNames, Flags DEF HeldService, Held, Objects
<1>2. Safe(t, d)
  <2>1. <<Db, "timers">> \in Places(d.map, s) <=> d.svc[s].was_orphan
    BY DEF HeldService, Held, TimerPlace
  <2>. QED  BY <1>1, <2>1, SafeMaintain
<1>3. CASE d.svc[s].was_orphan
  <2>. DEFINE Q == P \cup {<<Db, "timers">>}
              a == Taken(d, Db, "timers", s)
              e == Dropped(a, s)
  <2>1. Next2(t, t2, Dec(s)) /\ d2 = a
    BY <1>3 DEF Step, DoesMaintain
  <2>2. Held(d, s, r + 1, Q) /\ <<Db, "timers">> \in Q /\ Q \ {<<Db, "timers">>} = P
    BY <1>3 DEF HeldService, TimerPlace, TimerRef
  <2>3. r + 1 >= 2 /\ (r + 1) - 1 = r
    OBVIOUS
  <2>. HIDE DEF Q
  <2>. DEFINE n == r + 1
  <2>4. Held(d, s, n, Q) /\ n >= 2 /\ n - 1 = r
    BY <2>2, <2>3
  <2>. HIDE DEF n
  <2>5. Touches(d, a, s) /\ Held(a, s, n, Q \ {<<Db, "timers">>})
    BY <1>1, <2>2, <2>4, TakeHeld
  <2>6. /\ Touches(d, e, s) /\ e.svc = d.svc /\ e.heap = d.heap
        /\ Held(e, s, n - 1, Q \ {<<Db, "timers">>})
    BY <1>1, <2>2, <2>4, TakeDropHeld
  <2>11. SameServices(d, e)
    <3>1. <<Db, "timers">> \in Places(d.map, s)
      BY <2>2 DEF Held
    <3>2. \A k \in Conns : k # Db
      BY DistinctConstants
    <3>. QED  BY <1>1, <3>1, <3>2, TakenLists, MapNames DEF SameServices
  <2>. HIDE DEF a, e
  <2>7. Held(e, s, r, P)
    BY <2>2, <2>4, <2>6
  <2>8. Point(Tail(t2), e)
    BY <2>1, <2>6, <2>7, <2>11 DEF Next2, Maintained
  <2>9. s \in a.heap /\ a.ref[s] >= 2 /\ TypeOK(a)
    BY <2>4, <2>5 DEF Held, Touches
  <2>10. Point(Tail(t2), Dropped(a, s)) /\ Starts(t2, Dec(s))
    BY <2>1, <2>8 DEF e, Next2
  <2>. QED  BY <1>1, <1>2, <2>1, <2>9, <2>10, DropReached
<1>4. CASE ~d.svc[s].was_orphan
  <2>1. t2 = Tail(t) /\ d2 = d
    BY <1>4 DEF Step, DoesMaintain
  <2>2. Touches(d, d, s)
    BY DEF Touches, Same
  <2>3. Held(d, s, r, P)
    BY <1>4 DEF HeldService, TimerPlace, TimerRef, Held
  <2>. QED  BY <1>2, <2>1, <2>2, <2>3 DEF Reached, SameServices, Maintained
<1>. QED  BY <1>3, <1>4

LEMMA Commit1Step ==
    ASSUME NEW t, NEW d, NEW t2, NEW d2, Step(t, d, t2, d2), NEW c \in Clients,
           NEW s \in Services, NEW k \in Conns, Commit1(t, d, c, s, k)
    PROVE  Safe(t, d) /\ Reached(t2, d2)
<1>. DEFINE P == Published(k)
<1>1. /\ Starts(t, Commit(s, c, FALSE, "modified")) /\ UnpublishTail(Tail(t), c, s)
      /\ Good(d, {}, {s}) /\ HeldService(d, s, 2, P, d.svc[s].orphan) /\ k \in Own(d, c)
  BY DEF Commit1, CommitTail
<1>. HIDE DEF P
<1>2. s \in d.heap /\ TypeOK(d) /\ c \in Clients \cup {Nil}
  BY <1>1, GoodType DEF HeldService, Held
<1>3. CommitDone(t, d, t2, d2, s, c, "modified")
  BY <1>1, <1>2, CommitStep
<1>4. /\ HeldService(d2, s, 2, P, d2.svc[s].was_orphan)
      /\ ~d2.svc[s].orphan /\ d2.svc[s].client_id = c
  <2>1. "modified" # "added"
    OBVIOUS
  <2>2. Recommitted(d2, s, c, 2, P)
    BY <1>1, <1>2, <1>3, <2>1, CommitService
  <2>. QED  BY <2>2 DEF Recommitted
<1>5. /\ Safe(t, d) /\ Touches(d, d2, s)
      /\ Starts(t2, Foreach(Db, "subs", 1, "notify_sub_service_changed", s))
      /\ Starts(Tail(t2), Maintain(s, "modified")) /\ Tail(Tail(t2)) = Tail(t)
  BY <1>3 DEF CommitDone, Next2
<1>6. Good(d2, {}, {s}) /\ k \in Own(d2, c)
  BY <1>1, <1>5, GoodStep, TouchesOwned
<1>7. Commit2(Tail(t2), d2, c, s, k)
  BY <1>1, <1>4, <1>5, <1>6 DEF Commit2, P
<1>. QED  BY <1>5, <1>7, ToldReached DEF Told

LEMMA Commit2Step ==
    ASSUME NEW t, NEW d, NEW t2, NEW d2, Step(t, d, t2, d2), NEW c \in Clients,
           NEW s \in Services, NEW k \in Conns, Commit2(t, d, c, s, k)
    PROVE  Safe(t, d) /\ Reached(t2, d2)
<1>. DEFINE P == Published(k)
<1>1. /\ Starts(t, Maintain(s, "modified")) /\ UnpublishTail(Tail(t), c, s)
      /\ Good(d, {}, {s}) /\ HeldService(d, s, 2, P, d.svc[s].was_orphan)
      /\ k \in Own(d, c) /\ d.svc[s].client_id = c /\ ~d.svc[s].orphan
  BY DEF Commit2
<1>2. TypeOK(d) /\ <<Db, "timers">> \notin P
  BY <1>1, GoodType DEF Published
<1>. HIDE DEF P
<1>3. ASSUME NEW e, Touches(d, e, s), e.svc = d.svc, e.heap = d.heap, Held(e, s, 2, P)
      PROVE  Point(Tail(t), e)
  <2>1. k \in Own(e, c) /\ TypeOK(e)
    BY <1>1, <1>3, TouchesOwned DEF Touches
  <2>2. k \in Owned(e, {}, c)
    BY <2>1, OwnedConns
  <2>3. HeldService(e, s, 2, P, e.svc[s].orphan)
    BY <1>1, <1>3 DEF HeldService, Held, TimerPlace, TimerRef
  <2>4. ServiceIn(e, {}, s, k)
    BY <1>1, <1>3, <2>2, <2>3 DEF ServiceIn, P
  <2>5. Good(e, {}, {})
    BY <1>1, <1>3, <2>4, OKService, GoodStep
  <2>6. CASE Tail(t) = <<>>
    BY <2>5, <2>6, IdleReached
  <2>7. CASE Only(Tail(t), RemoveService(c, s))
    <3>1. Removal0(Tail(t), e, c, s)
      BY <1>1, <1>3, <2>5, <2>7 DEF Removal0, Held
    <3>. QED  BY <3>1 DEF Point, ServicePoint
  <2>. QED  BY <1>1, <2>6, <2>7 DEF UnpublishTail
<1>4. 2 \in Int /\ 2 >= 1
  OBVIOUS
<1>5. \A e : Maintained(d, e, s, 2, P) => Point(Tail(t), e)
  BY <1>3 DEF Maintained
<1>. QED  BY <1>1, <1>2, <1>4, <1>5, MaintainStep

-----------------------------------------------------------------------------
(* remove_service()                                                         *)

LEMMA SameParting ==
    ASSUME NEW d, TypeOK(d), NEW e, NEW o, Touches(d, e, o), NEW c \in Clients, c # o,
           SameServices(d, e), Parting(d, c)
    PROVE  Parting(e, c)
<1>1. Own(e, c) = Own(d, c) /\ e.connected = d.connected /\ c \in Objects \ {o}
  BY TouchesOwned DEF Touches, Objects
<1>2. Stale(e, c) <=> Stale(d, c)
  BY <1>1, SameStale DEF SameServices
<1>3. /\ Held(d, c, 2, {<<Db, "clients">>}) => Held(e, c, 2, {<<Db, "clients">>})
      /\ Held(d, c, 1, {}) => Held(e, c, 1, {})
  BY <1>1, SameHeld
<1>. QED  BY <1>2, <1>3 DEF Parting

LEMMA Removal0Step ==
    ASSUME NEW t, NEW d, NEW t2, NEW d2, Step(t, d, t2, d2), NEW c \in Clients,
           NEW s \in Services, Removal0(t, d, c, s)
    PROVE  Safe(t, d) /\ Reached(t2, d2)
<1>1. /\ Only(t, RemoveService(c, s)) /\ Starts(t, RemoveService(c, s))
      /\ Good(d, {}, {}) /\ s \in d.heap /\ d.svc[s].client_id = c
  BY DEF Removal0, Only
<1>2. PICK k \in Conns : ServiceIn(d, {}, s, k)
  BY <1>1, ServiceAt
<1>3. k \in Own(d, c) /\ TypeOK(d)
  BY <1>1, <1>2, GoodType DEF ServiceIn, Owned
<1>4. c \in d.heap
  BY <1>1, <1>3, OwnerHeld
<1>5. Safe(t, d)
  BY <1>1, <1>4, SafeService
<1>6. ServiceConn(d, c, s) = k
  BY <1>2, <1>3, ConnFound
<1>7. d2 = d /\ Remove1(t2, c, s, k)
  BY <1>1, <1>6 DEF Step, DoesRemove
<1>8. Removal1(t2, d2, c, s, k)
  BY <1>1, <1>2, <1>7 DEF Removal1
<1>. QED  BY <1>5, <1>8 DEF Reached, Point, ServicePoint

LEMMA Removal1Step ==
    ASSUME NEW t, NEW d, NEW t2, NEW d2, Step(t, d, t2, d2), NEW c \in Clients,
           NEW s \in Services, NEW k \in Conns, Removal1(t, d, c, s, k)
    PROVE  Safe(t, d) /\ Reached(t2, d2)
<1>. DEFINE P == Published(k)
            w == d.svc[s].orphan
            e == Inced(d, s)
<1>1. /\ Starts(t, Inc(s)) /\ Remove2(Tail(t), c, s, k) /\ Good(d, {}, {})
      /\ HeldService(d, s, 2, P, w) /\ k \in Own(d, c)
  BY DEF Removal1, Remove1, ServiceIn, Owned
<1>2. TypeOK(d) /\ 2 \in Int /\ s \in Objects
  BY <1>1, GoodType DEF Objects
<1>. HIDE DEF P, w
<1>3. t2 = Tail(t) /\ d2 = e
  BY <1>1 DEF Step, DoesInc
<1>4. Touches(d, e, s) /\ e.svc = d.svc /\ HeldService(e, s, 2 + 1, P, w)
  BY <1>1, <1>2, IncService
<1>. HIDE DEF e
<1>5. Good(e, {}, {s}) /\ k \in Own(e, c)
  BY <1>1, <1>4, GoodStep, TouchesOwned
<1>6. HeldService(e, s, 3, P, e.svc[s].orphan)
  BY <1>4 DEF HeldService, Held, w
<1>7. Removal2(t2, d2, c, s, k)
  BY <1>1, <1>3, <1>5, <1>6 DEF Removal2, P
<1>8. Safe(t, d)
  <2>1. s \in d.heap /\ d.ref[s] >= 2 /\ d.ref[s] \in Int
    BY <1>1, <1>2, HeldServiceHeap DEF TypeOK
  <2>. QED  BY <1>1, <2>1, SafeCount
<1>. QED  BY <1>7, <1>8 DEF Reached, Point, ServicePoint

LEMMA Removal2Step ==
    ASSUME NEW t, NEW d, NEW t2, NEW d2, Step(t, d, t2, d2), NEW c \in Clients,
           NEW s \in Services, NEW k \in Conns, Removal2(t, d, c, s, k)
    PROVE  Safe(t, d) /\ Reached(t2, d2)
<1>. DEFINE P == Published(k)
            Q == {<<Db, "clients">>}
            e == Inced(d, c)
<1>1. /\ Starts(t, Inc(c)) /\ Remove3(Tail(t), c, s, k) /\ Good(d, {}, {s})
      /\ HeldService(d, s, 3, P, d.svc[s].orphan) /\ k \in Own(d, c)
  BY DEF Removal2, Remove2
<1>2. TypeOK(d) /\ c \in Objects /\ c # s /\ c \notin {s} /\ s \in Services \ {c}
  BY <1>1, GoodType, DistinctConstants DEF Objects
<1>. HIDE DEF P
<1>3. Held(d, c, 1, Q)
  BY <1>1, <1>2, OwnerHeld
<1>. HIDE DEF Q
<1>4. t2 = Tail(t) /\ d2 = e
  BY <1>1 DEF Step, DoesInc
<1>5. Touches(d, e, c) /\ Held(e, c, 1 + 1, Q)
  BY <1>2, <1>3, IncHeld
<1>. HIDE DEF e
<1>6. Good(e, {}, {s, c}) /\ k \in Own(e, c)
  BY <1>1, <1>5, GoodStep, TouchesOwned
<1>7. HeldService(e, s, 3, P, e.svc[s].orphan)
  BY <1>1, <1>2, <1>5, SameService
<1>8. Kept(e, c)
  BY <1>5 DEF Kept, Held, Q
<1>9. Removal3(t2, d2, c, s, k)
  BY <1>1, <1>4, <1>6, <1>7, <1>8 DEF Removal3, P
<1>10. Safe(t, d)
  BY <1>1, <1>3, SafeCount DEF Held
<1>. QED  BY <1>9, <1>10 DEF Reached, Point, ServicePoint

LEMMA Removal3Step ==
    ASSUME NEW t, NEW d, NEW t2, NEW d2, Step(t, d, t2, d2), NEW c \in Clients,
           NEW s \in Services, NEW k \in Conns, Removal3(t, d, c, s, k)
    PROVE  Safe(t, d) /\ Reached(t2, d2)
<1>. DEFINE P == Published(k)
            w == d.svc[s].orphan
            e == Dropped(Taken(d, k, "services", s), s)
<1>1. /\ Starts(t, Del(k, "services", s, c)) /\ Remove4(Tail(t), c, s, k) /\ Good(d, {}, {s, c})
      /\ HeldService(d, s, 3, P, w) /\ Kept(d, c) /\ k \in Own(d, c)
  BY DEF Removal3, Remove3
<1>2. /\ TypeOK(d) /\ c \in Objects \ {s} /\ k \in Hosts /\ k # Db
      /\ 3 \in Int /\ 3 >= 2 /\ k \in d.heap /\ c \in d.heap
  BY <1>1, GoodType, DistinctConstants, MapNames, OwnHeap DEF Objects, Kept, Held
<1>3. <<k, "services">> \in P /\ P \ {<<k, "services">>} = {<<Db, "services">>}
  BY <1>2 DEF Published
<1>. HIDE DEF P, w
<1>4. /\ Touches(d, e, s) /\ e.svc = d.svc
      /\ HeldService(e, s, 3 - 1, P \ {<<k, "services">>}, w)
  BY <1>1, <1>2, <1>3, TakeService
<1>. HIDE DEF e
<1>5. Good(e, {}, {s, c}) /\ k \in Own(e, c)
  BY <1>1, <1>4, GoodStep, TouchesOwned
<1>6. HeldService(e, s, 2, {<<Db, "services">>}, e.svc[s].orphan)
  BY <1>3, <1>4 DEF HeldService, Held, w
<1>7. Kept(e, c)
  BY <1>1, <1>2, <1>4, SameHeld DEF Kept
<1>8. Removal4(Tail(t), e, c, s, k)
  BY <1>1, <1>5, <1>6, <1>7 DEF Removal4
<1>9. Point(Tail(t), Dropped(Taken(d, k, "services", s), s))
  BY <1>8 DEF Point, ServicePoint, e
<1>. QED  BY <1>1, <1>2, <1>3, <1>9, DelServiceStep

LEMMA Removal4Step ==
    ASSUME NEW t, NEW d, NEW t2, NEW d2, Step(t, d, t2, d2), NEW c \in Clients,
           NEW s \in Services, NEW k \in Conns, Removal4(t, d, c, s, k)
    PROVE  Safe(t, d) /\ Reached(t2, d2)
<1>. DEFINE P == {<<Db, "services">>}
            X == {s, c}
            w == d.svc[s].orphan
            e == WithInactive(d, c, Deleted(d.inactive[c], k))
<1>1. /\ Starts(t, DropConn(c, k)) /\ Remove5(Tail(t), c, s) /\ Good(d, {}, X)
      /\ HeldService(d, s, 2, P, w) /\ Kept(d, c) /\ k \in Own(d, c)
  BY DEF Removal4, Remove4
<1>2. TypeOK(d) /\ k \in d.heap /\ c \in d.heap
  BY <1>1, GoodType, OwnHeap DEF Kept, Held
<1>3. Safe(t, d)
  BY <1>1, <1>2, SafeClient
<1>4. CASE Idles(d, k)
  <2>1. ConnProgram(t2, k, Tail(t)) /\ d2 = e
    BY <1>1, <1>2, <1>4 DEF Step, DoesDrop
  <2>. HIDE DEF P, X, w
  <2>2. k \notin d.connected
    BY <1>4 DEF Idles
  <2>3. /\ Good(e, {<<c, k>>}, X) /\ e.map = d.map /\ e.connected = d.connected /\ e.svc = d.svc
        /\ \A x \in Objects : \A r, Q : Held(d, x, r, Q) => Held(e, x, r, Q)
    BY <1>1, <2>2, ConnDropped
  <2>. HIDE DEF e
  <2>4. Idles(e, k) /\ k \notin e.connected
    BY <1>4, <2>3 DEF Idles
  <2>5. e.map[k]["subs"] = <<>>
    <3>1. Subs \cap X = {}
      BY DistinctConstants DEF X
    <3>2. \A b \in Subs \cap X : <<k, "subs">> \notin Places(e.map, b)
      BY <3>1
    <3>3. PICK L : L = {<<c, k>>}
      OBVIOUS
    <3>4. Good(e, L, X)
      BY <2>3, <3>3
    <3>. QED  BY <2>4, <3>2, <3>4, NoSubs
  <2>6. HeldService(e, s, 2, P, e.svc[s].orphan)
    BY <1>1, <2>3 DEF HeldService, Objects, w
  <2>7. Kept(e, c)
    BY <1>1, <2>3 DEF Kept, Objects
  <2>8. Removal5(Tail(t), e, {<<c, k>>}, c, s)
    BY <1>1, <2>3, <2>6, <2>7 DEF Removal5, P, X
  <2>9. LooseConn(Tail(t), e, c, k)
    BY <2>4, <2>5, <2>8 DEF LooseConn
  <2>10. Conn1(t2, d2, c, k)
    BY <2>1, <2>9 DEF ConnProgram, Conn1, Conn2, Conn3, Conn4, Conn5
  <2>. QED  BY <1>3, <2>10 DEF Reached, Point, ClientPoint
<1>5. CASE ~Idles(d, k)
  <2>1. t2 = Tail(t) /\ d2 = d
    BY <1>1, <1>2, <1>5 DEF Step, DoesDrop
  <2>2. Removal5(t2, d2, {}, c, s)
    BY <1>1, <2>1 DEF Removal5
  <2>. QED  BY <1>3, <2>2 DEF Reached, Point, ServicePoint
<1>. QED  BY <1>4, <1>5

LEMMA Removal5Step ==
    ASSUME NEW t, NEW d, NEW t2, NEW d2, Step(t, d, t2, d2), NEW c \in Clients,
           NEW s \in Services, Removal5(t, d, {}, c, s)
    PROVE  Safe(t, d) /\ Reached(t2, d2)
<1>1. /\ Starts(t, DropClient(c)) /\ Remove6(Tail(t), c, s) /\ Good(d, {}, {s, c})
      /\ HeldService(d, s, 2, {<<Db, "services">>}, d.svc[s].orphan) /\ Kept(d, c)
  BY DEF Removal5, Remove5
<1>2. TypeOK(d) /\ c \in d.heap
  BY <1>1, GoodType DEF Kept, Held
<1>3. Safe(t, d)
  BY <1>1, <1>2, SafeClient
<1>4. /\ d2 = d
      /\ Stale(d, c) => Next2(t, t2, Del(Db, "clients", c, c))
      /\ ~Stale(d, c) => t2 = Tail(t)
  BY <1>1, <1>2 DEF Step, DoesLeave
<1>5. CASE Stale(d, c)
  <2>1. Removal6(t2, d2, c, s)
    BY <1>1, <1>4, <1>5 DEF Removal6, Next2
  <2>. QED  BY <1>3, <2>1 DEF Reached, Point, ServicePoint
<1>6. CASE ~Stale(d, c)
  <2>1. Removal7(t2, d2, c, s)
    BY <1>1, <1>4, <1>6 DEF Removal7, Parting, Kept
  <2>. QED  BY <1>3, <2>1 DEF Reached, Point, ServicePoint
<1>. QED  BY <1>5, <1>6

LEMMA Removal6Step ==
    ASSUME NEW t, NEW d, NEW t2, NEW d2, Step(t, d, t2, d2), NEW c \in Clients,
           NEW s \in Services, Removal6(t, d, c, s)
    PROVE  Safe(t, d) /\ Reached(t2, d2)
<1>. DEFINE P == {<<Db, "clients">>}
            Q == {<<Db, "services">>}
            e == Dropped(Taken(d, Db, "clients", c), c)
<1>1. /\ Starts(t, Del(Db, "clients", c, c)) /\ Remove6(Tail(t), c, s) /\ Good(d, {}, {s, c})
      /\ HeldService(d, s, 2, Q, d.svc[s].orphan) /\ Held(d, c, 2, P) /\ Stale(d, c)
  BY DEF Removal6, Kept
<1>2. /\ TypeOK(d) /\ Db \in d.heap /\ c \in d.heap /\ s \in Services \ {c} /\ 2 >= 2
      /\ Db \in Hosts /\ "clients" \in Maps /\ c \in Kind("clients")
      /\ <<Db, "clients">> \in P /\ P \ {<<Db, "clients">>} = {}
      /\ <<Db, "clients">> \in Places(d.map, c)
  BY <1>1, GoodType, DistinctConstants, MapNames, Kinds DEF Held
<1>. HIDE DEF P, Q
<1>3. Touches(d, e, c) /\ e.svc = d.svc /\ Held(e, c, 2 - 1, P \ {<<Db, "clients">>})
  BY <1>1, <1>2, TakeDropHeld
<1>4. \A k \in Conns : e.map[k]["services"] = d.map[k]["services"]
  BY <1>2, TakenLists, MapNames
<1>. HIDE DEF e
<1>5. Good(e, {}, {s, c}) /\ Own(e, c) = Own(d, c) /\ e.connected = d.connected
  BY <1>1, <1>3, GoodStep, TouchesOwned DEF Touches
<1>6. Stale(e, c)
  BY <1>1, <1>2, <1>4, <1>5, SameStale
<1>7. HeldService(e, s, 2, Q, e.svc[s].orphan)
  BY <1>1, <1>2, <1>3, SameService
<1>8. Parting(e, c)
  BY <1>2, <1>3, <1>6 DEF Parting, Held
<1>9. Removal7(Tail(t), e, c, s)
  BY <1>1, <1>5, <1>7, <1>8 DEF Removal7, Q
<1>10. Point(Tail(t), Dropped(Taken(d, Db, "clients", c), c))
  BY <1>9 DEF Point, ServicePoint, e
<1>. QED  BY <1>1, <1>2, <1>10, DelStep

LEMMA Removal7Step ==
    ASSUME NEW t, NEW d, NEW t2, NEW d2, Step(t, d, t2, d2), NEW c \in Clients,
           NEW s \in Services, Removal7(t, d, c, s)
    PROVE  Safe(t, d) /\ Reached(t2, d2)
<1>. DEFINE P == {<<Db, "services">>}
            w == d.svc[s].orphan
            e == Dropped(Taken(d, Db, "services", s), s)
<1>1. /\ Starts(t, Del(Db, "services", s, c)) /\ Remove7(Tail(t), c, s) /\ Good(d, {}, {s, c})
      /\ HeldService(d, s, 2, P, w) /\ Parting(d, c)
  BY DEF Removal7, Remove6
<1>2. /\ TypeOK(d) /\ Db \in d.heap /\ c # s /\ Db \in Hosts /\ 2 \in Int /\ 2 >= 2
      /\ c \in d.heap /\ <<Db, "services">> \in P /\ P \ {<<Db, "services">>} = {}
      /\ <<Db, "services">> \in Places(d.map, s)
  BY <1>1, GoodType, DistinctConstants, MapNames DEF Parting, Held, HeldService
<1>. HIDE DEF P, w
<1>3. /\ Touches(d, e, s) /\ e.svc = d.svc
      /\ HeldService(e, s, 2 - 1, P \ {<<Db, "services">>}, w)
  BY <1>1, <1>2, TakeService
<1>4. SameServices(d, e)
  <2>1. \A k \in Conns : k # Db
    BY DistinctConstants
  <2>. QED  BY <1>2, <2>1, TakenLists, MapNames DEF SameServices
<1>. HIDE DEF e
<1>5. Good(e, {}, {s, c})
  BY <1>1, <1>3, GoodStep
<1>6. HeldService(e, s, 1, {}, e.svc[s].orphan)
  BY <1>2, <1>3 DEF HeldService, Held, w
<1>7. Parting(e, c)
  BY <1>1, <1>2, <1>3, <1>4, SameParting
<1>8. Removal8(Tail(t), e, c, s)
  BY <1>1, <1>5, <1>6, <1>7 DEF Removal8
<1>9. Point(Tail(t), Dropped(Taken(d, Db, "services", s), s))
  BY <1>8 DEF Point, ServicePoint, e
<1>. QED  BY <1>1, <1>2, <1>9, DelServiceStep

LEMMA Removal8Step ==
    ASSUME NEW t, NEW d, NEW t2, NEW d2, Step(t, d, t2, d2), NEW c \in Clients,
           NEW s \in Services, Removal8(t, d, c, s)
    PROVE  Safe(t, d) /\ Reached(t2, d2)
<1>. DEFINE P == {}
<1>1. /\ Starts(t, Commit(s, Nil, FALSE, "removed")) /\ Remove8(Tail(t), c, s)
      /\ Good(d, {}, {s, c}) /\ HeldService(d, s, 1, P, d.svc[s].orphan) /\ Parting(d, c)
  BY DEF Removal8, Remove7
<1>. HIDE DEF P
<1>2. s \in d.heap /\ TypeOK(d) /\ Nil \in Clients \cup {Nil} /\ c # s /\ "removed" # "added"
  BY <1>1, GoodType, DistinctConstants DEF HeldService, Held
<1>3. CommitDone(t, d, t2, d2, s, Nil, "removed")
  BY <1>1, <1>2, CommitStep
<1>4. Recommitted(d2, s, Nil, 1, P)
  BY <1>1, <1>2, <1>3, CommitService
<1>5. /\ Safe(t, d) /\ Touches(d, d2, s) /\ d2.map = d.map
      /\ Starts(t2, Foreach(Db, "subs", 1, "notify_sub_service_changed", s))
      /\ Starts(Tail(t2), Maintain(s, "removed")) /\ Tail(Tail(t2)) = Tail(t)
  BY <1>3 DEF CommitDone, Next2
<1>6. Good(d2, {}, {s, c})
  BY <1>1, <1>5, GoodStep
<1>7. Parting(d2, c)
  BY <1>1, <1>2, <1>5, SameParting DEF SameServices
<1>8. Removal9(Tail(t2), d2, c, s)
  BY <1>1, <1>4, <1>5, <1>6, <1>7 DEF Removal9, Recommitted, P
<1>. QED  BY <1>5, <1>8, ToldReached DEF Told

LEMMA Removal9Step ==
    ASSUME NEW t, NEW d, NEW t2, NEW d2, Step(t, d, t2, d2), NEW c \in Clients,
           NEW s \in Services, Removal9(t, d, c, s)
    PROVE  Safe(t, d) /\ Reached(t2, d2)
<1>. DEFINE P == {}
<1>1. /\ Starts(t, Maintain(s, "removed")) /\ Remove8(Tail(t), c, s)
      /\ Good(d, {}, {s, c}) /\ HeldService(d, s, 1, P, d.svc[s].was_orphan)
      /\ ~d.svc[s].orphan /\ Parting(d, c)
  BY DEF Removal9
<1>2. TypeOK(d) /\ <<Db, "timers">> \notin P /\ c # s /\ 1 \in Int /\ 1 >= 1
  BY <1>1, GoodType, DistinctConstants
<1>. HIDE DEF P
<1>3. ASSUME NEW e, Touches(d, e, s), Held(e, s, 1, P), SameServices(d, e)
      PROVE  Point(Tail(t), e)
  <2>1. Good(e, {}, {s, c})
    BY <1>1, <1>3, GoodStep
  <2>2. Parting(e, c)
    BY <1>1, <1>2, <1>3, SameParting
  <2>3. Removal10(Tail(t), e, c, s)
    BY <1>1, <1>3, <2>1, <2>2 DEF Removal10, P
  <2>. QED  BY <2>3 DEF Point, ServicePoint
<1>4. \A e : Maintained(d, e, s, 1, P) => Point(Tail(t), e)
  BY <1>3 DEF Maintained
<1>. QED  BY <1>1, <1>2, <1>4, MaintainStep

LEMMA Removal10Step ==
    ASSUME NEW t, NEW d, NEW t2, NEW d2, Step(t, d, t2, d2), NEW c \in Clients,
           NEW s \in Services, Removal10(t, d, c, s)
    PROVE  Safe(t, d) /\ Reached(t2, d2)
<1>. DEFINE e == Freed(d, s)
<1>1. /\ Starts(t, Dec(s)) /\ Only(Tail(t), Dec(c))
      /\ Good(d, {}, {s, c}) /\ Held(d, s, 1, {}) /\ Parting(d, c)
  BY DEF Removal10, Remove8
<1>2. TypeOK(d) /\ s \in Objects /\ Places(d.map, s) = {} /\ c # s /\ s \notin Clients
  BY <1>1, GoodType, DistinctConstants DEF Objects, Held
<1>3. Touches(d, e, s) /\ e.map = d.map /\ Gone(e, s)
  BY <1>2, FreeHeld
<1>. HIDE DEF e
<1>4. OK(e, {}, s)
  BY <1>2, <1>3, OKGone
<1>5. Good(e, {}, {c})
  BY <1>1, <1>3, <1>4, GoodStep
<1>6. Parting(e, c)
  BY <1>1, <1>2, <1>3, SameParting DEF SameServices
<1>7. Leave3(Tail(t), e, c)
  BY <1>1, <1>5, <1>6 DEF Leave3
<1>8. Point(Tail(t), Freed(d, s))
  BY <1>7 DEF Point, ClientPoint, e
<1>9. Freeing(t, d)
  BY <1>1, <1>2, <1>8 DEF Freeing, Held
<1>. QED  BY <1>9, FreeingStep

-----------------------------------------------------------------------------
(* sd_create_sub() and sd_unsubscribe()                                     *)

LEMMA Subscribe1Step ==
    ASSUME NEW t, NEW d, NEW t2, NEW d2, Step(t, d, t2, d2), NEW c \in Clients,
           NEW b \in Subs, NEW k \in Conns, Subscribe1(t, d, c, b, k)
    PROVE  Safe(t, d) /\ Reached(t2, d2)
<1>. DEFINE P == {}
            e == Put(d, k, "subs", b)
<1>1. /\ Starts(t, Add(k, "subs", b, c)) /\ Starts(Tail(t), Add(Db, "subs", b, c))
      /\ Starts(Tail(Tail(t)), Dec(b)) /\ NotifyTail(Tail(Tail(Tail(t))), b, 1)
      /\ Good(d, {}, {b}) /\ Held(d, b, 1, P) /\ c \in d.heap /\ d.active[c] = k
  BY DEF Subscribe1
<1>2. /\ TypeOK(d) /\ b \in Kind("subs") /\ k \in Hosts /\ "subs" \in Maps
      /\ <<k, "subs">> \notin P /\ k # Nil
  BY <1>1, GoodType, Kinds, MapNames, DistinctConstants
<1>3. k \in d.heap
  BY <1>1, <1>2, ActiveOwn
<1>4. t2 = Tail(t) /\ d2 = e
  BY <1>1 DEF Step, DoesAdd
<1>5. P \cup {<<k, "subs">>} = {<<k, "subs">>}
  OBVIOUS
<1>. HIDE DEF P
<1>6. Touches(d, e, b) /\ e.heap = d.heap /\ Held(e, b, 1 + 1, P \cup {<<k, "subs">>})
  BY <1>1, <1>2, PutHeld
<1>. HIDE DEF e
<1>7. Held(e, b, 2, {<<k, "subs">>})
  BY <1>5, <1>6 DEF Held
<1>8. Good(e, {}, {b}) /\ e.active = d.active
  BY <1>1, <1>6, GoodStep DEF Touches
<1>9. Subscribe2(t2, d2, c, b, k)
  BY <1>1, <1>4, <1>6, <1>7, <1>8 DEF Subscribe2
<1>10. Safe(t, d)
  <2>1. b \in d.heap /\ d.ref[b] > 0 /\ <<k, "subs">> \notin Places(d.map, b)
    BY <1>1, <1>2 DEF Held
  <2>. QED  BY <1>1, <1>2, <1>3, <2>1, SafeAdd
<1>. QED  BY <1>9, <1>10 DEF Reached, Point, SubPoint

LEMMA Subscribe2Step ==
    ASSUME NEW t, NEW d, NEW t2, NEW d2, Step(t, d, t2, d2), NEW c \in Clients,
           NEW b \in Subs, NEW k \in Conns, Subscribe2(t, d, c, b, k)
    PROVE  Safe(t, d) /\ Reached(t2, d2)
<1>. DEFINE P == {<<k, "subs">>}
            Q == P \cup {<<Db, "subs">>}
            a == Put(d, Db, "subs", b)
            e == Dropped(a, b)
<1>1. /\ Starts(t, Add(Db, "subs", b, c))
      /\ Starts(Tail(t), Dec(b)) /\ NotifyTail(Tail(Tail(t)), b, 1)
      /\ Good(d, {}, {b}) /\ Held(d, b, 2, P) /\ c \in d.heap /\ d.active[c] = k
  BY DEF Subscribe2
<1>2. /\ TypeOK(d) /\ b \in Kind("subs") /\ Db \in Hosts /\ "subs" \in Maps /\ b \in Objects
      /\ <<Db, "subs">> \notin P /\ k # Nil /\ Db \in d.heap
  BY <1>1, GoodType, Kinds, MapNames, DistinctConstants DEF Objects
<1>3. k \in d.connected
  BY <1>1, <1>2, ActiveOwn
<1>4. t2 = Tail(t) /\ d2 = a
  BY <1>1 DEF Step, DoesAdd
<1>5. Q = {<<Db, "subs">>, <<k, "subs">>}
  OBVIOUS
<1>. HIDE DEF P
<1>6. Touches(d, a, b) /\ a.heap = d.heap /\ Held(a, b, 2 + 1, Q)
  BY <1>1, <1>2, PutHeld
<1>. HIDE DEF a, Q
<1>7. TypeOK(a) /\ Held(a, b, 3, Q)
  BY <1>6 DEF Touches
<1>8. Touches(a, e, b) /\ e.heap = a.heap /\ Held(e, b, 3 - 1, Q)
  BY <1>2, <1>7, DropHeld
<1>. HIDE DEF e
<1>9. Touches(d, e, b) /\ Held(e, b, 2, {<<Db, "subs">>, <<k, "subs">>}) /\ k \in e.connected
  <2>1. Touches(d, e, b)
    BY <1>6, <1>8, TouchesTwice
  <2>. QED  BY <2>1, <1>3, <1>5, <1>8 DEF Held, Touches
<1>10. Good(e, {}, {})
  BY <1>1, <1>9, OKSub, GoodStep
<1>11. Subscribe3(Tail(t2), e, b, 1)
  BY <1>1, <1>4, <1>9, <1>10 DEF Subscribe3, Held
<1>12. Point(Tail(t2), Dropped(d2, b))
  <2>1. 1 \in Nat \ {0}
    OBVIOUS
  <2>. QED  BY <1>4, <1>11, <2>1 DEF Point, SubPoint, e
<1>13. Reached(t2, d2)
  <2>1. b \in d2.heap /\ d2.ref[b] >= 2
    BY <1>4, <1>7 DEF Held
  <2>. QED  BY <1>1, <1>2, <1>4, <1>7, <1>12, <2>1, DropReached
<1>14. Safe(t, d)
  <2>1. b \in d.heap /\ d.ref[b] > 0 /\ <<Db, "subs">> \notin Places(d.map, b)
    BY <1>1, <1>2 DEF Held
  <2>. QED  BY <1>1, <1>2, <2>1, SafeAdd
<1>. QED  BY <1>13, <1>14

LEMMA Subscribe3Step ==
    ASSUME NEW t, NEW d, NEW t2, NEW d2, Step(t, d, t2, d2), NEW b \in Subs,
           NEW i \in Nat \ {0}, Subscribe3(t, d, b, i)
    PROVE  Safe(t, d) /\ Reached(t2, d2)
<1>. DEFINE q == d.map[Db]["services"]
<1>1. /\ Starts(t, Foreach(Db, "services", i, "notify_sub_service_added", b)) /\ Tail(t) = <<>>
      /\ Good(d, {}, {}) /\ b \in d.heap
  BY DEF Subscribe3, NotifyTail, Only
<1>2. TypeOK(d) /\ Db \in d.heap /\ Db \in Hosts /\ "services" \in Maps
  BY <1>1, GoodType, MapNames
<1>3. Safe(t, d)
  BY <1>1, <1>2, SafeList
<1>4. CASE ~(i <= Len(q))
  <2>1. t2 = <<>> /\ d2 = d
    BY <1>1, <1>4 DEF Step, DoesForeach, Callbacks
  <2>. QED  BY <1>1, <1>3, <2>1, IdleReached
<1>5. CASE i <= Len(q)
  <2>. DEFINE s == q[i]
  <2>1. /\ d2 = d /\ Starts(t2, Called(d, "notify_sub_service_added", s, b))
        /\ Next2(t, Tail(t2), Foreach(Db, "services", i + 1, "notify_sub_service_added", b))
    BY <1>1, <1>5 DEF Step, DoesForeach, Callbacks
  <2>2. q \in Seq(Kind("services"))
    BY <1>2, ListOK
  <2>3. i \in DOMAIN q
    BY <1>5, <2>2
  <2>4. s \in Services /\ <<Db, "services">> \in Places(d.map, s)
    BY <1>2, <2>3, ListMember, Kinds
  <2>. HIDE DEF s
  <2>5. s \in d.heap
    <3>. DEFINE N == {}
    <3>1. Good(d, {}, N) /\ s \in Services \ N
      BY <1>1, <2>4
    <3>. HIDE DEF N
    <3>2. PICK k \in Conns : ServiceIn(d, {}, s, k)
      BY <2>4, <3>1, ServiceAt
    <3>. QED  BY <3>2, ServicePlaces
  <2>6. Subscribe4(t2, d2, b, s, i + 1)
    BY <1>1, <2>1, <2>5 DEF Subscribe4, Called, Next2, NotifyTail, Only
  <2>7. i + 1 \in Nat \ {0}
    OBVIOUS
  <2>. QED  BY <1>3, <2>4, <2>6, <2>7 DEF Reached, Point, SubPoint
<1>. QED  BY <1>4, <1>5

LEMMA Subscribe4Step ==
    ASSUME NEW t, NEW d, NEW t2, NEW d2, Step(t, d, t2, d2), NEW b \in Subs, NEW s \in Services,
           NEW i \in Nat \ {0}, Subscribe4(t, d, b, s, i)
    PROVE  Safe(t, d) /\ Reached(t2, d2)
<1>1. /\ Starts(t, Notify(b, s)) /\ NotifyTail(Tail(t), b, i)
      /\ Good(d, {}, {}) /\ b \in d.heap /\ s \in d.heap
  BY DEF Subscribe4
<1>2. t2 = Tail(t) /\ d2 = d
  BY <1>1 DEF Step, DoesNotify
<1>3. Safe(t, d)
  BY <1>1, SafeService
<1>4. Subscribe3(t2, d2, b, i)
  BY <1>1, <1>2 DEF Subscribe3
<1>. QED  BY <1>3, <1>4 DEF Reached, Point, SubPoint

LEMMA Unsubscribe1Step ==
    ASSUME NEW t, NEW d, NEW t2, NEW d2, Step(t, d, t2, d2), NEW c \in Clients,
           NEW b \in Subs, NEW k \in Conns, Unsubscribe1(t, d, c, b, k)
    PROVE  Safe(t, d) /\ Reached(t2, d2)
<1>. DEFINE P == {<<Db, "subs">>, <<k, "subs">>}
            e == Dropped(Taken(d, k, "subs", b), b)
<1>1. /\ Starts(t, Del(k, "subs", b, c)) /\ Only(Tail(t), Del(Db, "subs", b, c))
      /\ Good(d, {}, {}) /\ c \in d.heap /\ k \in d.connected /\ Held(d, b, 2, P)
  BY DEF Unsubscribe1
<1>2. /\ TypeOK(d) /\ b \in Kind("subs") /\ k \in Hosts /\ "subs" \in Maps /\ k # Db /\ 2 >= 2
      /\ <<k, "subs">> \in P /\ P \ {<<k, "subs">>} = {<<Db, "subs">>} /\ k # Nil
  BY <1>1, GoodType, Kinds, MapNames, DistinctConstants
<1>3. k \in d.heap
  <2>1. PICK v \in Clients : d.active[v] = k
    BY <1>1 DEF Good, Linked
  <2>. QED  BY <1>1, <1>2, <2>1, ActiveOwn
<1>. HIDE DEF P
<1>4. Touches(d, e, b) /\ e.heap = d.heap /\ Held(e, b, 2 - 1, P \ {<<k, "subs">>})
  BY <1>1, <1>2, TakeDropHeld
<1>. HIDE DEF e
<1>5. Held(e, b, 1, {<<Db, "subs">>})
  BY <1>2, <1>4 DEF Held
<1>6. Good(e, {}, {b})
  BY <1>1, <1>4, GoodStep
<1>7. Unsubscribe2(Tail(t), e, c, b)
  BY <1>1, <1>4, <1>5, <1>6 DEF Unsubscribe2
<1>8. Point(Tail(t), Dropped(Taken(d, k, "subs", b), b))
  BY <1>7 DEF Point, SubPoint, e
<1>. QED  BY <1>1, <1>2, <1>3, <1>8, DelStep

LEMMA Unsubscribe2Step ==
    ASSUME NEW t, NEW d, NEW t2, NEW d2, Step(t, d, t2, d2), NEW c \in Clients,
           NEW b \in Subs, Unsubscribe2(t, d, c, b)
    PROVE  Safe(t, d) /\ Reached(t2, d2)
<1>. DEFINE P == {<<Db, "subs">>}
            e == Freed(Taken(d, Db, "subs", b), b)
<1>1. /\ Starts(t, Del(Db, "subs", b, c)) /\ Tail(t) = <<>>
      /\ Good(d, {}, {b}) /\ c \in d.heap /\ Held(d, b, 1, P)
  BY DEF Unsubscribe2, Only
<1>2. /\ TypeOK(d) /\ Db \in d.heap /\ b \in Kind("subs") /\ Db \in Hosts /\ "subs" \in Maps
      /\ <<Db, "subs">> \in P /\ b \notin Clients /\ b \in Services \cup Subs
  BY <1>1, GoodType, Kinds, MapNames, DistinctConstants
<1>3. Touches(d, e, b) /\ Gone(e, b)
  BY <1>1, <1>2, TakeFreeHeld
<1>. HIDE DEF e
<1>4. Good(e, {}, {})
  BY <1>1, <1>2, <1>3, OKGone, GoodStep
<1>5. Point(Tail(t), Freed(Taken(d, Db, "subs", b), b))
  BY <1>1, <1>4, IdleReached DEF e
<1>. HIDE DEF P
<1>. QED  BY <1>1, <1>2, <1>5, DelLastStep

-----------------------------------------------------------------------------
(* The subscriptions are told about a service.                              *)

LEMMA ToldGood ==
    ASSUME NEW t, NEW d, NEW s \in Services, Told(t, d, s)
    PROVE  s \in d.heap /\ \E L, X : Good(d, L, X) /\ X \cap Subs = {}
<1>1. PICK c \in Clients :
         \/ \E k \in Conns, i \in Nat : Orphan3(t, d, c, k, i, s)
         \/ \E k \in Conns : Publish2(t, d, c, s, k) \/ Commit2(t, d, c, s, k)
         \/ Removal9(t, d, c, s)
  BY DEF Told
<1>2. {s} \cap Subs = {} /\ {s, c} \cap Subs = {}
  BY DistinctConstants
<1>. DEFINE Found == s \in d.heap /\ \E L, X : Good(d, L, X) /\ X \cap Subs = {}
<1>3. ASSUME NEW k \in Conns, NEW i \in Nat, Orphan3(t, d, c, k, i, s)
      PROVE  Found
  <2>1. Good(d, {<<c, k>>}, {s}) /\ s \in d.heap
    BY <1>3 DEF Orphan3, ServicesLeaving, Held
  <2>. QED  BY <1>2, <2>1
<1>4. ASSUME NEW k \in Conns, Publish2(t, d, c, s, k)
      PROVE  Found
  <2>1. Good(d, {}, {s}) /\ s \in d.heap
    BY <1>4 DEF Publish2, NewService, Held
  <2>. QED  BY <1>2, <2>1
<1>5. ASSUME NEW k \in Conns, Commit2(t, d, c, s, k)
      PROVE  Found
  <2>1. Good(d, {}, {s}) /\ s \in d.heap
    BY <1>5 DEF Commit2, HeldService, Held
  <2>. QED  BY <1>2, <2>1
<1>6. ASSUME Removal9(t, d, c, s)
      PROVE  Found
  <2>1. Good(d, {}, {s, c}) /\ s \in d.heap
    BY <1>6 DEF Removal9, HeldService, Held
  <2>. QED  BY <1>2, <2>1
<1>. HIDE DEF Found
<1>7. Found
  BY <1>1, <1>3, <1>4, <1>5, <1>6
<1>. QED  BY <1>7 DEF Found

LEMMA TellingStep ==
    ASSUME NEW t, NEW d, NEW t2, NEW d2, Step(t, d, t2, d2), Telling(t, d)
    PROVE  Safe(t, d) /\ Reached(t2, d2)
<1>1. PICK s \in Services, i \in Nat \ {0} :
         \/ ToldFrom(t, d, s, i)
         \/ \E b \in Subs : b \in d.heap /\ Starts(t, Notify(b, s)) /\ ToldFrom(Tail(t), d, s, i)
  BY DEF Telling
<1>2. CASE ToldFrom(t, d, s, i)
  <2>. DEFINE q == d.map[Db]["subs"]
  <2>1. /\ Starts(t, Foreach(Db, "subs", i, "notify_sub_service_changed", s))
        /\ Told(Tail(t), d, s)
    BY <1>2 DEF ToldFrom
  <2>2. s \in d.heap /\ \E L, X : Good(d, L, X) /\ X \cap Subs = {}
    BY <2>1, ToldGood
  <2>3. PICK L, X : Good(d, L, X) /\ X \cap Subs = {}
    BY <2>2
  <2>4. TypeOK(d) /\ Db \in d.heap /\ Db \in Hosts /\ "subs" \in Maps
    BY <2>3, GoodType, MapNames
  <2>5. Safe(t, d)
    BY <2>1, <2>2, <2>4, SafeList
  <2>6. CASE ~(i <= Len(q))
    <3>1. t2 = Tail(t) /\ d2 = d
      BY <2>1, <2>6 DEF Step, DoesForeach, Callbacks
    <3>. QED  BY <2>1, <2>5, <3>1 DEF Reached, Point
  <2>7. CASE i <= Len(q)
    <3>. DEFINE b == q[i]
    <3>1. /\ d2 = d /\ Starts(t2, Called(d, "notify_sub_service_changed", b, s))
          /\ Next2(t, Tail(t2), Foreach(Db, "subs", i + 1, "notify_sub_service_changed", s))
      BY <2>1, <2>7 DEF Step, DoesForeach, Callbacks
    <3>2. q \in Seq(Kind("subs"))
      BY <2>4, ListOK
    <3>3. i \in DOMAIN q
      BY <2>7, <3>2
    <3>4. b \in Subs /\ <<Db, "subs">> \in Places(d.map, b)
      BY <2>4, <3>3, ListMember, Kinds
    <3>. HIDE DEF b
    <3>5. b \in d.heap
      BY <2>3, <3>4, SubAt DEF Held
    <3>8. Starts(t2, Notify(b, s)) /\ i + 1 \in Nat \ {0}
      BY <3>1 DEF Called
    <3>9. ToldFrom(Tail(t2), d2, s, i + 1)
      BY <2>1, <3>1 DEF Next2, ToldFrom
    <3>6. Starts(t2, Notify(b, s)) /\ ToldFrom(Tail(t2), d2, s, i + 1) /\ i + 1 \in Nat \ {0}
      BY <3>8, <3>9
    <3>7. Telling(t2, d2)
      BY <3>1, <3>4, <3>5, <3>6 DEF Telling
    <3>. QED  BY <2>5, <3>7 DEF Reached
  <2>. QED  BY <2>6, <2>7
<1>3. ASSUME NEW b \in Subs, b \in d.heap, Starts(t, Notify(b, s)), ToldFrom(Tail(t), d, s, i)
      PROVE  Safe(t, d) /\ Reached(t2, d2)
  <2>1. t2 = Tail(t) /\ d2 = d
    BY <1>3 DEF Step, DoesNotify
  <2>2. s \in d.heap
    BY <1>3, ToldGood DEF ToldFrom
  <2>3. Safe(t, d)
    BY <1>3, <2>2, SafeService
  <2>4. Telling(t2, d2)
    BY <1>3, <2>1 DEF Telling
  <2>. QED  BY <2>3, <2>4 DEF Reached
<1>. QED  BY <1>1, <1>2, <1>3
=============================================================================
