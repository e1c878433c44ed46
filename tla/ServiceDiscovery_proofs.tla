----------------------- MODULE ServiceDiscovery_proofs -----------------------
(***************************************************************************)
(* Proofs about ServiceDiscovery, for every set of clients, services,      *)
(* subscriptions and connections, every horizon and every set of           *)
(* generations, properties, filters and times to live.                     *)
(***************************************************************************)
EXTENDS ServiceDiscovery, TLAPS

-----------------------------------------------------------------------------
(* The inductive invariant, with the services maps h, the services S, the  *)
(* timers t and the views v as parameters: client_unpublish() commits an   *)
(* adoption and then a removal, and the invariant holds between the two.   *)

DataType(h, S, t, v) ==
    /\ h \in [Conns -> SUBSET Services]
    /\ S \in [Services -> ServiceRec \cup {Nil}]
    /\ t \in [Services -> Nat \cup {Nil}]
    /\ v \in [SubIds -> [Services -> ViewEntry]]

HeldOnce(h, S) ==
    \A s \in Services :
        /\ S[s] # Nil => \E k \in client_conns(S[s].client_id) : s \in h[k]
        /\ \A k \in Conns : s \in h[k] => S[s] # Nil
        /\ \A k, l \in Conns : s \in h[k] /\ s \in h[l] => k = l

NoActiveOrphans(h, S) ==
    \A c \in Clients : client_is_connected(c) =>
        \A s \in h[active[c]] : ~service_is_orphan(S[s])

Armed(S, t) ==
    \A s \in Services :
        t[s] = IF service_is_orphan(S[s])
               THEN S[s].orphan_since + S[s].ttl ELSE Nil

\* A view entry is right for a subscription with filter f and a service r.
Exact(e, f, r) ==
    IF matches(f, r) THEN e = [state |-> "present", data |-> r]
    ELSE e.state \notin {"present", "garbled"}

Views(S, B, v) ==
    \A b \in SubIds, s \in Services :
        IF B[b] # Nil THEN Exact(v[b][s], B[b].filter, S[s])
        ELSE v[b][s] = Seen("unseen")

FreeEmpty(h) == \A k \in FreeConns : h[k] = {}

Data(h, S, t, v) ==
    /\ DataType(h, S, t, v)
    /\ HeldOnce(h, S)
    /\ NoActiveOrphans(h, S)
    /\ Armed(S, t)
    /\ Views(S, sub, v)
    /\ FreeEmpty(h)

\* The conns by themselves: types, and no conn with two owners or two roles.
ConnType ==
    /\ known \in SUBSET Clients
    /\ active \in [Clients -> Conns \cup {Nil}]
    /\ inactive \in [Clients -> SUBSET Conns]
    /\ subs \in [Conns -> SUBSET SubIds]
    /\ sub \in [SubIds -> SubRec \cup {Nil}]
    /\ now \in 0..MaxTime
    /\ rc \in ReturnCodes
    /\ aborted \in BOOLEAN

ConnsApart ==
    /\ \A c \in Clients : /\ active[c] \notin inactive[c]
                          /\ c \in known <=> client_conns(c) # {}
    /\ \A c, d \in Clients : c # d => client_conns(c) \cap client_conns(d) = {}

IInv ==
    /\ ConnType
    /\ ConnsApart
    /\ SubsOfActiveConns
    /\ Data(held, service, timer, view)

-----------------------------------------------------------------------------
(* What the helpers of the specification return.                           *)

\* A notification keeps a subscriber's entry right when it was right before.
LEMMA NotifyExact ==
    ASSUME NEW e \in ViewEntry, NEW f,
           NEW before \in ServiceRec \cup {Nil},
           NEW after \in ServiceRec \cup {Nil},
           Exact(e, f, before)
    PROVE  /\ Exact(sub_notify(e, f, before, after), f, after)
           /\ sub_notify(e, f, before, after) \in ViewEntry
<1>1. CASE ~matches(f, before) /\ ~matches(f, after)
  <2>1. match_type(f, before, after) = "none"
    BY <1>1 DEF match_type
  <2>2. sub_notify(e, f, before, after) = e
    BY <2>1 DEF sub_notify, Replay
  <2>. QED  BY <2>2, <1>1 DEF Exact
<1>2. CASE matches(f, before) /\ matches(f, after)
  <2>1. match_type(f, before, after) = "modified"
    BY <1>2 DEF match_type
  <2>2. sub_notify(e, f, before, after) = [state |-> "present", data |-> after]
    BY <2>1, <1>2 DEF sub_notify, Replay, Exact
  <2>. QED  BY <2>2, <1>2 DEF Exact, ViewEntry, ViewState
<1>3. CASE ~matches(f, before) /\ matches(f, after)
  <2>1. match_type(f, before, after) = "appeared"
    BY <1>3 DEF match_type
  <2>2. sub_notify(e, f, before, after) = [state |-> "present", data |-> after]
    BY <2>1, <1>3 DEF sub_notify, Replay, Exact
  <2>. QED  BY <2>2, <1>3 DEF Exact, ViewEntry, ViewState
<1>4. CASE matches(f, before) /\ ~matches(f, after)
  <2>1. match_type(f, before, after) = "disappeared"
    BY <1>4 DEF match_type
  <2>2. \E st \in {"expired", "unpublished"} :
            sub_notify(e, f, before, after) = Seen(st)
    BY <2>1, <1>4 DEF sub_notify, Replay, Exact
  <2>. QED  BY <2>2, <1>4 DEF Exact, ViewEntry, ViewState, Seen
<1>. QED  BY <1>1, <1>2, <1>3, <1>4

\* The views stay right when the services in T change from S to R.
LEMMA NotifySubsExact ==
    ASSUME NEW S \in [Services -> ServiceRec \cup {Nil}],
           NEW R \in [Services -> ServiceRec \cup {Nil}],
           NEW B \in [SubIds -> SubRec \cup {Nil}],
           NEW v \in [SubIds -> [Services -> ViewEntry]],
           NEW T \in SUBSET Services,
           \A s \in Services \ T : R[s] = S[s],
           Views(S, B, v)
    PROVE  /\ Views(R, B, notify_subs(v, B, T, S, R))
           /\ notify_subs(v, B, T, S, R) \in [SubIds -> [Services -> ViewEntry]]
<1>. DEFINE w == notify_subs(v, B, T, S, R)
<1>1. \A b \in SubIds, s \in Services :
         /\ w[b][s] \in ViewEntry
         /\ IF B[b] # Nil THEN Exact(w[b][s], B[b].filter, R[s])
            ELSE w[b][s] = Seen("unseen")
  <2>. SUFFICES ASSUME NEW b \in SubIds, NEW s \in Services
       PROVE  /\ w[b][s] \in ViewEntry
              /\ IF B[b] # Nil THEN Exact(w[b][s], B[b].filter, R[s])
                 ELSE w[b][s] = Seen("unseen")
    OBVIOUS
  <2>0. v[b][s] \in ViewEntry /\ S[s] \in ServiceRec \cup {Nil}
           /\ R[s] \in ServiceRec \cup {Nil}
    OBVIOUS
  <2>1. CASE B[b] = Nil
    BY <2>0, <2>1 DEF notify_subs, Views
  <2>2. CASE B[b] # Nil /\ s \notin T
    BY <2>0, <2>2 DEF notify_subs, Views
  <2>3. CASE B[b] # Nil /\ s \in T
    <3>1. w[b][s] = sub_notify(v[b][s], B[b].filter, S[s], R[s])
      BY <2>3 DEF notify_subs
    <3>2. Exact(v[b][s], B[b].filter, S[s])
      BY <2>3 DEF Views
    <3>. QED  BY <3>1, <3>2, <2>0, <2>3, NotifyExact
  <2>. QED  BY <2>1, <2>2, <2>3
<1>2. w \in [SubIds -> [Services -> ViewEntry]]
  <2>1. \A b \in SubIds : w[b] \in [Services -> ViewEntry]
    <3>. SUFFICES ASSUME NEW b \in SubIds PROVE w[b] \in [Services -> ViewEntry]
      OBVIOUS
    <3>1. CASE B[b] = Nil
      BY <3>1 DEF notify_subs
    <3>2. CASE B[b] # Nil
      <4>1. w[b] = [s \in Services |->
                IF s \in T THEN sub_notify(v[b][s], B[b].filter, S[s], R[s])
                ELSE v[b][s]]
        BY <3>2 DEF notify_subs
      <4>2. w[b] = [s \in Services |-> w[b][s]]
        BY <4>1
      <4>. QED  BY <1>1, <4>2
    <3>. QED  BY <3>1, <3>2
  <2>2. w = [b \in SubIds |-> w[b]]
    BY DEF notify_subs
  <2>. QED  BY <2>1, <2>2
<1>. QED  BY <1>1, <1>2 DEF Views

\* The timers stay armed when the services in T change from S to R, and those
\* among them that are orphans now became so at this moment.
LEMMA MaintainArmed ==
    ASSUME NEW S \in [Services -> ServiceRec \cup {Nil}],
           NEW R \in [Services -> ServiceRec \cup {Nil}],
           NEW t \in [Services -> Nat \cup {Nil}],
           NEW T \in SUBSET Services,
           now \in Nat,
           \A s \in Services \ T : R[s] = S[s],
           \A s \in T : service_is_orphan(R[s]) => R[s].orphan_since = now,
           Armed(S, t)
    PROVE  /\ Armed(R, maintain_orphans(t, T, S, R))
           /\ maintain_orphans(t, T, S, R) \in [Services -> Nat \cup {Nil}]
<1>. DEFINE u == maintain_orphans(t, T, S, R)
<1>1. \A s \in Services :
         /\ u[s] = IF service_is_orphan(R[s]) THEN R[s].orphan_since + R[s].ttl ELSE Nil
         /\ u[s] \in Nat \cup {Nil}
  <2>. SUFFICES ASSUME NEW s \in Services
       PROVE  /\ u[s] = IF service_is_orphan(R[s])
                        THEN R[s].orphan_since + R[s].ttl ELSE Nil
              /\ u[s] \in Nat \cup {Nil}
    OBVIOUS
  <2>1. CASE s \notin T
    BY <2>1 DEF maintain_orphans, Armed
  <2>2. CASE s \in T /\ service_is_orphan(R[s])
    <3>1. R[s] \in ServiceRec /\ R[s].orphan_since = now
      BY <2>2 DEF service_is_orphan
    <3>2. R[s].ttl \in Nat
      BY <3>1, NumbersAssumption DEF ServiceRec
    <3>3. service_orphan_time_left(R[s]) = R[s].ttl
      BY <3>1, <3>2 DEF service_orphan_time_left
    <3>. QED  BY <2>2, <3>1, <3>2, <3>3 DEF maintain_orphans
  <2>3. CASE s \in T /\ ~service_is_orphan(R[s])
    BY <2>3 DEF maintain_orphans, Armed
  <2>. QED  BY <2>1, <2>2, <2>3
<1>2. u = [s \in Services |-> u[s]]
  BY DEF maintain_orphans
<1>. QED  BY <1>1, <1>2 DEF Armed

\* Setting when a service was orphaned gives a service of the same owner.
LEMMA OrphanedRec ==
    ASSUME NEW r \in ServiceRec, NEW n \in Int
    PROVE  /\ [r EXCEPT !.orphan_since = n] \in ServiceRec
           /\ [r EXCEPT !.orphan_since = n].orphan_since = n
           /\ [r EXCEPT !.orphan_since = n].client_id = r.client_id
<1>1. r = [generation |-> r.generation, props |-> r.props, ttl |-> r.ttl,
           orphan_since |-> r.orphan_since, client_id |-> r.client_id]
  BY DEF ServiceRec
<1>2. [r EXCEPT !.orphan_since = n] =
          [generation |-> r.generation, props |-> r.props, ttl |-> r.ttl,
           orphan_since |-> n, client_id |-> r.client_id]
  BY <1>1
<1>. QED  BY <1>2 DEF ServiceRec

\* Adopting a service gives a service of the adopting client with the same
\* data: what that client publishes when it publishes the same data.
LEMMA AdoptedRec ==
    ASSUME NEW r \in ServiceRec, NEW c \in Clients
    PROVE  /\ Adopted(c, r) = Published(c, r.generation, r.props, r.ttl)
           /\ Adopted(c, r) \in ServiceRec
           /\ Adopted(c, r).orphan_since = -1
           /\ Adopted(c, r).client_id = c
<1>1. r = [generation |-> r.generation, props |-> r.props, ttl |-> r.ttl,
           orphan_since |-> r.orphan_since, client_id |-> r.client_id]
  BY DEF ServiceRec
<1>2. Adopted(c, r) = [r EXCEPT !.orphan_since = -1, !.client_id = c]
  BY DEF Adopted
<1>3. Adopted(c, r) =
          [generation |-> r.generation, props |-> r.props, ttl |-> r.ttl,
           orphan_since |-> -1, client_id |-> c]
  BY <1>1, <1>2
<1>. QED  BY <1>3 DEF ServiceRec, Published

\* The conns of a client are conns, and so are those of a service's owner.
LEMMA ClientConns ==
    ASSUME ConnType
    PROVE  /\ \A c \in Clients : client_conns(c) \subseteq Conns
           /\ \A r \in ServiceRec : client_conns(r.client_id) \subseteq Conns
BY NilAssumption DEF client_conns, ConnType, ServiceRec

-----------------------------------------------------------------------------
(* One lemma per kind of change to the services.                           *)

\* client_publish(), and the implied republish of client_unpublish(): service
\* s becomes r, owned by the connected client c and not an orphan.
LEMMA CommitOwned ==
    ASSUME ConnType, ConnsApart, Data(held, service, timer, view),
           NEW c \in Clients, NEW s \in Services, NEW r \in ServiceRec, NEW h,
           client_is_connected(c), r.client_id = c, r.orphan_since = -1,
           \/ service[s] = Nil /\ h = conn_add_service(held, active[c], s)
           \/ service[s] # Nil /\ h = TakenOver(c, s)
    PROVE  LET R == [service EXCEPT ![s] = r]
           IN  Data(h, R, maintain_orphans(timer, {s}, service, R),
                    notify_subs(view, sub, {s}, service, R))
<1>. DEFINE R == [service EXCEPT ![s] = r]
            t == maintain_orphans(timer, {s}, service, R)
            v == notify_subs(view, sub, {s}, service, R)
            a == active[c]
<1>1. /\ R \in [Services -> ServiceRec \cup {Nil}]
      /\ R[s] = r
      /\ \A q \in Services \ {s} : R[q] = service[q]
      /\ ~service_is_orphan(r)
  BY DEF Data, DataType, service_is_orphan
<1>0. /\ service \in [Services -> ServiceRec \cup {Nil}]
      /\ timer \in [Services -> Nat \cup {Nil}]
      /\ view \in [SubIds -> [Services -> ViewEntry]]
      /\ sub \in [SubIds -> SubRec \cup {Nil}]
      /\ now \in Nat
      /\ {s} \in SUBSET Services
      /\ Armed(service, timer)
      /\ Views(service, sub, view)
  BY NumbersAssumption DEF Data, DataType, ConnType
<1>. HIDE DEF R
<1>2. Armed(R, t) /\ t \in [Services -> Nat \cup {Nil}]
  <2>1. \A q \in {s} : service_is_orphan(R[q]) => R[q].orphan_since = now
    BY <1>1
  <2>. QED  BY <1>0, <1>1, <2>1, MaintainArmed
<1>3. Views(R, sub, v) /\ v \in [SubIds -> [Services -> ViewEntry]]
  BY <1>0, <1>1, NotifySubsExact
<1>4. a \in Conns /\ a \in client_conns(c) /\ r # Nil
  BY NilAssumption DEF ConnType, client_is_connected, client_conns
<1>5. /\ h \in [Conns -> SUBSET Services]
      /\ \A k \in Conns, q \in Services \ {s} : q \in h[k] <=> q \in held[k]
      /\ \E k \in client_conns(c) : s \in h[k]
      /\ \A k, l \in Conns : s \in h[k] /\ s \in h[l] => k = l
      /\ \A k \in Conns : s \in h[k] => s \in held[k] \/ k = a
  <2>1. CASE service[s] = Nil /\ h = conn_add_service(held, a, s)
    <3>1. \A k \in Conns : s \notin held[k]
      BY <2>1 DEF Data, HeldOnce
    <3>. QED  BY <2>1, <3>1, <1>4 DEF Data, DataType, conn_add_service
  <2>2. CASE service[s] # Nil /\ h = TakenOver(c, s) /\ service[s].client_id = c
    BY <2>2 DEF Data, DataType, HeldOnce, TakenOver
  <2>3. CASE service[s] # Nil /\ h = TakenOver(c, s) /\ service[s].client_id # c
    <3>. DEFINE o == service[s].client_id
                K == get_service_conn(held, o, s)
                g == conn_del_service(held, K, s)
    <3>1. h = conn_add_service(g, a, s)
      BY <2>3 DEF TakenOver, capture_service
    <3>2. g \in [Conns -> SUBSET Services]
      BY DEF conn_del_service, Data, DataType
    <3>3. \A k \in Conns : s \in held[k] => k \in K
      <4>1. client_conns(o) \subseteq Conns
        BY <1>0, <2>3, ClientConns
      <4>. QED  BY <4>1, <2>3 DEF Data, HeldOnce, get_service_conn
    <3>4. \A k \in Conns : s \notin g[k]
      BY <3>3 DEF conn_del_service, Data, DataType
    <3>5. \A k \in Conns, q \in Services \ {s} : q \in g[k] <=> q \in held[k]
      BY DEF conn_del_service, Data, DataType
    <3>. HIDE DEF g
    <3>6. /\ h \in [Conns -> SUBSET Services]
          /\ h[a] = g[a] \cup {s}
          /\ \A k \in Conns \ {a} : h[k] = g[k]
      BY <3>1, <3>2, <1>4 DEF conn_add_service
    <3>. QED  BY <3>6, <3>4, <3>5, <1>4
  <2>. QED  BY <2>1, <2>2, <2>3
<1>6. HeldOnce(h, R)
  <2>. SUFFICES ASSUME NEW q \in Services
       PROVE  /\ R[q] # Nil => \E k \in client_conns(R[q].client_id) : q \in h[k]
              /\ \A k \in Conns : q \in h[k] => R[q] # Nil
              /\ \A k, l \in Conns : q \in h[k] /\ q \in h[l] => k = l
    BY DEF HeldOnce
  <2>1. CASE q = s
    BY <2>1, <1>1, <1>4, <1>5
  <2>2. CASE q # s
    <3>1. /\ service[q] # Nil =>
              \E k \in client_conns(service[q].client_id) : q \in held[k]
          /\ \A k \in Conns : q \in held[k] => service[q] # Nil
          /\ \A k, l \in Conns : q \in held[k] /\ q \in held[l] => k = l
      BY DEF Data, HeldOnce
    <3>2. R[q] = service[q] /\ \A k \in Conns : q \in h[k] <=> q \in held[k]
      BY <2>2, <1>1, <1>5
    <3>3. service[q] # Nil => client_conns(service[q].client_id) \subseteq Conns
      BY <1>0, ClientConns
    <3>. QED  BY <3>1, <3>2, <3>3
  <2>. QED  BY <2>1, <2>2
<1>7. NoActiveOrphans(h, R)
  <2>. SUFFICES ASSUME NEW d \in Clients, client_is_connected(d), NEW q \in h[active[d]]
       PROVE  ~service_is_orphan(R[q])
    BY DEF NoActiveOrphans
  <2>1. active[d] \in Conns /\ q \in Services
    BY <1>5 DEF ConnType, client_is_connected
  <2>. QED  BY <2>1, <1>1, <1>5 DEF NoActiveOrphans, Data
<1>8. FreeEmpty(h)
  <2>. SUFFICES ASSUME NEW k \in FreeConns PROVE h[k] = {}
    BY DEF FreeEmpty
  <2>1. k \in Conns /\ k # a /\ held[k] = {}
    BY <1>4 DEF FreeConns, FreeEmpty, Data
  <2>. QED  BY <2>1, <1>5
<1>. QED  BY <1>2, <1>3, <1>1, <1>5, <1>6, <1>7, <1>8 DEF Data, DataType, R

\* remove_service(): service s, with the attributes r and owned by client c,
\* leaves the database, and with it the conn and the client it leaves empty.
LEMMA RemoveService ==
    ASSUME ConnType, ConnsApart, SubsOfActiveConns,
           service \in [Services -> ServiceRec \cup {Nil}],
           NEW c \in Clients, NEW s \in Services, NEW r \in ServiceRec,
           NEW h, NEW t, NEW v, r.client_id = c,
           Data(h, [service EXCEPT ![s] = r], t, v),
           remove_service(c, s, h, r, t, v),
           rc' \in ReturnCodes,
           UNCHANGED <<active, subs, sub, now, aborted>>
    PROVE  IInv'
<1>. DEFINE S == [service EXCEPT ![s] = r]
            R == [service EXCEPT ![s] = Nil]
            K == get_service_conn(h, c, s)
            H == conn_del_service(h, K, s)
            I == {k \in inactive[c] : ~(k \in K /\ conn_is_stale(H, k))}
            gone == client_is_stale(H, active[c], I)
<1>1. /\ held' = H
      /\ inactive' = [inactive EXCEPT ![c] = IF gone THEN {} ELSE I]
      /\ known' = IF gone THEN known \ {c} ELSE known
      /\ service' = R
      /\ timer' = maintain_orphans(t, {s}, S, R)
      /\ view' = notify_subs(v, sub, {s}, S, R)
  BY DEF remove_service
<1>2. /\ S \in [Services -> ServiceRec \cup {Nil}]
      /\ R \in [Services -> ServiceRec \cup {Nil}]
      /\ S[s] = r /\ R[s] = Nil /\ r # Nil
      /\ \A q \in Services \ {s} : R[q] = S[q]
      /\ {s} \in SUBSET Services
  BY NilAssumption
<1>3. Data(h, S, t, v)
  OBVIOUS
<1>. HIDE DEF S, R
<1>4. /\ t \in [Services -> Nat \cup {Nil}] /\ Armed(S, t)
      /\ v \in [SubIds -> [Services -> ViewEntry]] /\ Views(S, sub, v)
      /\ h \in [Conns -> SUBSET Services] /\ HeldOnce(h, S)
      /\ NoActiveOrphans(h, S) /\ FreeEmpty(h)
      /\ now \in Nat
      /\ sub \in [SubIds -> SubRec \cup {Nil}]
  BY <1>3, NumbersAssumption DEF Data, DataType, ConnType
<1>5. Armed(R, timer') /\ timer' \in [Services -> Nat \cup {Nil}]
  <2>1. \A q \in {s} : service_is_orphan(R[q]) => R[q].orphan_since = now
    BY <1>2 DEF service_is_orphan
  <2>. QED  BY <1>1, <1>2, <1>4, <2>1, MaintainArmed
<1>6. Views(R, sub, view') /\ view' \in [SubIds -> [Services -> ViewEntry]]
  BY <1>1, <1>2, <1>4, NotifySubsExact
<1>7. /\ H \in [Conns -> SUBSET Services]
      /\ \A k \in Conns : s \notin H[k]
      /\ \A k \in Conns, q \in Services \ {s} : q \in H[k] <=> q \in h[k]
      /\ \E k \in client_conns(c) : s \in h[k]
  <2>1. client_conns(c) \subseteq Conns /\ \E k \in client_conns(c) : s \in h[k]
    BY <1>2, <1>4, ClientConns DEF HeldOnce
  <2>2. \A k \in Conns : s \in h[k] => k \in K
    BY <2>1, <1>4 DEF HeldOnce, get_service_conn
  <2>. QED  BY <2>1, <2>2, <1>4 DEF conn_del_service
<1>. HIDE DEF H
<1>8. /\ inactive' \in [Clients -> SUBSET Conns]
      /\ \A d \in Clients : client_conns(d)' \subseteq client_conns(d)
      /\ \A d \in Clients : \A k \in client_conns(d) \ client_conns(d)' : H[k] = {}
  <2>1. inactive' \in [Clients -> SUBSET Conns] /\ inactive'[c] \subseteq inactive[c]
    BY <1>1 DEF ConnType
  <2>2. \A k \in inactive[c] \ inactive'[c] : H[k] = {}
    BY <1>1 DEF ConnType, client_is_stale, conn_is_stale
  <2>3. \A d \in Clients \ {c} : inactive'[d] = inactive[d]
    BY <1>1 DEF ConnType
  <2>. QED  BY <2>1, <2>2, <2>3 DEF client_conns
<1>9. HeldOnce(held, service)'
  <2>1. ASSUME NEW q \in Services, NEW o \in Clients, R[q] # Nil, R[q].client_id = o
        PROVE  \E k \in client_conns(o)' : q \in H[k]
    <3>1. q # s /\ S[q] = R[q]
      BY <2>1, <1>2
    <3>2. PICK k \in client_conns(o) : q \in h[k]
      BY <2>1, <3>1, <1>4 DEF HeldOnce
    <3>3. q \in H[k]
      BY <3>1, <3>2, <1>7, ClientConns
    <3>. QED  BY <3>2, <3>3, <1>8
  <2>2. ASSUME NEW q \in Services
        PROVE  /\ \A k \in Conns : q \in H[k] => R[q] # Nil
               /\ \A k, l \in Conns : q \in H[k] /\ q \in H[l] => k = l
    BY <1>2, <1>4, <1>7 DEF HeldOnce
  <2>3. ASSUME NEW q \in Services, R[q] # Nil PROVE R[q].client_id \in Clients
    BY <1>2, <2>3 DEF ServiceRec
  <2>. QED  BY <1>1, <2>1, <2>2, <2>3 DEF HeldOnce, client_conns
<1>10. NoActiveOrphans(held, service)'
  <2>. SUFFICES ASSUME NEW d \in Clients, active[d] # Nil, NEW q \in H[active[d]]
       PROVE  ~service_is_orphan(R[q])
    BY <1>1 DEF NoActiveOrphans, client_is_connected, service_is_orphan
  <2>1. active[d] \in Conns /\ q \in Services /\ q # s
    BY <1>7 DEF ConnType
  <2>. QED  BY <2>1, <1>2, <1>4, <1>7 DEF NoActiveOrphans, client_is_connected
<1>11. FreeEmpty(held)'
  <2>. SUFFICES ASSUME NEW k \in FreeConns' PROVE H[k] = {}
    BY <1>1 DEF FreeEmpty, FreeConns, client_conns
  <2>1. k \in Conns /\ \A d \in Clients : k \notin client_conns(d)'
    BY DEF FreeConns
  <2>2. CASE k \in FreeConns
    BY <2>2, <2>1, <1>4, <1>7 DEF FreeEmpty
  <2>3. CASE k \notin FreeConns
    BY <2>3, <2>1, <1>8 DEF FreeConns
  <2>. QED  BY <2>2, <2>3
<1>12. ConnsApart'
  <2>1. ASSUME NEW d \in Clients PROVE active'[d] \notin inactive'[d]
    BY <1>1 DEF ConnsApart, ConnType
  <2>2. ASSUME NEW d \in Clients \ {c} PROVE d \in known' <=> client_conns(d)' # {}
    BY <1>1 DEF ConnsApart, ConnType, client_conns
  <2>3. c \in known' <=> client_conns(c)' # {}
    <3>1. c \in known
      BY <1>7 DEF ConnsApart
    <3>2. CASE gone
      BY <3>2, <1>1 DEF ConnType, client_conns, client_is_stale
    <3>3. CASE ~gone
      BY <3>1, <3>3, <1>1 DEF ConnType, client_conns, client_is_stale
    <3>. QED  BY <3>2, <3>3
  <2>4. ASSUME NEW d \in Clients, NEW e \in Clients, d # e
        PROVE  client_conns(d)' \cap client_conns(e)' = {}
    BY <2>4, <1>8 DEF ConnsApart
  <2>. QED  BY <2>1, <2>2, <2>3, <2>4 DEF ConnsApart
<1>13. ConnType'
  BY <1>1, <1>8 DEF ConnType
<1>14. SubsOfActiveConns'
  BY DEF SubsOfActiveConns, client_is_connected
<1>15. Armed(service, timer)' /\ Views(service, sub, view)'
  BY <1>1, <1>5, <1>6 DEF Armed, Views, Exact, matches, service_is_orphan, Seen
<1>16. DataType(held, service, timer, view)'
  BY <1>1, <1>2, <1>5, <1>6, <1>7 DEF DataType
<1>. QED
  BY <1>9, <1>10, <1>11, <1>12, <1>13, <1>14, <1>15, <1>16 DEF IInv, Data

\* client_disconnect(): the subscriptions of the active conn go, its services
\* become orphans, and what is left empty is destroyed.
LEMMA Disconnect ==
    ASSUME IInv, NEW c \in Clients, client_disconnect(c)
    PROVE  IInv'
<1>. DEFINE k == active[c]
            T == held[k]
            I == IF conn_is_stale(held, k) THEN inactive[c] ELSE inactive[c] \cup {k}
            B == [b \in SubIds |-> IF b \in subs[k] THEN Nil ELSE sub[b]]
            V == [b \in SubIds |-> IF b \in subs[k] THEN Unseen ELSE view[b]]
            R == [s \in Services |->
                    IF s \in T THEN [service[s] EXCEPT !.orphan_since = now]
                    ELSE service[s]]
            gone == client_is_stale(held, Nil, I)
<1>1. /\ sub' = B
      /\ subs' = [subs EXCEPT ![k] = {}]
      /\ service' = R
      /\ timer' = maintain_orphans(timer, T, service, R)
      /\ view' = notify_subs(V, B, T, service, R)
      /\ active' = [active EXCEPT ![c] = Nil]
      /\ inactive' = [inactive EXCEPT ![c] = IF gone THEN {} ELSE I]
      /\ known' = IF gone THEN known \ {c} ELSE known
      /\ rc' = "OK"
      /\ UNCHANGED <<held, now, aborted>>
  BY DEF client_disconnect, Return
<1>2. /\ service \in [Services -> ServiceRec \cup {Nil}]
      /\ timer \in [Services -> Nat \cup {Nil}] /\ Armed(service, timer)
      /\ view \in [SubIds -> [Services -> ViewEntry]] /\ Views(service, sub, view)
      /\ held \in [Conns -> SUBSET Services] /\ HeldOnce(held, service)
      /\ NoActiveOrphans(held, service) /\ FreeEmpty(held)
      /\ now \in Nat
      /\ sub \in [SubIds -> SubRec \cup {Nil}]
      /\ ConnType /\ ConnsApart /\ SubsOfActiveConns
  BY NumbersAssumption DEF IInv, Data, DataType, ConnType
<1>3. k \in Conns /\ k # Nil /\ k \in client_conns(c) /\ T \in SUBSET Services
  BY <1>2 DEF client_disconnect, client_is_connected, ConnType, client_conns
<1>4. /\ R \in [Services -> ServiceRec \cup {Nil}]
      /\ \A s \in Services \ T : R[s] = service[s]
      /\ \A s \in T : /\ service[s] \in ServiceRec
                      /\ R[s] \in ServiceRec
                      /\ R[s].orphan_since = now
                      /\ R[s].client_id = service[s].client_id
  <2>1. \A s \in T : service[s] \in ServiceRec
    BY <1>2, <1>3 DEF HeldOnce
  <2>2. \A s \in T : [service[s] EXCEPT !.orphan_since = now] \in ServiceRec
    BY <1>2, <2>1, OrphanedRec
  <2>3. \A s \in T : /\ [service[s] EXCEPT !.orphan_since = now].orphan_since = now
                     /\ [service[s] EXCEPT !.orphan_since = now].client_id
                            = service[s].client_id
    BY <1>2, <2>1, OrphanedRec
  <2>. QED  BY <1>2, <1>3, <2>1, <2>2, <2>3
<1>5. /\ B \in [SubIds -> SubRec \cup {Nil}]
      /\ V \in [SubIds -> [Services -> ViewEntry]]
      /\ Views(service, B, V)
  <2>1. Unseen \in [Services -> ViewEntry]
    BY DEF Unseen, Seen, ViewEntry, ViewState
  <2>. QED  BY <1>2, <2>1 DEF Views, Unseen
<1>. HIDE DEF R, B, V
<1>6. Armed(R, timer') /\ timer' \in [Services -> Nat \cup {Nil}]
  <2>1. \A s \in T : service_is_orphan(R[s]) => R[s].orphan_since = now
    BY <1>4
  <2>. HIDE DEF T
  <2>. QED  BY <1>1, <1>2, <1>3, <1>4, <2>1, MaintainArmed
<1>7. Views(R, B, view') /\ view' \in [SubIds -> [Services -> ViewEntry]]
  <2>. HIDE DEF T
  <2>. QED  BY <1>1, <1>2, <1>3, <1>4, <1>5, NotifySubsExact
<1>8. /\ inactive' \in [Clients -> SUBSET Conns]
      /\ active' \in [Clients -> Conns \cup {Nil}]
      /\ \A d \in Clients : client_conns(d)' \subseteq client_conns(d)
      /\ \A d \in Clients : \A l \in client_conns(d) \ client_conns(d)' : held[l] = {}
  <2>1. /\ inactive' \in [Clients -> SUBSET Conns]
        /\ active' \in [Clients -> Conns \cup {Nil}]
    BY <1>1, <1>2, <1>3 DEF ConnType
  <2>2. client_conns(c)' = inactive'[c] /\ client_conns(c) = inactive[c] \cup {k}
    BY <1>1, <1>2, <1>3 DEF ConnType, client_conns
  <2>3. inactive'[c] \subseteq client_conns(c)
    BY <1>1, <1>2, <2>2 DEF ConnType
  <2>4. \A l \in client_conns(c) \ inactive'[c] : held[l] = {}
    BY <1>1, <1>2, <2>2 DEF ConnType, client_is_stale, conn_is_stale
  <2>5. \A d \in Clients \ {c} : client_conns(d)' = client_conns(d)
    BY <1>1, <1>2 DEF ConnType, client_conns
  <2>. QED  BY <2>1, <2>2, <2>3, <2>4, <2>5
<1>9. HeldOnce(held, service)'
  <2>1. \A q \in Services : /\ R[q] = Nil <=> service[q] = Nil
                            /\ service[q] # Nil => R[q].client_id = service[q].client_id
    <3>. SUFFICES ASSUME NEW q \in Services
         PROVE  /\ R[q] = Nil <=> service[q] = Nil
                /\ service[q] # Nil => R[q].client_id = service[q].client_id
      OBVIOUS
    <3>1. CASE q \in T
      BY <1>4, <3>1, NilAssumption
    <3>2. CASE q \notin T
      BY <1>4, <3>2
    <3>. QED  BY <3>1, <3>2
  <2>2. ASSUME NEW q \in Services, NEW o \in Clients, R[q] # Nil, R[q].client_id = o
        PROVE  \E l \in client_conns(o)' : q \in held[l]
    <3>1. PICK l \in client_conns(o) : q \in held[l]
      BY <2>1, <2>2, <1>2 DEF HeldOnce
    <3>. QED  BY <3>1, <1>8
  <2>3. ASSUME NEW q \in Services
        PROVE  /\ \A l \in Conns : q \in held[l] => R[q] # Nil
               /\ \A l, m \in Conns : q \in held[l] /\ q \in held[m] => l = m
    BY <1>2, <2>1 DEF HeldOnce
  <2>4. ASSUME NEW q \in Services, R[q] # Nil PROVE R[q].client_id \in Clients
    BY <1>4, <2>4 DEF ServiceRec
  <2>5. ASSUME NEW q \in Services, service'[q] # Nil
        PROVE  \E l \in client_conns(service[q].client_id)' : q \in held'[l]
    <3>1. R[q] # Nil /\ R[q].client_id \in Clients
      BY <1>1, <2>4, <2>5
    <3>2. PICK o \in Clients : o = R[q].client_id
      BY <3>1
    <3>3. PICK l \in client_conns(o)' : q \in held[l]
      BY <2>2, <3>1, <3>2
    <3>. QED  BY <1>1, <3>2, <3>3 DEF client_conns
  <2>. QED  BY <1>1, <2>3, <2>5 DEF HeldOnce
<1>10. \A d \in Clients \ {c} : active[d] # k
  BY <1>2, <1>3 DEF ConnsApart, client_conns
<1>11. NoActiveOrphans(held, service)'
  <2>. SUFFICES ASSUME NEW d \in Clients, active'[d] # Nil, NEW q \in held[active'[d]]
       PROVE  ~service_is_orphan(R[q])
    BY <1>1 DEF NoActiveOrphans, client_is_connected, service_is_orphan
  <2>1. d # c /\ active'[d] = active[d] /\ active[d] \in Conns /\ q \in Services
    BY <1>1, <1>2 DEF ConnType
  <2>2. q \notin T
    BY <2>1, <1>2, <1>3, <1>10 DEF HeldOnce
  <2>. QED  BY <2>1, <2>2, <1>2, <1>4 DEF NoActiveOrphans, client_is_connected
<1>12. FreeEmpty(held)'
  <2>. SUFFICES ASSUME NEW l \in FreeConns' PROVE held[l] = {}
    BY <1>1 DEF FreeEmpty, FreeConns, client_conns
  <2>1. l \in Conns /\ \A d \in Clients : l \notin client_conns(d)'
    BY DEF FreeConns
  <2>. QED  BY <2>1, <1>2, <1>8 DEF FreeEmpty, FreeConns
<1>13. ConnsApart'
  <2>1. ASSUME NEW d \in Clients PROVE active'[d] \notin inactive'[d]
    BY <1>1, <1>2, <1>8, NilAssumption DEF ConnsApart, ConnType
  <2>2. ASSUME NEW d \in Clients \ {c} PROVE d \in known' <=> client_conns(d)' # {}
    BY <1>1, <1>2 DEF ConnsApart, ConnType, client_conns
  <2>3. c \in known' <=> client_conns(c)' # {}
    <3>1. c \in known
      BY <1>2, <1>3 DEF ConnsApart
    <3>2. CASE gone
      BY <3>2, <1>1, <1>2 DEF ConnType, client_conns
    <3>3. CASE ~gone
      BY <3>1, <3>3, <1>1, <1>2 DEF ConnType, client_conns, client_is_stale
    <3>. QED  BY <3>2, <3>3
  <2>4. ASSUME NEW d \in Clients, NEW e \in Clients, d # e
        PROVE  client_conns(d)' \cap client_conns(e)' = {}
    BY <2>4, <1>2, <1>8 DEF ConnsApart
  <2>. QED  BY <2>1, <2>2, <2>3, <2>4 DEF ConnsApart
<1>14. ConnType'
  BY <1>1, <1>2, <1>5, <1>8 DEF ConnType, ReturnCodes
<1>15. SubsOfActiveConns'
  <2>. SUFFICES ASSUME NEW b \in SubIds
       PROVE  /\ B[b] # Nil => /\ active'[B[b].client_id] # Nil
                               /\ b \in subs'[active'[B[b].client_id]]
              /\ \A l \in Conns : b \in subs'[l] =>
                    B[b] # Nil /\ l = active'[B[b].client_id]
    BY <1>1 DEF SubsOfActiveConns, client_is_connected
  <2>1. B[b] = IF b \in subs[k] THEN Nil ELSE sub[b]
    BY DEF B
  <2>2. /\ sub[b] # Nil => /\ sub[b].client_id \in Clients
                           /\ active[sub[b].client_id] # Nil
                           /\ b \in subs[active[sub[b].client_id]]
        /\ \A l \in Conns : b \in subs[l] =>
              sub[b] # Nil /\ l = active[sub[b].client_id]
    BY <1>2 DEF SubsOfActiveConns, client_is_connected, SubRec
  <2>3. subs \in [Conns -> SUBSET SubIds] /\ active \in [Clients -> Conns \cup {Nil}]
    BY <1>2 DEF ConnType
  <2>4. CASE b \in subs[k]
    BY <2>4, <2>1, <2>2, <2>3, <1>1, <1>3
  <2>5. CASE b \notin subs[k]
    BY <2>5, <2>1, <2>2, <2>3, <1>1, <1>3, <1>10
  <2>. QED  BY <2>4, <2>5
<1>16. Armed(service, timer)' /\ Views(service, sub, view)'
  BY <1>1, <1>6, <1>7 DEF Armed, Views, Exact, matches, service_is_orphan, Seen
<1>17. DataType(held, service, timer, view)'
  BY <1>1, <1>2, <1>4, <1>6, <1>7 DEF DataType
<1>. QED
  BY <1>9, <1>11, <1>12, <1>13, <1>14, <1>15, <1>16, <1>17 DEF IInv, Data

\* client_connect() and client_reconnect(): the client gets a free conn.
LEMMA Connect ==
    ASSUME IInv, NEW c \in Clients, NEW k \in FreeConns, active[c] = Nil,
           active' = [active EXCEPT ![c] = k], known' = known \cup {c},
           rc' \in ReturnCodes,
           UNCHANGED <<inactive, held, subs, service, sub, timer, now, aborted, view>>
    PROVE  IInv'
<1>1. /\ ConnType /\ ConnsApart /\ SubsOfActiveConns
      /\ Data(held, service, timer, view)
      /\ HeldOnce(held, service) /\ NoActiveOrphans(held, service)
      /\ FreeEmpty(held)
  BY DEF IInv, Data
<1>2. k \in Conns /\ k # Nil /\ \A d \in Clients : k \notin client_conns(d)
  BY NilAssumption DEF FreeConns
<1>3. /\ active' \in [Clients -> Conns \cup {Nil}]
      /\ active'[c] = k
      /\ \A d \in Clients \ {c} : active'[d] = active[d]
  BY <1>1, <1>2 DEF ConnType
<1>4. \A d \in Clients : client_conns(d)' = client_conns(d) \cup (IF d = c THEN {k} ELSE {})
  BY <1>1, <1>2, <1>3 DEF client_conns
<1>5. ConnType'
  BY <1>1, <1>3 DEF ConnType
<1>6. ConnsApart'
  <2>1. \A d \in Clients : active'[d] \notin inactive[d]
    BY <1>1, <1>2, <1>3 DEF ConnsApart, client_conns
  <2>. QED  BY <1>1, <1>2, <1>4, <2>1 DEF ConnsApart
<1>7. held[k] = {} /\ FreeEmpty(held)'
  BY <1>1, <1>4 DEF FreeEmpty, FreeConns
<1>8. HeldOnce(held, service)'
  <2>1. service \in [Services -> ServiceRec \cup {Nil}]
    BY <1>1 DEF Data, DataType
  <2>2. ASSUME NEW q \in Services, service[q] # Nil
        PROVE  \E l \in client_conns(service[q].client_id)' : q \in held[l]
    <3>1. PICK o \in Clients : o = service[q].client_id
      BY <2>1, <2>2 DEF ServiceRec
    <3>2. PICK l \in client_conns(o) : q \in held[l]
      BY <1>1, <2>2, <3>1 DEF HeldOnce
    <3>3. l \in client_conns(o)'
      BY <1>4, <3>2
    <3>. QED  BY <3>1, <3>2, <3>3 DEF client_conns
  <2>. QED  BY <1>1, <2>2 DEF HeldOnce
<1>9. NoActiveOrphans(held, service)'
  BY <1>1, <1>3, <1>7 DEF NoActiveOrphans, client_is_connected, service_is_orphan
<1>10. SubsOfActiveConns'
  <2>. SUFFICES ASSUME NEW b \in SubIds
       PROVE  /\ sub[b] # Nil => /\ active'[sub[b].client_id] # Nil
                                 /\ b \in subs[active'[sub[b].client_id]]
              /\ \A l \in Conns : b \in subs[l] =>
                    sub[b] # Nil /\ l = active'[sub[b].client_id]
    BY DEF SubsOfActiveConns, client_is_connected
  <2>1. /\ sub[b] # Nil => /\ active[sub[b].client_id] # Nil
                           /\ b \in subs[active[sub[b].client_id]]
        /\ \A l \in Conns : b \in subs[l] =>
              sub[b] # Nil /\ l = active[sub[b].client_id]
    BY <1>1 DEF SubsOfActiveConns, client_is_connected
  <2>2. sub[b] # Nil => sub[b].client_id \in Clients
    BY <1>1 DEF ConnType, SubRec
  <2>. QED  BY <2>1, <2>2, <1>3
<1>11. Armed(service, timer)' /\ Views(service, sub, view)'
       /\ DataType(held, service, timer, view)'
  BY <1>1 DEF Data, DataType, Armed, Views, Exact, matches, service_is_orphan, Seen
<1>. QED
  BY <1>5, <1>6, <1>7, <1>8, <1>9, <1>10, <1>11 DEF IInv, Data

\* client_create_sub() with client_activate_sub(), and client_unsubscribe():
\* subscription b of client c becomes B, a subscription of c or Nil.
LEMMA Subscribe ==
    ASSUME IInv, NEW c \in Clients, NEW b \in SubIds, NEW B \in SubRec \cup {Nil},
           client_is_connected(c),
           NEW w \in [Services -> ViewEntry],
           \/ /\ sub[b] = Nil /\ B # Nil /\ B.client_id = c
              /\ subs' = [subs EXCEPT ![active[c]] = @ \cup {b}]
              /\ \A s \in Services : Exact(w[s], B.filter, service[s])
           \/ /\ B = Nil /\ b \in subs[active[c]]
              /\ subs' = [subs EXCEPT ![active[c]] = @ \ {b}]
              /\ \A s \in Services : w[s] = Seen("unseen"),
           sub' = [sub EXCEPT ![b] = B],
           view' = [view EXCEPT ![b] = w],
           rc' \in ReturnCodes,
           UNCHANGED <<known, active, inactive, held, service, timer, now, aborted>>
    PROVE  IInv'
<1>1. /\ ConnType /\ ConnsApart /\ SubsOfActiveConns
      /\ Data(held, service, timer, view) /\ Views(service, sub, view)
      /\ sub \in [SubIds -> SubRec \cup {Nil}]
      /\ subs \in [Conns -> SUBSET SubIds]
      /\ view \in [SubIds -> [Services -> ViewEntry]]
      /\ active[c] \in Conns /\ active \in [Clients -> Conns \cup {Nil}]
  BY DEF IInv, Data, DataType, ConnType, client_is_connected
<1>2. /\ sub' \in [SubIds -> SubRec \cup {Nil}]
      /\ sub'[b] = B /\ \A a \in SubIds \ {b} : sub'[a] = sub[a]
      /\ view' \in [SubIds -> [Services -> ViewEntry]]
      /\ view'[b] = w /\ \A a \in SubIds \ {b} : view'[a] = view[a]
      /\ subs' \in [Conns -> SUBSET SubIds]
      /\ \A k \in Conns, a \in SubIds \ {b} : a \in subs'[k] <=> a \in subs[k]
  BY <1>1
<1>3. ConnType' /\ ConnsApart'
  BY <1>1, <1>2 DEF ConnType, ConnsApart, client_conns
<1>4. Views(service, sub, view)'
  <2>. SUFFICES ASSUME NEW a \in SubIds, NEW s \in Services
       PROVE  IF sub'[a] # Nil THEN Exact(view'[a][s], sub'[a].filter, service[s])
              ELSE view'[a][s] = Seen("unseen")
    BY DEF Views, Exact, matches, Seen
  <2>1. CASE a = b
    BY <2>1, <1>2
  <2>2. CASE a # b
    BY <2>2, <1>1, <1>2 DEF Views
  <2>. QED  BY <2>1, <2>2
<1>5. SubsOfActiveConns'
  <2>. SUFFICES ASSUME NEW a \in SubIds
       PROVE  /\ sub'[a] # Nil => /\ active[sub'[a].client_id] # Nil
                                  /\ a \in subs'[active[sub'[a].client_id]]
              /\ \A l \in Conns : a \in subs'[l] =>
                    sub'[a] # Nil /\ l = active[sub'[a].client_id]
    BY DEF SubsOfActiveConns, client_is_connected
  <2>1. /\ sub[a] # Nil => /\ active[sub[a].client_id] # Nil
                           /\ sub[a].client_id \in Clients
                           /\ a \in subs[active[sub[a].client_id]]
        /\ \A l \in Conns : a \in subs[l] =>
              sub[a] # Nil /\ l = active[sub[a].client_id]
    BY <1>1 DEF SubsOfActiveConns, client_is_connected, SubRec
  <2>2. CASE a # b
    BY <2>1, <2>2, <1>1, <1>2
  <2>3. CASE a = b /\ B # Nil
    BY <2>1, <2>3, <1>1, <1>2 DEF client_is_connected
  <2>4. CASE a = b /\ B = Nil
    BY <2>1, <2>4, <1>1, <1>2
  <2>. QED  BY <2>2, <2>3, <2>4
<1>6. Data(held, service, timer, view)'
  BY <1>1, <1>2, <1>4 DEF Data, DataType, HeldOnce, NoActiveOrphans, Armed, FreeEmpty,
        FreeConns, client_conns, client_is_connected, service_is_orphan
<1>. QED  BY <1>3, <1>5, <1>6 DEF IInv

-----------------------------------------------------------------------------
(* The invariant holds initially and every step keeps it.                  *)

LEMMA InitIInv == Init => IInv
<1>. SUFFICES ASSUME Init PROVE IInv
  OBVIOUS
<1>1. Unseen \in [Services -> ViewEntry]
  BY DEF Unseen, Seen, ViewEntry, ViewState
<1>2. ConnType
  <2>1. 0 \in 0..MaxTime
    BY NumbersAssumption
  <2>2. rc \in ReturnCodes /\ aborted \in BOOLEAN
    BY DEF Init, ReturnCodes
  <2>. QED  BY <2>1, <2>2 DEF Init, ConnType
<1>3. \A c \in Clients : client_conns(c) = {}
  BY DEF Init, client_conns
<1>4. ConnsApart /\ SubsOfActiveConns
  BY <1>3, NilAssumption DEF Init, ConnsApart, SubsOfActiveConns
<1>5. DataType(held, service, timer, view)
  BY <1>1 DEF Init, DataType
<1>6. Data(held, service, timer, view)
  BY <1>5 DEF Init, Data, HeldOnce, NoActiveOrphans, Armed, Views, FreeEmpty,
        FreeConns, client_is_connected, service_is_orphan, Unseen
<1>. QED  BY <1>2, <1>4, <1>6 DEF IInv

\* A step that leaves the clients and the database alone.
LEMMA Untouched ==
    ASSUME IInv, now' \in 0..MaxTime, rc' \in ReturnCodes, aborted' \in BOOLEAN,
           UNCHANGED <<known, active, inactive, held, subs, service, sub, timer, view>>
    PROVE  IInv'
<1>1. ConnType' /\ ConnsApart' /\ SubsOfActiveConns'
  BY DEF IInv, ConnType, ConnsApart, SubsOfActiveConns, client_conns, client_is_connected
<1>2. Data(held, service, timer, view)'
  BY DEF IInv, Data, DataType, HeldOnce, NoActiveOrphans, Armed, Views, Exact,
        matches, FreeEmpty, FreeConns, client_conns, client_is_connected,
        service_is_orphan, Seen
<1>. QED  BY <1>1, <1>2 DEF IInv

\* A publish that commits r in the place of service s.
LEMMA PublishCommits ==
    ASSUME IInv, NEW c \in Clients, NEW s \in Services, NEW r \in ServiceRec,
           client_is_connected(c), r.client_id = c, r.orphan_since = -1,
           \/ service[s] = Nil /\ held' = conn_add_service(held, active[c], s)
           \/ service[s] # Nil /\ held' = TakenOver(c, s),
           service_commit({s}, [service EXCEPT ![s] = r]),
           rc' \in ReturnCodes,
           UNCHANGED <<known, active, inactive, subs, sub, now, aborted>>
    PROVE  IInv'
<1>. DEFINE R == [service EXCEPT ![s] = r]
<1>1. PICK h : h = held'
  OBVIOUS
<1>2. Data(h, R, maintain_orphans(timer, {s}, service, R),
           notify_subs(view, sub, {s}, service, R))
  BY <1>1, CommitOwned DEF IInv
<1>3. Data(held', service', timer', view')
  BY <1>1, <1>2 DEF service_commit
<1>4. Data(held, service, timer, view)'
  BY <1>3 DEF Data, DataType, HeldOnce, NoActiveOrphans, Armed, Views, Exact,
        matches, FreeEmpty, FreeConns, client_conns, client_is_connected,
        service_is_orphan, Seen
<1>5. ConnType' /\ ConnsApart' /\ SubsOfActiveConns'
  BY DEF IInv, ConnType, ConnsApart, SubsOfActiveConns, client_conns, client_is_connected
<1>. QED  BY <1>4, <1>5 DEF IInv

LEMMA NextIInv == IInv /\ [Next]_vars => IInv'
<1>. SUFFICES ASSUME IInv, [Next]_vars PROVE IInv'
  OBVIOUS
<1>0. /\ now \in 0..MaxTime /\ rc \in ReturnCodes /\ aborted \in BOOLEAN
      /\ service \in [Services -> ServiceRec \cup {Nil}]
      /\ sub \in [SubIds -> SubRec \cup {Nil}]
      /\ view \in [SubIds -> [Services -> ViewEntry]]
  BY DEF IInv, ConnType, Data, DataType
<1>1. ASSUME UNCHANGED vars PROVE IInv'
  BY <1>0, <1>1, Untouched DEF vars
<1>2. ASSUME NEW c \in Clients, client_connect(c) PROVE IInv'
  <2>1. active[c] = Nil
    BY <1>2 DEF client_connect, IInv, ConnsApart, client_conns
  <2>2. PICK k \in FreeConns : active' = [active EXCEPT ![c] = k]
    BY <1>2 DEF client_connect
  <2>3. /\ known' = known \cup {c} /\ rc' \in ReturnCodes
        /\ UNCHANGED <<inactive, held, subs, service, sub, timer, now, aborted, view>>
    BY <1>2 DEF client_connect, Return, ReturnCodes, Unchanged_db
  <2>. QED  BY <2>1, <2>2, <2>3, Connect
<1>3. ASSUME NEW c \in Clients, client_reconnect(c) PROVE IInv'
  <2>1. active[c] = Nil
    BY <1>3 DEF client_reconnect, client_is_connected
  <2>2. PICK k \in FreeConns : active' = [active EXCEPT ![c] = k]
    BY <1>3 DEF client_reconnect
  <2>3. /\ known' = known \cup {c} /\ rc' \in ReturnCodes
        /\ UNCHANGED <<inactive, held, subs, service, sub, timer, now, aborted, view>>
    BY <1>3 DEF client_reconnect, Return, ReturnCodes, Unchanged_db
  <2>. QED  BY <2>1, <2>2, <2>3, Connect
<1>4. ASSUME NEW c \in Clients, client_reconnect_rejected(c) PROVE IInv'
  BY <1>0, <1>4, Untouched DEF client_reconnect_rejected, Return, ReturnCodes, Unchanged_db
<1>5. ASSUME NEW c \in Clients, no_such_client(c) PROVE IInv'
  BY <1>0, <1>5, Untouched DEF no_such_client, Return, ReturnCodes, Unchanged_db
<1>6. ASSUME NEW c \in Clients, client_disconnect(c) PROVE IInv'
  BY <1>6, Disconnect
<1>7. ASSUME NEW c \in Clients, NEW s \in Services, NEW g \in Generations,
             NEW p \in Props, NEW t \in TTLs, client_publish(c, s, g, p, t)
      PROVE  IInv'
  <2>0. /\ Published(c, g, p, t) \in ServiceRec
        /\ Published(c, g, p, t).client_id = c
        /\ Published(c, g, p, t).orphan_since = -1
    BY DEF Published, ServiceRec
  <2>1. CASE publish_new(c, s, g, p, t)
    <3>1. /\ client_is_connected(c) /\ rc' \in ReturnCodes
          /\ service[s] = Nil /\ held' = conn_add_service(held, active[c], s)
          /\ service_commit({s}, [service EXCEPT ![s] = Published(c, g, p, t)])
          /\ UNCHANGED <<known, active, inactive, subs, sub, now, aborted>>
      BY <2>1 DEF publish_new, Return, ReturnCodes
    <3>. QED  BY <2>0, <3>1, PublishCommits
  <2>2. CASE publish_newer_generation(c, s, g, p, t)
    <3>1. /\ client_is_connected(c) /\ rc' \in ReturnCodes
          /\ service[s] # Nil /\ held' = TakenOver(c, s)
          /\ service_commit({s}, [service EXCEPT ![s] = Published(c, g, p, t)])
          /\ UNCHANGED <<known, active, inactive, subs, sub, now, aborted>>
      BY <2>2 DEF publish_newer_generation, Return, ReturnCodes
    <3>. QED  BY <2>0, <3>1, PublishCommits
  <2>3. CASE publish_same_generation(c, s, g, p, t)
    <3>1. /\ client_is_connected(c) /\ rc' \in ReturnCodes
          /\ service[s] # Nil /\ held' = TakenOver(c, s)
          /\ UNCHANGED <<known, active, inactive, subs, sub, now, aborted>>
      BY <2>3 DEF publish_same_generation, Return, ReturnCodes
    <3>2. CASE adopts(c, service[s])
      <4>1. service_commit({s}, [service EXCEPT ![s] = Adopted(c, service[s])])
        BY <2>3, <3>2 DEF publish_same_generation
      <4>2. /\ Adopted(c, service[s]) \in ServiceRec
            /\ Adopted(c, service[s]).client_id = c
            /\ Adopted(c, service[s]).orphan_since = -1
        BY <1>0, <3>1, AdoptedRec
      <4>. QED  BY <3>1, <4>1, <4>2, PublishCommits
    <3>3. CASE ~adopts(c, service[s])
      <4>1. UNCHANGED <<service, timer, view>> /\ held' = held
        BY <2>3, <3>1, <3>3 DEF publish_same_generation, TakenOver, adopts
      <4>. QED  BY <1>0, <3>1, <4>1, Untouched
    <3>. QED  BY <3>2, <3>3
  <2>4. CASE publish_rejected(c, s, g, p, t)
    BY <1>0, <2>4, Untouched DEF publish_rejected, Return, ReturnCodes, Unchanged_db
  <2>. QED  BY <1>7, <2>1, <2>2, <2>3, <2>4 DEF client_publish
<1>8. ASSUME NEW c \in Clients, NEW s \in Services, client_unpublish(c, s) PROVE IInv'
  <2>. DEFINE r == service[s]
              A == [service EXCEPT ![s] = Adopted(c, r)]
  <2>1. /\ client_is_connected(c) /\ r \in ServiceRec /\ rc' \in ReturnCodes
        /\ UNCHANGED <<active, subs, sub, now, aborted>>
    BY <1>0, <1>8 DEF client_unpublish, Return, ReturnCodes
  <2>2. CASE adopts(c, r)
    <3>1. /\ Adopted(c, r) \in ServiceRec /\ Adopted(c, r).client_id = c
          /\ Adopted(c, r).orphan_since = -1
      BY <2>1, AdoptedRec
    <3>2. Data(TakenOver(c, s), A, maintain_orphans(timer, {s}, service, A),
               notify_subs(view, sub, {s}, service, A))
      BY <1>8, <2>1, <3>1, CommitOwned DEF IInv, client_unpublish
    <3>3. remove_service(c, s, TakenOver(c, s), Adopted(c, r),
                maintain_orphans(timer, {s}, service, A),
                notify_subs(view, sub, {s}, service, A))
      BY <1>8, <2>2 DEF client_unpublish
    <3>. QED  BY <1>0, <2>1, <3>1, <3>2, <3>3, RemoveService DEF IInv
  <2>3. CASE ~adopts(c, r)
    <3>1. r.client_id = c /\ [service EXCEPT ![s] = r] = service
      BY <1>0, <2>3 DEF adopts
    <3>2. remove_service(c, s, held, r, timer, view)
      BY <1>8, <2>3 DEF client_unpublish
    <3>. QED  BY <1>0, <2>1, <3>1, <3>2, RemoveService DEF IInv
  <2>. QED  BY <2>2, <2>3
<1>9. ASSUME NEW c \in Clients, NEW s \in Services, client_unpublish_rejected(c, s)
      PROVE  IInv'
  BY <1>0, <1>9, Untouched DEF client_unpublish_rejected, Return, ReturnCodes, Unchanged_db
<1>10. ASSUME NEW c \in Clients, NEW b \in SubIds, NEW f \in Filters,
              client_create_sub(c, b, f)
       PROVE  IInv'
  <2>. DEFINE B == [client_id |-> c, filter |-> f]
              w == [s \in Services |-> sub_notify(view[b][s], f, Nil, service[s])]
  <2>1. B \in SubRec /\ B # Nil /\ B.client_id = c /\ B.filter = f
    BY NilAssumption DEF SubRec
  <2>2. \A s \in Services : /\ Exact(w[s], f, service[s])
                            /\ w[s] \in ViewEntry
    <3>. SUFFICES ASSUME NEW s \in Services
         PROVE  /\ Exact(sub_notify(view[b][s], f, Nil, service[s]), f, service[s])
                /\ sub_notify(view[b][s], f, Nil, service[s]) \in ViewEntry
      OBVIOUS
    <3>1. view[b][s] = Seen("unseen")
      BY <1>10 DEF client_create_sub, IInv, Data, Views
    <3>2. Exact(view[b][s], f, Nil)
      BY <3>1 DEF Exact, matches, Seen
    <3>. QED  BY <1>0, <3>2, NotifyExact
  <2>3. /\ client_is_connected(c) /\ sub[b] = Nil /\ rc' \in ReturnCodes
        /\ sub' = [sub EXCEPT ![b] = B]
        /\ subs' = [subs EXCEPT ![active[c]] = @ \cup {b}]
        /\ view' = [view EXCEPT ![b] = w]
        /\ UNCHANGED <<known, active, inactive, held, service, timer, now, aborted>>
    BY <1>10 DEF client_create_sub, Return, ReturnCodes
  <2>4. w \in [Services -> ViewEntry]
    BY <2>2
  <2>. HIDE DEF B, w
  <2>. QED  BY <2>1, <2>2, <2>3, <2>4, Subscribe
<1>11. ASSUME NEW c \in Clients, NEW b \in SubIds, client_create_sub_rejected(c, b)
       PROVE  IInv'
  BY <1>0, <1>11, Untouched DEF client_create_sub_rejected, Return, ReturnCodes, Unchanged_db
<1>12. ASSUME NEW c \in Clients, NEW b \in SubIds, client_unsubscribe(c, b) PROVE IInv'
  <2>1. Unseen \in [Services -> ViewEntry] /\ \A s \in Services : Unseen[s] = Seen("unseen")
    BY DEF Unseen, Seen, ViewEntry, ViewState
  <2>2. /\ client_is_connected(c) /\ b \in subs[active[c]] /\ rc' \in ReturnCodes
        /\ sub' = [sub EXCEPT ![b] = Nil]
        /\ subs' = [subs EXCEPT ![active[c]] = @ \ {b}]
        /\ view' = [view EXCEPT ![b] = Unseen]
        /\ UNCHANGED <<known, active, inactive, held, service, timer, now, aborted>>
    BY <1>12 DEF client_unsubscribe, Return, ReturnCodes
  <2>. QED  BY <2>1, <2>2, Subscribe
<1>13. ASSUME NEW c \in Clients, NEW b \in SubIds, client_unsubscribe_rejected(c, b)
       PROVE  IInv'
  BY <1>0, <1>13, Untouched DEF client_unsubscribe_rejected, Return, ReturnCodes, Unchanged_db
<1>14. ASSUME NEW s \in Services, orphan_timeout_cb(s) PROVE IInv'
  <2>1. service[s] \in ServiceRec
    BY <1>0, <1>14 DEF IInv, Data, Armed, orphan_timeout_cb, TimerDue, service_is_orphan
  <2>2. service[s].client_id \in Clients /\ [service EXCEPT ![s] = service[s]] = service
    BY <1>0, <2>1 DEF ServiceRec
  <2>3. /\ remove_service(service[s].client_id, s, held, service[s], timer, view)
        /\ rc' \in ReturnCodes /\ UNCHANGED <<active, subs, sub, now, aborted>>
    BY <1>0, <1>14 DEF orphan_timeout_cb
  <2>. QED  BY <1>0, <2>1, <2>2, <2>3, RemoveService DEF IInv
<1>15. ASSUME NEW s \in Services, purge_orphan_assert_fails(s) PROVE IInv'
  BY <1>0, <1>15, Untouched DEF purge_orphan_assert_fails, Unchanged_db
<1>16. ASSUME Tick PROVE IInv'
  <2>1. now' \in 0..MaxTime
    BY <1>0, <1>16, NumbersAssumption DEF Tick
  <2>. QED  BY <1>0, <1>16, <2>1, Untouched DEF Tick, Unchanged_db
<1>. QED
  BY <1>1, <1>2, <1>3, <1>4, <1>5, <1>6, <1>7, <1>8, <1>9, <1>10, <1>11, <1>12,
     <1>13, <1>14, <1>15, <1>16 DEF Next, Request,
        sd_client_connect, sd_client_disconnect, sd_publish, sd_unpublish, sd_subscribe,
        sd_unsubscribe

\* The inductive invariant gives the invariants of the specification.
LEMMA IInvImplies ==
    IInv => /\ TypeOK /\ ConnOwnership /\ ServiceHeldOnce /\ OrphansInInactiveConns
            /\ OrphanTimerArmed /\ SubsOfActiveConns /\ SubscriberViewExact
<1>. SUFFICES ASSUME IInv
     PROVE  /\ TypeOK /\ ConnOwnership /\ ServiceHeldOnce /\ OrphansInInactiveConns
            /\ OrphanTimerArmed /\ SubsOfActiveConns /\ SubscriberViewExact
  OBVIOUS
<1>1. TypeOK
  BY DEF IInv, ConnType, Data, DataType, TypeOK
<1>2. ConnOwnership
  <2>1. ASSUME NEW k \in FreeConns PROVE subs[k] = {}
    <3>. SUFFICES ASSUME NEW b \in subs[k] PROVE FALSE
      OBVIOUS
    <3>1. k \in Conns /\ b \in SubIds /\ \A c \in Clients : k \notin client_conns(c)
      BY DEF FreeConns, IInv, ConnType
    <3>2. sub[b] # Nil /\ k = active[sub[b].client_id]
      BY <3>1 DEF IInv, SubsOfActiveConns
    <3>3. sub[b].client_id \in Clients
      BY <3>1, <3>2 DEF IInv, ConnType, SubRec
    <3>. QED  BY <3>1, <3>2, <3>3, NilAssumption DEF client_conns
  <2>. QED  BY <2>1 DEF IInv, ConnsApart, Data, FreeEmpty, ConnOwnership
<1>3. ServiceHeldOnce
  BY DEF IInv, Data, HeldOnce, ServiceHeldOnce
<1>4. OrphansInInactiveConns /\ OrphanTimerArmed /\ SubsOfActiveConns
  BY DEF IInv, Data, NoActiveOrphans, Armed, OrphansInInactiveConns, OrphanTimerArmed
<1>5. SubscriberViewExact
  BY DEF IInv, Data, Views, Exact, SubscriberViewExact, Seen
<1>. QED  BY <1>1, <1>2, <1>3, <1>4, <1>5

-----------------------------------------------------------------------------
(* What a step does to the services.                                       *)

\* Every step of the sd is a step of the registry of leases, or none.
LEMMA StepImplementsRegistry ==
    ASSUME IInv, [Next]_vars
    PROVE  [Registry!Next]_<<service, now>>
<1>0. service \in [Services -> ServiceRec \cup {Nil}] /\ now \in Nat
  BY NumbersAssumption DEF IInv, Data, DataType, ConnType
<1>1. ASSUME UNCHANGED <<service, now>> PROVE [Registry!Next]_<<service, now>>
  BY <1>1
<1>2. ASSUME NEW c \in Clients, client_disconnect(c)
      PROVE  Registry!Next
  <2>. DEFINE T == held[active[c]]
  <2>1. active[c] \in Conns /\ active[c] \in client_conns(c) /\ T \in SUBSET Services
    BY <1>2 DEF client_disconnect, client_is_connected, client_conns, IInv, ConnType,
          Data, DataType
  <2>2. \A s \in T : service[s] # Nil /\ ~service_is_orphan(service[s])
    BY <1>2, <2>1 DEF client_disconnect, IInv, Data, HeldOnce, NoActiveOrphans
  <2>3. \A s \in T : service[s].client_id = c
    <3>. SUFFICES ASSUME NEW s \in T PROVE service[s].client_id = c
      OBVIOUS
    <3>1. PICK k \in client_conns(service[s].client_id) : s \in held[k]
      BY <2>1, <2>2 DEF IInv, Data, HeldOnce
    <3>2. service[s].client_id \in Clients
      BY <1>0, <2>1, <2>2 DEF ServiceRec
    <3>3. k = active[c]
      BY <2>1, <3>1, <3>2, ClientConns DEF IInv, Data, HeldOnce
    <3>. QED  BY <2>1, <3>1, <3>2, <3>3 DEF IInv, ConnsApart
  <2>4. /\ service' = [s \in Services |->
                IF s \in T THEN [service[s] EXCEPT !.orphan_since = now] ELSE service[s]]
        /\ now' = now
    BY <1>2 DEF client_disconnect
  <2>5. Registry!Orphan(c, T)
    BY <2>2, <2>3, <2>4 DEF Registry!Orphan, Registry!IsOrphan, service_is_orphan
  <2>. HIDE DEF T
  <2>. QED  BY <2>1, <2>5 DEF Registry!Next
<1>3. ASSUME NEW c \in Clients, NEW s \in Services, NEW g \in Generations,
             NEW p \in Props, NEW t \in TTLs, client_publish(c, s, g, p, t)
      PROVE  [Registry!Next]_<<service, now>>
  <2>1. CASE publish_new(c, s, g, p, t) \/ publish_newer_generation(c, s, g, p, t)
    <3>1. Registry!Publish(c, s, g, p, t)
      BY <2>1 DEF publish_new, publish_newer_generation, newer_generation,
            service_commit, Published, Registry!Publish, Registry!Owned
    <3>. QED  BY <3>1 DEF Registry!Next
  <2>2. CASE publish_same_generation(c, s, g, p, t) /\ adopts(c, service[s])
    <3>1. /\ service[s] # Nil /\ now' = now
          /\ service' = [service EXCEPT ![s] = Adopted(c, service[s])]
      BY <2>2 DEF publish_same_generation, service_commit
    <3>2. Adopted(c, service[s]) = Published(c, service[s].generation,
                service[s].props, service[s].ttl)
      BY <1>0, <3>1, AdoptedRec
    <3>3. Registry!Adopt(c, s)
      BY <3>1, <3>2 DEF Published, Registry!Adopt, Registry!Owned
    <3>. QED  BY <3>3 DEF Registry!Next
  <2>3. CASE publish_same_generation(c, s, g, p, t) /\ ~adopts(c, service[s])
    BY <2>3 DEF publish_same_generation
  <2>4. CASE publish_rejected(c, s, g, p, t)
    BY <2>4 DEF publish_rejected, Unchanged_db
  <2>. QED  BY <1>3, <2>1, <2>2, <2>3, <2>4 DEF client_publish
<1>4. ASSUME NEW c \in Clients, NEW s \in Services, client_unpublish(c, s)
      PROVE  Registry!Next
  <2>1. /\ service[s] # Nil /\ now' = now
        /\ service' = [service EXCEPT ![s] = Nil]
    BY <1>4 DEF client_unpublish, remove_service
  <2>. QED  BY <2>1 DEF Registry!Unpublish, Registry!Next
<1>5. ASSUME NEW s \in Services, orphan_timeout_cb(s)
      PROVE  Registry!Next
  <2>1. /\ service_is_orphan(service[s]) /\ now' = now
        /\ now >= service[s].orphan_since + service[s].ttl
        /\ service' = [service EXCEPT ![s] = Nil]
    BY <1>5 DEF orphan_timeout_cb, TimerDue, remove_service, IInv, Data, Armed
  <2>2. Registry!Expire(s)
    BY <2>1 DEF Registry!Expire, Registry!IsOrphan, service_is_orphan
  <2>. QED  BY <2>2 DEF Registry!Next
<1>6. ASSUME Tick PROVE Registry!Next
  BY <1>6 DEF Tick, Unchanged_db, Registry!Tick, Registry!Next
<1>7. ASSUME NEW c \in Clients,
             \/ client_connect(c) \/ client_reconnect(c)
             \/ client_reconnect_rejected(c) \/ no_such_client(c)
             \/ \E s \in Services : client_unpublish_rejected(c, s)
      PROVE  UNCHANGED <<service, now>>
  BY <1>7 DEF client_connect, client_reconnect, client_reconnect_rejected, no_such_client,
        client_unpublish_rejected, Unchanged_db
<1>8. ASSUME NEW c \in Clients, NEW b \in SubIds,
             \/ \E f \in Filters : client_create_sub(c, b, f)
             \/ client_create_sub_rejected(c, b)
             \/ client_unsubscribe(c, b) \/ client_unsubscribe_rejected(c, b)
      PROVE  UNCHANGED <<service, now>>
  BY <1>8 DEF client_create_sub, client_create_sub_rejected, client_unsubscribe,
        client_unsubscribe_rejected, Unchanged_db
<1>9. ASSUME NEW s \in Services, purge_orphan_assert_fails(s)
      PROVE  UNCHANGED <<service, now>>
  BY <1>9 DEF purge_orphan_assert_fails, Unchanged_db
<1>10. ASSUME UNCHANGED vars PROVE UNCHANGED <<service, now>>
  BY <1>10 DEF vars
<1>11. ASSUME NEW c \in Clients, Request(c) PROVE [Registry!Next]_<<service, now>>
  BY <1>1, <1>2, <1>3, <1>4, <1>7, <1>8, <1>11 DEF Request,
        sd_client_connect, sd_client_disconnect, sd_publish, sd_unpublish, sd_subscribe,
        sd_unsubscribe
<1>. QED  BY <1>1, <1>5, <1>6, <1>9, <1>10, <1>11 DEF Next

\* Every step keeps the data of a generation, and generations never go back.
LEMMA StepKeepsGenerations ==
    ASSUME IInv, [Registry!Next]_<<service, now>>,
           NEW s \in Services, service[s] # Nil, service'[s] # Nil
    PROVE  \/ service'[s].generation > service[s].generation
           \/ /\ service'[s].generation = service[s].generation
              /\ service'[s].props = service[s].props
              /\ service'[s].ttl = service[s].ttl
<1>. DEFINE Kept == /\ service'[s].generation = service[s].generation
                    /\ service'[s].props = service[s].props
                    /\ service'[s].ttl = service[s].ttl
<1>0. service \in [Services -> ServiceRec \cup {Nil}] /\ service[s] \in ServiceRec
      /\ now \in Int
  BY DEF IInv, Data, DataType, ConnType
<1>1. ASSUME UNCHANGED service PROVE Kept
  BY <1>1
<1>2. ASSUME NEW c \in Clients, NEW q \in Services, NEW g \in Generations,
             NEW p \in Props, NEW t \in TTLs, Registry!Publish(c, q, g, p, t)
      PROVE  service'[s].generation > service[s].generation \/ Kept
  BY <1>0, <1>2 DEF Registry!Publish, Registry!Owned
<1>3. ASSUME NEW c \in Clients, NEW q \in Services, Registry!Adopt(c, q) PROVE Kept
  BY <1>0, <1>3 DEF Registry!Adopt, Registry!Owned
<1>4. ASSUME NEW c \in Clients, NEW T \in SUBSET Services, Registry!Orphan(c, T)
      PROVE  Kept
  <2>1. service'[s] = service[s] \/ service'[s] = [service[s] EXCEPT !.orphan_since = now]
    BY <1>4 DEF Registry!Orphan
  <2>2. /\ [service[s] EXCEPT !.orphan_since = now].generation = service[s].generation
        /\ [service[s] EXCEPT !.orphan_since = now].props = service[s].props
        /\ [service[s] EXCEPT !.orphan_since = now].ttl = service[s].ttl
    BY <1>0 DEF ServiceRec
  <2>. QED  BY <2>1, <2>2
<1>5. ASSUME NEW q \in Services, Registry!Unpublish(q) \/ Registry!Expire(q) PROVE Kept
  BY <1>0, <1>5 DEF Registry!Unpublish, Registry!Expire
<1>6. ASSUME Registry!Tick PROVE Kept
  BY <1>6 DEF Registry!Tick
<1>. QED  BY <1>1, <1>2, <1>3, <1>4, <1>5, <1>6 DEF Registry!Next

\* A step that deletes a service is an unpublish, or finds its TTL passed.
LEMMA StepRemovesWhenDue ==
    ASSUME IInv, [Next]_vars, NEW s \in Services, service[s] # Nil, service'[s] = Nil
    PROVE  \/ \E c \in Clients : client_unpublish(c, s)
           \/ /\ service_is_orphan(service[s])
              /\ now >= service[s].orphan_since + service[s].ttl
<1>. DEFINE Due == /\ service_is_orphan(service[s])
                   /\ now >= service[s].orphan_since + service[s].ttl
<1>0. service \in [Services -> ServiceRec \cup {Nil}] /\ service[s] \in ServiceRec
      /\ now \in Int
  BY DEF IInv, Data, DataType, ConnType
<1>1. ASSUME NEW q \in Services, orphan_timeout_cb(q) PROVE Due
  <2>1. q = s
    BY <1>0, <1>1 DEF orphan_timeout_cb, remove_service
  <2>. QED
    BY <1>1, <2>1 DEF orphan_timeout_cb, TimerDue, IInv, Data, Armed
<1>2. ASSUME NEW c \in Clients, NEW q \in Services, client_unpublish(c, q)
      PROVE  \E d \in Clients : client_unpublish(d, s)
  <2>1. q = s
    BY <1>0, <1>2 DEF client_unpublish, remove_service
  <2>. QED  BY <1>2, <2>1
<1>3. ASSUME NEW c \in Clients, client_disconnect(c) PROVE FALSE
  <2>1. service'[s] = service[s] \/ service'[s] = [service[s] EXCEPT !.orphan_since = now]
    BY <1>3 DEF client_disconnect
  <2>2. [service[s] EXCEPT !.orphan_since = now] # Nil
    BY <1>0, OrphanedRec, NilAssumption
  <2>. QED  BY <2>1, <2>2
<1>4. ASSUME NEW c \in Clients, NEW q \in Services, NEW g \in Generations,
             NEW p \in Props, NEW t \in TTLs, client_publish(c, q, g, p, t)
      PROVE  FALSE
  <2>1. Published(c, g, p, t) # Nil
    BY NilAssumption DEF Published, ServiceRec
  <2>2. service[q] # Nil => Adopted(c, service[q]) # Nil
    BY <1>0, AdoptedRec, NilAssumption
  <2>3. \/ service' = service
        \/ service' = [service EXCEPT ![q] = Published(c, g, p, t)]
        \/ service[q] # Nil /\ service' = [service EXCEPT ![q] = Adopted(c, service[q])]
    BY <1>4 DEF client_publish, publish_new, publish_newer_generation,
          publish_same_generation, publish_rejected, service_commit, Unchanged_db
  <2>. QED  BY <1>0, <2>1, <2>2, <2>3
<1>5. ASSUME NEW c \in Clients,
             \/ client_connect(c) \/ client_reconnect(c)
             \/ client_reconnect_rejected(c) \/ no_such_client(c)
             \/ \E q \in Services : client_unpublish_rejected(c, q)
      PROVE  FALSE
  BY <1>5 DEF client_connect, client_reconnect, client_reconnect_rejected, no_such_client,
        client_unpublish_rejected, Unchanged_db
<1>6. ASSUME NEW c \in Clients, NEW b \in SubIds,
             \/ \E f \in Filters : client_create_sub(c, b, f)
             \/ client_create_sub_rejected(c, b)
             \/ client_unsubscribe(c, b) \/ client_unsubscribe_rejected(c, b)
      PROVE  FALSE
  BY <1>6 DEF client_create_sub, client_create_sub_rejected, client_unsubscribe,
        client_unsubscribe_rejected, Unchanged_db
<1>7. ASSUME \/ UNCHANGED vars \/ Tick
             \/ \E q \in Services : purge_orphan_assert_fails(q)
      PROVE  FALSE
  BY <1>7 DEF vars, Tick, purge_orphan_assert_fails, Unchanged_db
<1>8. ASSUME NEW c \in Clients, Request(c) PROVE \E d \in Clients : client_unpublish(d, s)
  BY <1>2, <1>3, <1>4, <1>5, <1>6, <1>8 DEF Request,
        sd_client_connect, sd_client_disconnect, sd_publish, sd_unpublish, sd_subscribe,
        sd_unsubscribe
<1>. QED  BY <1>1, <1>7, <1>8 DEF Next

\* A service that is not an orphan has no time at which it became one.
OrphanSinceOrNever ==
    \A s \in Services : service[s] # Nil => service[s].orphan_since \in Nat \cup {-1}

\* Every step keeps the times at which services became orphans sensible.
LEMMA StepKeepsOrphanSince ==
    ASSUME IInv, OrphanSinceOrNever, [Registry!Next]_<<service, now>>
    PROVE  OrphanSinceOrNever'
<1>. SUFFICES ASSUME NEW s \in Services, service'[s] # Nil
     PROVE  service'[s].orphan_since \in Nat \cup {-1}
  BY DEF OrphanSinceOrNever
<1>0. /\ service \in [Services -> ServiceRec \cup {Nil}] /\ now \in Nat
      /\ service[s] # Nil => service[s].orphan_since \in Nat \cup {-1}
  BY NumbersAssumption DEF IInv, Data, DataType, ConnType, OrphanSinceOrNever
<1>1. CASE UNCHANGED service
  BY <1>0, <1>1
<1>2. ASSUME NEW c \in Clients, NEW q \in Services, NEW g \in Generations,
             NEW p \in Props, NEW t \in TTLs, Registry!Publish(c, q, g, p, t)
      PROVE  service'[s].orphan_since \in Nat \cup {-1}
  BY <1>0, <1>2 DEF Registry!Publish, Registry!Owned
<1>3. ASSUME NEW c \in Clients, NEW q \in Services, Registry!Adopt(c, q)
      PROVE  service'[s].orphan_since \in Nat \cup {-1}
  BY <1>0, <1>3 DEF Registry!Adopt, Registry!Owned
<1>4. ASSUME NEW c \in Clients, NEW T \in SUBSET Services, Registry!Orphan(c, T)
      PROVE  service'[s].orphan_since \in Nat \cup {-1}
  <2>1. CASE s \in T
    <3>1. service[s] \in ServiceRec /\ service'[s] = [service[s] EXCEPT !.orphan_since = now]
      BY <1>0, <1>4, <2>1 DEF Registry!Orphan
    <3>. QED  BY <1>0, <3>1, OrphanedRec
  <2>2. CASE s \notin T
    BY <1>0, <1>4, <2>2 DEF Registry!Orphan
  <2>. QED  BY <2>1, <2>2
<1>5. ASSUME NEW q \in Services, Registry!Unpublish(q) \/ Registry!Expire(q)
      PROVE  service'[s].orphan_since \in Nat \cup {-1}
  BY <1>0, <1>5 DEF Registry!Unpublish, Registry!Expire
<1>6. CASE Registry!Tick
  BY <1>0, <1>6 DEF Registry!Tick
<1>. QED  BY <1>1, <1>2, <1>3, <1>4, <1>5, <1>6 DEF Registry!Next

\* client_publish() does what it returns: after the answer OK the service is
\* the one that was asked for, whichever of its branches was taken.
LEMMA StepPublishes ==
    ASSUME IInv, OrphanSinceOrNever,
           NEW c \in Clients, NEW s \in Services, NEW g \in Generations,
           NEW p \in Props, NEW t \in TTLs,
           client_publish(c, s, g, p, t), rc' = "OK"
    PROVE  service'[s] = Published(c, g, p, t)
<1>0. service \in [Services -> ServiceRec \cup {Nil}]
  BY DEF IInv, Data, DataType
<1>1. CASE publish_new(c, s, g, p, t) \/ publish_newer_generation(c, s, g, p, t)
  BY <1>0, <1>1 DEF publish_new, publish_newer_generation, service_commit
<1>2. CASE publish_same_generation(c, s, g, p, t)
  <2>1. /\ service[s] \in ServiceRec /\ g = service[s].generation
        /\ p = service[s].props /\ t = service[s].ttl
    BY <1>0, <1>2 DEF publish_same_generation, same_data
  <2>2. CASE adopts(c, service[s])
    <3>1. service'[s] = Adopted(c, service[s])
      BY <1>0, <1>2, <2>2 DEF publish_same_generation, service_commit
    <3>. QED  BY <2>1, <3>1, AdoptedRec
  <2>3. CASE ~adopts(c, service[s])
    <3>1. /\ service'[s] = service[s] /\ service[s] # Nil
          /\ service[s].client_id = c /\ ~(service[s].orphan_since >= 0)
      BY <1>2, <2>3 DEF publish_same_generation, adopts, service_is_orphan
    <3>2. service[s].orphan_since = -1
      BY <3>1 DEF OrphanSinceOrNever
    <3>3. service[s] = [generation |-> service[s].generation, props |-> service[s].props,
                        ttl |-> service[s].ttl, orphan_since |-> service[s].orphan_since,
                        client_id |-> service[s].client_id]
      BY <2>1 DEF ServiceRec
    <3>. QED  BY <2>1, <3>1, <3>2, <3>3 DEF Published
  <2>. QED  BY <2>2, <2>3
<1>3. CASE publish_rejected(c, s, g, p, t)
  BY <1>3 DEF publish_rejected, Return
<1>. QED  BY <1>1, <1>2, <1>3 DEF client_publish

\* What a subscriber reads from the removal of a service r it knows.
LEMMA RemovalTells ==
    ASSUME NEW r \in ServiceRec, NEW f, matches(f, r), NEW e, Exact(e, f, r)
    PROVE  sub_notify(e, f, r, Nil) =
               Seen(IF service_is_orphan(r) THEN "expired" ELSE "unpublished")
<1>1. match_type(f, r, Nil) = "disappeared"
  BY DEF match_type, matches
<1>2. e = [state |-> "present", data |-> r]
  BY DEF Exact
<1>. QED  BY <1>1, <1>2 DEF sub_notify, Replay

\* A disappearance is read as an unpublish when it is one, and as a timeout
\* when it is one.
LEMMA StepTellsCause ==
    ASSUME IInv, NEW b \in SubIds, NEW s \in Services,
           sub[b] # Nil, matches(sub[b].filter, service[s])
    PROVE  /\ \A c \in Clients :
                 client_unpublish(c, s) => view'[b][s].state = "unpublished"
           /\ orphan_timeout_cb(s) => view'[b][s].state = "expired"
<1>. DEFINE f == sub[b].filter
            r == service[s]
<1>0. /\ service \in [Services -> ServiceRec \cup {Nil}] /\ r \in ServiceRec
      /\ view \in [SubIds -> [Services -> ViewEntry]]
      /\ sub \in [SubIds -> SubRec \cup {Nil}]
      /\ Views(service, sub, view)
  BY DEF matches, IInv, Data, DataType, ConnType
<1>1. ASSUME NEW q \in ServiceRec, NEW v, NEW h, NEW t, NEW c,
             remove_service(c, s, h, q, t, v), matches(f, q), Exact(v[b][s], f, q)
      PROVE  view'[b][s] = Seen(IF service_is_orphan(q) THEN "expired" ELSE "unpublished")
  <2>1. view' = notify_subs(v, sub, {s}, [service EXCEPT ![s] = q], [service EXCEPT ![s] = Nil])
    BY <1>1 DEF remove_service
  <2>2. view'[b][s] = sub_notify(v[b][s], f, q, Nil)
    BY <1>0, <2>1 DEF notify_subs
  <2>. QED  BY <1>1, <2>2, RemovalTells
<1>2. Exact(view[b][s], f, r)
  BY <1>0 DEF Views
<1>3. ASSUME NEW c \in Clients, client_unpublish(c, s)
      PROVE  view'[b][s].state = "unpublished"
  <2>1. CASE ~adopts(c, r)
    <3>1. remove_service(c, s, held, r, timer, view) /\ ~service_is_orphan(r)
      BY <1>3, <2>1 DEF client_unpublish, adopts
    <3>2. view'[b][s] = Seen("unpublished")
      BY <1>0, <1>1, <1>2, <3>1
    <3>. QED  BY <3>2 DEF Seen
  <2>2. CASE adopts(c, r)
    <3>. DEFINE a == Adopted(c, r)
                R == [service EXCEPT ![s] = a]
                t == maintain_orphans(timer, {s}, service, R)
                v == notify_subs(view, sub, {s}, service, R)
    <3>1. remove_service(c, s, TakenOver(c, s), a, t, v)
      BY <1>3, <2>2 DEF client_unpublish
    <3>2. /\ a \in ServiceRec /\ a.props = r.props /\ ~service_is_orphan(a)
      BY <1>0, AdoptedRec DEF Published, service_is_orphan
    <3>3. matches(f, a)
      BY <3>2, NilAssumption DEF matches
    <3>4. /\ R \in [Services -> ServiceRec \cup {Nil}] /\ R[s] = a
          /\ \A q \in Services \ {s} : R[q] = service[q]
          /\ {s} \in SUBSET Services
      BY <1>0, <3>2
    <3>. HIDE DEF a, R, t
    <3>5. Views(R, sub, v)
      BY <1>0, <3>4, NotifySubsExact
    <3>6. Exact(v[b][s], f, a)
      BY <3>4, <3>5 DEF Views
    <3>. HIDE DEF v
    <3>7. view'[b][s] = Seen("unpublished")
      BY <1>1, <3>1, <3>2, <3>3, <3>6
    <3>. QED  BY <3>7 DEF Seen
  <2>. QED  BY <2>1, <2>2
<1>4. ASSUME orphan_timeout_cb(s) PROVE view'[b][s].state = "expired"
  <2>1. /\ remove_service(r.client_id, s, held, r, timer, view)
        /\ service_is_orphan(r)
    BY <1>4 DEF orphan_timeout_cb, TimerDue, IInv, Data, Armed
  <2>2. view'[b][s] = Seen("expired")
    BY <1>0, <1>1, <1>2, <2>1
  <2>. QED  BY <2>2 DEF Seen
<1>. QED  BY <1>3, <1>4

\* Client d's taking over of a service leaves d's own inactive conns alone,
\* and takes nothing from its active one.
LEMMA TakenOverKeepsOwn ==
    ASSUME IInv, NEW d \in Clients, NEW s \in Services,
           client_is_connected(d), service[s] # Nil
    PROVE  /\ TakenOver(d, s) \in [Conns -> SUBSET Services]
           /\ \A k \in client_conns(d) : held[k] \subseteq TakenOver(d, s)[k]
<1>0. /\ held \in [Conns -> SUBSET Services]
      /\ service[s].client_id \in Clients
      /\ active[d] \in Conns
      /\ client_conns(d) \subseteq Conns
  BY ClientConns, NilAssumption
    DEF IInv, Data, DataType, ConnType, ServiceRec, client_is_connected
<1>1. CASE service[s].client_id = d
  BY <1>0, <1>1 DEF TakenOver
<1>2. CASE service[s].client_id # d
  <2>. DEFINE K == get_service_conn(held, service[s].client_id, s)
              g == conn_del_service(held, K, s)
  <2>1. \A k \in client_conns(d) : k \notin K
    BY <1>0, <1>2 DEF get_service_conn, IInv, ConnsApart
  <2>2. g \in [Conns -> SUBSET Services] /\ \A k \in client_conns(d) : g[k] = held[k]
    BY <1>0, <2>1 DEF conn_del_service
  <2>3. TakenOver(d, s) = conn_add_service(g, active[d], s)
    BY <1>2 DEF TakenOver, capture_service
  <2>. HIDE DEF g
  <2>4. TakenOver(d, s) = [g EXCEPT ![active[d]] = @ \cup {s}]
    BY <2>3 DEF conn_add_service
  <2>. QED  BY <1>0, <2>2, <2>4
<1>. QED  BY <1>1, <1>2

\* remove_service() for client c empties no conn of another client, and an
\* inactive conn of c that it empties it destroys.
LEMMA RemovalCollects ==
    ASSUME IInv, NEW c \in Clients, NEW s \in Services,
           NEW h \in [Conns -> SUBSET Services], NEW r, NEW t, NEW v,
           remove_service(c, s, h, r, t, v)
    PROVE  /\ \A d \in Clients : inactive'[d] \subseteq inactive[d]
           /\ \A d \in Clients \ {c} : \A k \in client_conns(d) : held'[k] = h[k]
           /\ \A k \in inactive'[c] : held'[k] = {} => h[k] = {}
<1>. DEFINE K == get_service_conn(h, c, s)
            H == conn_del_service(h, K, s)
            I == {k \in inactive[c] : ~(k \in K /\ conn_is_stale(H, k))}
            gone == client_is_stale(H, active[c], I)
<1>0. /\ inactive \in [Clients -> SUBSET Conns]
      /\ K \subseteq client_conns(c)
      /\ \A d \in Clients : client_conns(d) \subseteq Conns
  BY ClientConns DEF IInv, ConnType, get_service_conn
<1>1. /\ held' = H
      /\ inactive' = [inactive EXCEPT ![c] = IF gone THEN {} ELSE I]
  BY DEF remove_service
<1>. HIDE DEF gone
<1>2. \A d \in Clients : inactive'[d] \subseteq inactive[d]
  BY <1>0, <1>1
<1>3. \A k \in Conns \ K : H[k] = h[k]
  BY DEF conn_del_service
<1>4. ASSUME NEW d \in Clients \ {c}, NEW k \in client_conns(d) PROVE held'[k] = h[k]
  <2>1. k \notin K /\ k \in Conns
    BY <1>0 DEF IInv, ConnsApart
  <2>. QED  BY <1>1, <1>3, <2>1
<1>5. ASSUME NEW k \in inactive'[c], held'[k] = {} PROVE h[k] = {}
  <2>1. k \in I /\ k \in Conns
    BY <1>0, <1>1
  <2>2. conn_is_stale(H, k)
    BY <1>1, <1>5 DEF conn_is_stale
  <2>3. k \notin K
    BY <2>1, <2>2
  <2>. QED  BY <1>1, <1>3, <1>5, <2>1, <2>3
<1>. QED  BY <1>2, <1>4, <1>5

\* An inactive conn without services is left behind by a take-over only.
LEMMA StepCollects ==
    ASSUME IInv, Next, NEW c \in Clients, NEW k \in inactive'[c], held'[k] = {}
    PROVE  /\ k \in inactive[c]
           /\ held[k] = {} \/ \E d \in Clients \ {c} : sd_publish(d) \/ sd_unpublish(d)
<1>. DEFINE Victim == \E d \in Clients \ {c} : sd_publish(d) \/ sd_unpublish(d)
            Goal == k \in inactive[c] /\ (held[k] = {} \/ Victim)
<1>0. /\ inactive \in [Clients -> SUBSET Conns] /\ held \in [Conns -> SUBSET Services]
      /\ active \in [Clients -> Conns \cup {Nil}]
      /\ inactive[c] \subseteq client_conns(c)
      /\ \A d \in Clients : client_conns(d) \subseteq Conns
  BY ClientConns DEF IInv, ConnType, Data, DataType, client_conns
<1>1. ASSUME NEW d \in Clients, client_disconnect(d) PROVE Goal
  <2>. DEFINE a == active[d]
              I == IF conn_is_stale(held, a) THEN inactive[d] ELSE inactive[d] \cup {a}
              gone == client_is_stale(held, Nil, I)
  <2>1. /\ held' = held
        /\ inactive' = [inactive EXCEPT ![d] = IF gone THEN {} ELSE I]
    BY <1>1 DEF client_disconnect
  <2>. HIDE DEF gone
  <2>2. c # d => inactive'[c] = inactive[c]
    BY <1>0, <2>1
  <2>3. c = d => k \in I
    BY <1>0, <2>1
  <2>4. c = d => k \in inactive[c]
    BY <2>1, <2>3 DEF conn_is_stale
  <2>. QED  BY <2>1, <2>2, <2>4
<1>2. ASSUME NEW d \in Clients, NEW s \in Services, NEW g \in Generations,
             NEW p \in Props, NEW t \in TTLs, client_publish(d, s, g, p, t)
      PROVE  Goal
  <2>1. inactive' = inactive
    BY <1>2 DEF client_publish, publish_new, publish_newer_generation,
          publish_same_generation, publish_rejected
  <2>2. CASE d # c
    BY <1>2, <2>1, <2>2 DEF sd_publish
  <2>3. CASE d = c
    <3>1. CASE publish_new(d, s, g, p, t)
      <4>1. held' = [held EXCEPT ![active[d]] = @ \cup {s}]
        BY <3>1 DEF publish_new, conn_add_service
      <4>2. k \in Conns /\ held[k] \subseteq held'[k]
        BY <1>0, <2>1, <4>1
      <4>. QED  BY <2>1, <4>2
    <3>2. CASE publish_newer_generation(d, s, g, p, t) \/ publish_same_generation(d, s, g, p, t)
      <4>1. /\ held' = TakenOver(d, s) /\ client_is_connected(d) /\ service[s] # Nil
        BY <3>2 DEF publish_newer_generation, publish_same_generation
      <4>2. held[k] \subseteq held'[k]
        BY <1>0, <2>1, <2>3, <4>1, TakenOverKeepsOwn
      <4>. QED  BY <2>1, <4>2
    <3>3. CASE publish_rejected(d, s, g, p, t)
      BY <2>1, <3>3 DEF publish_rejected, Unchanged_db
    <3>. QED  BY <1>2, <3>1, <3>2, <3>3 DEF client_publish
  <2>. QED  BY <2>2, <2>3
<1>3. ASSUME NEW d \in Clients, NEW s \in Services, client_unpublish(d, s)
      PROVE  Goal
  <2>1. PICK h \in [Conns -> SUBSET Services] :
            /\ \A l \in client_conns(d) : held[l] \subseteq h[l]
            /\ \E r, t, v : remove_service(d, s, h, r, t, v)
    <3>1. client_is_connected(d) /\ service[s] # Nil
      BY <1>3 DEF client_unpublish
    <3>2. \/ \E r, t, v : remove_service(d, s, TakenOver(d, s), r, t, v)
          \/ \E r, t, v : remove_service(d, s, held, r, t, v)
      BY <1>3 DEF client_unpublish
    <3>. QED  BY <1>0, <3>1, <3>2, TakenOverKeepsOwn
  <2>2. PICK r, t, v : remove_service(d, s, h, r, t, v)
    BY <2>1
  <2>3. k \in inactive[c]
    BY <2>2, RemovalCollects
  <2>4. CASE d # c
    BY <1>3, <2>3, <2>4 DEF sd_unpublish
  <2>5. CASE d = c
    <3>1. h[k] = {}
      BY <2>2, <2>5, RemovalCollects
    <3>. QED  BY <1>0, <2>1, <2>3, <2>5, <3>1
  <2>. QED  BY <2>4, <2>5
<1>4. ASSUME NEW s \in Services, orphan_timeout_cb(s) PROVE Goal
  <2>. DEFINE o == service[s].client_id
  <2>1. /\ remove_service(o, s, held, service[s], timer, view)
        /\ o \in Clients
    <3>1. service[s] # Nil
      BY <1>4 DEF orphan_timeout_cb, TimerDue, IInv, Data, Armed, service_is_orphan
    <3>. QED  BY <1>4, <3>1 DEF orphan_timeout_cb, IInv, Data, DataType, ServiceRec
  <2>. HIDE DEF o
  <2>2. k \in inactive[c]
    BY <1>0, <2>1, RemovalCollects
  <2>3. CASE o = c
    BY <1>0, <2>1, <2>2, <2>3, RemovalCollects
  <2>4. CASE o # c
    BY <1>0, <2>1, <2>2, <2>4, RemovalCollects
  <2>. QED  BY <2>3, <2>4
<1>5. ASSUME UNCHANGED <<inactive, held>> PROVE Goal
  BY <1>5
<1>6. ASSUME NEW d \in Clients,
             \/ client_connect(d) \/ client_reconnect(d)
             \/ client_reconnect_rejected(d) \/ no_such_client(d)
             \/ \E s \in Services : client_unpublish_rejected(d, s)
      PROVE  UNCHANGED <<inactive, held>>
  BY <1>6 DEF client_connect, client_reconnect, client_reconnect_rejected, no_such_client,
        client_unpublish_rejected, Unchanged_db
<1>7. ASSUME NEW d \in Clients, NEW b \in SubIds,
             \/ \E f \in Filters : client_create_sub(d, b, f)
             \/ client_create_sub_rejected(d, b)
             \/ client_unsubscribe(d, b) \/ client_unsubscribe_rejected(d, b)
      PROVE  UNCHANGED <<inactive, held>>
  BY <1>7 DEF client_create_sub, client_create_sub_rejected, client_unsubscribe,
        client_unsubscribe_rejected, Unchanged_db
<1>8. ASSUME Tick \/ \E s \in Services : purge_orphan_assert_fails(s)
      PROVE  UNCHANGED <<inactive, held>>
  BY <1>8 DEF Tick, purge_orphan_assert_fails, Unchanged_db
<1>. HIDE DEF Goal
<1>9. ASSUME NEW d \in Clients, Request(d) PROVE Goal
  BY <1>1, <1>2, <1>3, <1>5, <1>6, <1>7, <1>9 DEF Request,
        sd_client_connect, sd_client_disconnect, sd_publish, sd_unpublish, sd_subscribe,
        sd_unsubscribe
<1>10. Goal
  BY <1>4, <1>5, <1>8, <1>9 DEF Next
<1>. QED  BY <1>10 DEF Goal

-----------------------------------------------------------------------------
(* The theorems.                                                           *)

\* Every reachable state satisfies the inductive invariant.
THEOREM Inductive == Spec => []IInv
BY InitIInv, NextIInv, PTL DEF Spec

\* The variables keep their types.
THEOREM TypeCorrect == Spec => []TypeOK
BY Inductive, IInvImplies, PTL

\* No conn is lost, shared between clients or freed while it is in use by
\* client_disconnect() or remove_service().
THEOREM ConnsAreOwned == Spec => []ConnOwnership
BY Inductive, IInvImplies, PTL

\* Every service is held by exactly one conn, one of its owner's: the
\* pointers capture_service() and remove_service() follow are never NULL.
THEOREM ServicesAreHeld == Spec => []ServiceHeldOnce
BY Inductive, IInvImplies, PTL

\* There is a timer for exactly the orphans, due when their TTL has passed:
\* maintain_orphans() misses no transition.
THEOREM OrphansAreTimed == Spec => []OrphanTimerArmed
BY Inductive, IInvImplies, PTL

\* The active conn of a client has no orphan, so that client_disconnect()
\* never orphans a service twice and no timer is ever restarted.
THEOREM OrphansStayBehind == Spec => []OrphansInInactiveConns
BY Inductive, IInvImplies, PTL

\* Subscriptions live exactly as long as the conn they were made on.
THEOREM SubscriptionsAreBound == Spec => []SubsOfActiveConns
BY Inductive, IInvImplies, PTL

\* The match notifications tell every subscriber exactly the services that
\* match its filter.
THEOREM ViewsAreExact == Spec => []SubscriberViewExact
BY Inductive, IInvImplies, PTL

\* The sd implements the registry of leases.
THEOREM Refinement == Spec => ImplementsRegistry
<1>1. Init => Registry!Init
  BY DEF Init, Registry!Init
<1>2. IInv /\ [Next]_vars => [Registry!Next]_<<service, now>>
  BY StepImplementsRegistry
<1>. QED  BY <1>1, <1>2, Inductive, PTL DEF Spec, ImplementsRegistry, Registry!Spec

\* Published data is immutable within a generation, and generations only grow.
THEOREM GenerationsHold == Spec => GenerationsImmutable
<1>1. IInv /\ [Next]_vars =>
        [\A s \in Services : service[s] # Nil /\ service'[s] # Nil =>
          \/ service'[s].generation > service[s].generation
          \/ /\ service'[s].generation = service[s].generation
             /\ service'[s].props = service[s].props
             /\ service'[s].ttl = service[s].ttl]_vars
  BY StepImplementsRegistry, StepKeepsGenerations
<1>. QED  BY <1>1, Inductive, PTL DEF Spec, GenerationsImmutable

\* No service is deleted but by an unpublish or after its TTL as an orphan.
THEOREM NothingLost == Spec => RemovedOnlyWhenDue
<1>1. IInv /\ [Next]_vars =>
        [\A s \in Services : service[s] # Nil /\ service'[s] = Nil =>
          \/ \E c \in Clients : client_unpublish(c, s)
          \/ /\ service_is_orphan(service[s])
             /\ now >= service[s].orphan_since + service[s].ttl]_vars
  BY StepRemovesWhenDue
<1>. QED  BY <1>1, Inductive, PTL DEF Spec, RemovedOnlyWhenDue

\* A publish that is answered OK took effect: the service is the publisher's,
\* with the data it published, and no orphan, in all of client_publish()'s
\* branches.
THEOREM PublishesHold == Spec => PublishTakesEffect
<1>1. Init => OrphanSinceOrNever
  BY DEF Init, OrphanSinceOrNever
<1>2. IInv /\ OrphanSinceOrNever /\ [Next]_vars => OrphanSinceOrNever'
  BY StepImplementsRegistry, StepKeepsOrphanSince
<1>3. IInv /\ OrphanSinceOrNever /\ [Next]_vars =>
        [\A c \in Clients, s \in Services, g \in Generations, p \in Props, t \in TTLs :
            client_publish(c, s, g, p, t) /\ rc' = "OK" =>
                service'[s] = Published(c, g, p, t)]_vars
  BY StepPublishes
<1>. QED  BY <1>1, <1>2, <1>3, Inductive, PTL DEF Spec, PublishTakesEffect

\* Subscribers read from the notifications whether a service was unpublished
\* or timed out, since client_unpublish() republishes an orphan first.
THEOREM CausesAreTold == Spec => DisappearanceTellsCause
<1>1. IInv /\ [Next]_vars =>
        [\A b \in SubIds, s \in Services :
          sub[b] # Nil /\ matches(sub[b].filter, service[s]) =>
            /\ (\E c \in Clients : client_unpublish(c, s)) =>
                  view'[b][s].state = "unpublished"
            /\ orphan_timeout_cb(s) => view'[b][s].state = "expired"]_vars
  BY StepTellsCause
<1>. QED  BY <1>1, Inductive, PTL DEF Spec, DisappearanceTellsCause

\* Empty conns are collected, but for those that capture_service() empties.
THEOREM OnlyVictimsAreKept == Spec => EmptyConnsAreVictims
<1>1. IInv /\ [Next]_vars =>
        [\A c \in Clients : \A k \in inactive'[c] :
          held'[k] = {} =>
            /\ k \in inactive[c]
            /\ held[k] = {} \/ \E d \in Clients \ {c} : sd_publish(d) \/ sd_unpublish(d)]_vars
  BY StepCollects
<1>. QED  BY <1>1, Inductive, PTL DEF Spec, EmptyConnsAreVictims

=============================================================================
