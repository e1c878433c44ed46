--------------------------- MODULE ServiceRegistry ---------------------------
(***************************************************************************)
(* What tpafd promises of the services it stores, without connections,     *)
(* subscriptions or timers: a registry of leases.  A service is owned by a *)
(* client or, from some moment on, an orphan; its data is replaced only by *)
(* a newer generation; it leaves the registry when it is unpublished, or   *)
(* as an orphan once its time to live has passed.  ServiceDiscovery is     *)
(* shown to implement it.                                                  *)
(***************************************************************************)
EXTENDS Integers

CONSTANTS Clients, Services, Generations, Props, TTLs, Nil

VARIABLES entry, now

IsOrphan(s) == entry[s] # Nil /\ entry[s].orphan_since >= 0

Owned(c, g, p, t) ==
    [generation |-> g, props |-> p, ttl |-> t, orphan_since |-> -1,
     client_id |-> c]

Init == entry = [s \in Services |-> Nil] /\ now = 0

\* A new service, or a newer generation of one, whoever owns it.
Publish(c, s, g, p, t) ==
    /\ entry[s] = Nil \/ g > entry[s].generation
    /\ entry' = [entry EXCEPT ![s] = Owned(c, g, p, t)]
    /\ UNCHANGED now

\* The data a service has already makes its publisher the owner.
Adopt(c, s) ==
    /\ entry[s] # Nil
    /\ entry' = [entry EXCEPT ![s] =
            Owned(c, entry[s].generation, entry[s].props, entry[s].ttl)]
    /\ UNCHANGED now

\* The owner of the services S, none of them an orphan, has disconnected.
Orphan(c, S) ==
    /\ \A s \in S : entry[s] # Nil /\ ~IsOrphan(s) /\ entry[s].client_id = c
    /\ entry' = [s \in Services |->
            IF s \in S THEN [entry[s] EXCEPT !.orphan_since = now] ELSE entry[s]]
    /\ UNCHANGED now

Unpublish(s) ==
    /\ entry[s] # Nil
    /\ entry' = [entry EXCEPT ![s] = Nil]
    /\ UNCHANGED now

Expire(s) ==
    /\ IsOrphan(s)
    /\ now >= entry[s].orphan_since + entry[s].ttl
    /\ entry' = [entry EXCEPT ![s] = Nil]
    /\ UNCHANGED now

Tick == now' = now + 1 /\ UNCHANGED entry

Next ==
    \/ \E c \in Clients, s \in Services, g \in Generations, p \in Props, t \in TTLs :
            Publish(c, s, g, p, t)
    \/ \E c \in Clients, s \in Services : Adopt(c, s)
    \/ \E c \in Clients, S \in SUBSET Services : Orphan(c, S)
    \/ \E s \in Services : Unpublish(s) \/ Expire(s)
    \/ Tick

Spec == Init /\ [][Next]_<<entry, now>>
==============================================================================
