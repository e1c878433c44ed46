# A TLA+ verification project for tpaf

tpaf is the Tiny Pathfinder server: a daemon, `tpafd`, in which clients publish
*services* (an id, a generation, properties, a time to live) and subscribe to
the services whose properties match a filter. A service whose client has gone
becomes an *orphan* and is purged when its time to live has passed, unless some
client republishes it first.

This directory models the logic of the daemon in TLA+, model-checks it with TLC
on small instances, and proves its central properties with TLAPS for every
instance. `PROJECT.json` lists the runs, the source lines each definition
stands for, the hazards the properties are aimed at, and the theorems.

## 1. The system

The daemon is one thread around a libevent loop. There are no locks and no
awaits: every callback (a connection is readable or writable, a timer is due)
runs to completion. What makes it hard is not data races but the *order* of
callbacks: requests of several clients, lost connections, orphan timers and the
clean-out of slow handshakes interleave freely, and all of them work on one
database whose objects refer to each other by unchecked ids and pointers.
Nothing is persisted, so there is no recovery from a crash; a failing
`ut_assert()` is a crash, since asserts are never compiled out.

| component | source | state | operations | model |
|---|---|---|---|---|
| service discovery database | `sd/sd.c client.c conn.c db.c service.c generation.c sub.c` | clients with an active and some inactive connections; the services and subscriptions in each; the database's maps; one timer per orphan | `sd_client_connect/disconnect`, `sd_publish`, `sd_unpublish`, `sd_create_sub` + `sd_activate_sub`, `sd_unsubscribe`, the orphan timer | `ServiceDiscovery`, `ServiceRegistry` |
| reference counting | the same files, `util/plist.c pmap.c` | counts of clients, services and subscriptions; who holds them | the same calls, statement by statement, and `sd_destroy` | `RefCounts` |
| domain server | `proto/server.c`, handlers of `proto/proto_conn.c` | two lists of connections, each connection's client id and subscription transactions | accept, hello, term, clean-out timer, request handlers | `Server` |
| protocol connection | `proto/proto_conn.c` | output queue, awaited socket conditions, subscription transactions | `conn_process`, `notify_sub_match`, `try_send`, `await_update` | `ProtoConn` |
| protocol transactions | `proto/proto_ta.c` | the state and the parsed fields of a transaction | parse a request; accept, notify, complete, fail | `ProtoTa` (fields), `ProtoConn` (states, order) |
| pointer queue | `util/pqueue.c` | ring buffer | push, pop, peek, grow, compact | `Pqueue`, `Fifo` |
| filters | `sd/filter.c flist.c` | none (pure) | parse, match, print | `Filter` |
| properties | `sd/props.c pvalue.c` | multimap of values | add, look up, compare, to and from JSON | `Props` |
| lists, maps | `util/plist.c pmap.c` | an array that grows | append, delete, look up, clear, iterate | `Plist`, `Pmap`, `PointerMap`, `Memory` |
| string lists, buffers | `util/slist.c sbuf.c` | arrays | container operations | not modelled |
| messages, daemon, logging | `proto/msg.c daemon/main.c util/log.c` | none of interest | I/O | not modelled |

**How they interact.** A connection's handler calls one `sd_*()` function. A
change of a service calls back into `service_changed()`, which walks *all*
subscriptions and calls `notify_sub_match()` on the connection each of them
remembers, so that one client's request puts messages in other clients' queues;
then it adds, restarts or removes the orphan timer. `term()` disconnects the
client in the database and calls back into the server, which removes the
connection from one of its lists and frees it.

**What is hard, and what makes each part correct.**

* *Database.* Long sequences of legal calls: take-overs of services between
  clients, reconnects that leave services in old connections, garbage collection
  of connections and clients that may or may not be empty. Correct means: a
  service is in exactly one connection and that connection is its owner's
  (lookups are unchecked); a timer exists for orphans and only for them, with
  the right expiry; a subscriber can reconstruct the database from its
  notifications, including *why* a service went away; data changes only with a
  newer generation; nothing disappears before its time.
* *Server.* Three parties keep track of who is connected: the lists, the
  connection objects and the database. They must agree whenever a callback
  returns.
* *Connection.* Flow control with a soft limit, sends that stop half way, and
  conditions that are updated on some paths only: no lost wakeup, no busy loop,
  no request left unanswered, and no answer out of the protocol's order.
* *Filters.* A recursive-descent parser, a printer and a matcher, each with its
  own idea of special characters and parts: printing and parsing must be inverse
  (filters are compared in printed form), a malformed text must be rejected, and
  a match must be what the filter says.
* *Lifetimes.* One removal lets go of a service in three maps and a timer, of a
  connection and of a client, while the functions on the stack still work on
  them: nothing may be used after it is freed, and nothing be left over.
* *Messages.* A table says which fields a message has; the handlers get and pass
  them by position through untyped pointers. Exactly the well-formed requests
  must be accepted, every response must be as the table says, and what is
  published must come out at the other end.
* *Queue, lists and maps.* Modular arithmetic on a capacity that may be 0, growth
  of a wrapped ring, elements that move when one is deleted, iterations that run
  callbacks.

## 2. Modules

`ServiceDiscovery` — the database. An action per `sd_*()` outcome, named after
the function in `client.c` that does the work (`publish_new`,
`publish_newer_generation`, ... are the branches of `client_publish()`).
`struct conn` objects are drawn from the set `Conns`, as `malloc()` would,
because identity and reuse of connections is where the mistakes are; `held[k]`
and `subs[k]` are the maps of a conn. A service is its current generation
record; `prev` matters only to the commit that sets it, so
`service_commit(S, after)` takes both states. `view` is an auxiliary variable:
what a subscriber that replays its match notifications would believe. It is
written only by `sub_notify()`, which is where the code calls the subscriber.
`rc` is the code the last call returned.

Abstractions: a filter is the set of property sets it matches and a property
set is a value up to `props_equal()`; `inactive_conns` is a set, since its order
is only the order of a search that has at most one hit (`ServiceHeldOnce`);
time is a counter, and a timer fires at any moment after its expiry; the clock
only moves forward. `sd_create_sub()` and `sd_activate_sub()` are one action,
because one handler calls both. A disconnect commits its services one by one;
their notifications are independent of each other, so the action does them
together.

`ServiceRegistry` — what the database promises of the services alone: a registry
of leases with five kinds of step. `ServiceDiscovery!ImplementsRegistry`
instantiates it with `entry <- service`.

`Server` — EXTENDS `ServiceDiscovery` and composes it with the connections: an
action is an event-loop callback, with the database action of the call it makes
as a conjunct. `clientful_conns` is `server->client_conns`. What a handler does
when the database rejects a call is part of the action (the database's own
rejecting actions).

`ProtoConn` — one connection in detail, its socket and its client. A handler is
the set of outcomes it can have; the database's verdict is a choice. The XCM
socket is external: two channels of bounded room. `conn_process` is the
callback, split by what `xcm_receive()` returns; `SendOrTerm`/`try_send` follow
in the same step, as in the code. A publish or an unpublish may match the client's
own subscriptions (`OwnMatches`): these notifications are queued by the handler,
before the response, and twice when an unpublish republishes the service first.
`notify_sub_match` is the step of *another* connection's request, or of an orphan
timer, that reaches this one. `proto_ta_response` is the protocol
from the client's end; `garbled` is a state no conforming server produces.

`Filter` — the filter language, as operators named after the functions of
`filter.c`: constructors, `filter_str()`, `filter_parse()`, `filter_matches()`.
This is a component whose correctness is about text, so strings are sequences of
characters. A parser takes an index and returns the next one. `filter_matches()`
is the *set* of results the code can have, since the substring search can read
outside the value (`search_from`). `Glob` and `Meaning` are the reference: they
say what a filter means by quantification, with no search. The state is what a
client writes (a printed filter, with at most one character changed by `Slip`)
and the properties of a service. `INT64_MAX` is a constant, so that the
saturation of `strtoll()` happens within TLC's reach. The module is recursive,
and so only for TLC.

`Props` — properties as sequences of pairs, `props_equal()`, and the conversions
to and from JSON. A JSON value is a record; an object has its members in the order
of insertion, as Jansson iterates over them.

`ProtoTa` — what messages say. The table of commands is that of
`proto_ta.c`; `parse_req` is `proto_ta_req()` with all its error paths,
`produce_response` takes the arguments by position, and an argument that is
missing or of another C type becomes `json_junk`, which is of no field's type. `allocated` counts the field values
that have not been freed. There is one connection at a time, a service and a
subscription; where the rest of the database decides (a client id that is taken),
both outcomes are possible. A disconnect makes an orphan of the service only if it is
in the active connection of its client (`active`), and a refused request ends the
connection (`handle_req_err`). Clients send right requests (`Requests`) and whatever
else the constants `Garbled` and `FirstGarbled` hold. `publish` is auxiliary: the
request readers should be told of. The parser's text level is Jansson's and external; a filter is a text
that parses or does not.

`RefCounts` — lifetimes. Here a call is not one step: it puts its statements into
`todo`, and each step runs one statement, those of a called function before the
rest of the caller's. Every statement names what it dereferences. `map[h][m]` are
the keys of a map in order, since `plist_foreach()` goes by index, and deleting one
(`Deleted`) moves up those behind it. The loops, `plist_foreach` and `destroy_conns`
(`client_conn_foreach()`), put themselves back behind the statements of the callback
with the next index, and compare it with the length as it then is. Generations,
properties and time are left out: a publish is of a newer or the same generation,
a timer may fire at any time while its owner is away.

`Memory`, `Plist`, `Pmap`, `PointerMap` — blocks of memory with `Junk` in what has
not been written, the list that grows in one, the map that keeps its entries in a
list, and the map it implements.

`Pqueue`, `Fifo` — the ring buffer with its indices, and the queue it
implements.

`MC*` — for TLC only: filters, property values, requests and symmetry sets.
`MCWire` runs `Filter` and `ProtoTa` side by side, `MCContainers` the queue and the
map: a behaviour is about one of the two. `*_proofs` — the
theorems.

An operator named `X_Something` beside `X` (`adopts_OthersOnly`,
`term_KeepingSession`) is `X` with a plausible mistake in it: a dropped guard, a
missing reset, a wrong comparison. No specification uses it. `PROJECT.json`
("mutants") says which property finds it out.

## 3. What TLC checks

Passing runs:

| run | question | bounds | distinct states (about) |
|---|---|---|---|
| `sd_views` | Do notifications tell subscribers the truth? `SubscriberViewExact`, `DisappearanceTellsCause`, `GenerationsImmutable`, `PublishTakesEffect` | 2 clients, 1 service, 2 generations, 2 property sets, a matching and a selective filter, TTL 0 and 1, time to 2, 3 conns | 23 000 |
| `sd_ownership` | Do services, conns, subscriptions and timers stay consistent? `ConnOwnership`, `ServiceHeldOnce`, `OrphansInInactiveConns`, `OrphanTimerArmed`, `SubsOfActiveConns`, `RemovedOnlyWhenDue`, `EmptyConnsAreVictims`. Is the database a registry of leases? `ImplementsRegistry` | 2 clients, 2 services, 2 generations, TTL 0 and 1, 4 conns, so that a client has an active and two inactive ones | 217 000 |
| `server_sessions` | Do lists, sessions and callbacks agree? `ListsMatchHandshake`, `SessionsMatchDatabase`, `SubsReportToLiveConns`, `CleanOutOnlyOverdue` | 3 connections for 2 client ids, 2 subscriptions | 140 000 |
| `server_liveness` | Are slow handshakes dropped (`HandshakeOrDropped`), do orphans end (`OrphansEndEventually`)? | 2 connections, 2 clients, 1 service, TTL 0 and 1, time to 3, handshake limit 1 | 260 000 |
| `conn_protocol` | Does the connection keep the protocol? `NoLostWakeup`, `ResponsesConform`, `NoTransactionForgotten`, `Backpressure`. Do answers come and idle connections sleep? `RequestsAnswered`, `IdleConnSleeps` | 3 transactions, 2 subscriptions, all commands, up to 2 matches or items of a listing for a request, room for 2 messages to the client and 1 from it, limit 2, batch 2 | 384 000 |
| `refcounts` | Is everything freed once, and not before its last use? `NoUseAfterFree`, `AssertsHold`, `NothingLeaks`, `IterationStable` | 2 clients, 2 services, 2 subscriptions, 3 connection objects | 1 361 000 |
| `wire_formats` | Filters: are printing and parsing inverse (`RoundTrip`), does every accepted text have a normal form (`NormalForm`), is matching what the filter means (`MatchesMeaning`)? Messages: `AcceptedIfWellFormed`, `FieldsFreedOnce`, `ResponsesWellFormed`, `PublishedReachesReaders` | 112 filters of every kind, some with special characters; every text with one character left out, put in or replaced; up to 2 properties of 2 names and 9 values. Every command, with and without optional fields; on a fresh connection every request with one field left out, added or with a wrong value, and at any time eight requests with one or two things wrong, which between them take every error path of the parser; 2 generations, 2 TTLs, 15 property sets, some with repeated pairs | 1 154 000 |
| `containers` | Is the ring a FIFO (`ImplementsFifo`), the list of entries a map (`ImplementsMap`, `PmapTypeOK`), iterated over by age (`IterationOrderKept`)? | queues of up to 5 elements, spare capacity 3: two growths, wraps and compactions; maps of up to 4 entries: two growths | 48 000 |

The bounds are the smallest at which each case of the code happens: two clients
for every take-over; two services so that one can go while the other keeps its
connection and client alive; three connection objects for an active one and two
inactive ones of one client (four, with another client); a clock that lets a TTL
pass before, at and after the moment the timer is served. `Conns`, `ProtoConns`,
`MaxTime`, `WireRoom`, `MaxInbox`, `MaxMatches`, `MaxBacklog`, `MaxProps`, `MaxLen` and
`MaxEntries`, and sending the messages of `FirstGarbled` only while there is no client
and no service, are bounds of the model, not of the code; an action that needs a free object waits
when there is none. The limits of the code keep their names and get small
values (`SOFT_OUT_WIRE_LIMIT`, `MAX_SEND_BATCH`, `MAX_SPARE_CAPACITY`,
`MAX_HANDSHAKE_TIME`). Deadlock is not checked where the model legitimately
stops: at the horizon of the clock, when a filter has met all its properties,
after a failed assert, after `sd_destroy()`, and when a connection has been closed
by both ends. The containers never stop, and there it is checked.

Fairness. `server_liveness`: time passes, libevent serves an orphan timer that
stays due (`WF` of `TimerFires(s)`, one per timer), and the persistent clean-out
event keeps firing. `conn_protocol`: a socket that stays ready is dispatched
(`WF` of `conn_process`: libevent events are level triggered) and the client
keeps reading. No fairness is assumed of clients' requests, hellos or closes, nor
strong fairness of anything.

Runs that find a disagreement between the code and what its comments, asserts
and tests say of it (`findings` in `PROJECT.json`):

* `sd_purge_assert`: a client publishes, disconnects and reconnects without
  republishing; the orphan timer fires and `client_purge_orphan()`'s assert that
  the owner is not connected aborts the daemon.
* `sd_disconnect_orphans`: a client that reconnects and republishes leaves the
  service in its old, inactive connection; when it disconnects again, the service
  is not orphaned, has no timer, and stays for ever.
* `filter_substring`: after an intermediate part of a substring filter the search
  continues at an offset with the wrong sign, so that `(a=*a*a)` matches `ba`;
  for a part found further inside, it reads before the value.
* `filter_accepts`: `input_expect()` skips any character as if it were the
  expected one, so that `*a=b|` is accepted for `(a=b)`.

Three more peculiarities have no run of their own. The table gives `subscriptions`
no fields for a failure, so that it alone fails without a `fail-reason`
(`subscriptions_ta`). `capture_service()` does not
collect a connection or a client that a take-over leaves with nothing, as
`client_disconnect()` and `remove_service()` do: a disconnected client whose last
orphan another client adopts stays in the database. `EmptyConnsAreVictims` says
that this is the only way an empty connection stays. And `props_equal()` is
one-sided: two property sets of the same size are equal when every pair of the
first is in the second, so that with repeated pairs it is not symmetric, which the
helper `assure()` of `test/sd/props_testcases.c` takes it to be.
`PublishedReachesReaders` leaves out such properties.

The other properties are stated so that they hold in spite of these: for
instance `OrphansInInactiveConns` and `OrphanTimerArmed` speak of services that
are orphans, and `OrphansEndEventually` allows the abort;
`MatchesMeaning` leaves out filters that look for a part after an intermediate
one; `NormalForm` says what an accepted text becomes, not which are accepted.

## 4. What is proved

All theorems hold for arbitrary constants under the named ASSUMEs of the modules:
numbers are numbers, filters are sets of property sets, `Nil` is none of the
values it stands beside, objects of different kinds differ, and limits are
positive. TLC evaluates the same assumptions on every run.

*`ServiceDiscovery_proofs`.* The inductive invariant `IInv` is the type invariant,
`ConnOwnership` (conns apart, free conns empty), `ServiceHeldOnce`,
`OrphansInInactiveConns`, `OrphanTimerArmed`, `SubsOfActiveConns` and
`SubscriberViewExact` together. None is inductive alone: that
`capture_service()` finds the service it moves needs `ServiceHeldOnce`; that the
garbage collection of a client does not strand a service needs it too; that a
disconnect arms timers that were not running needs `OrphansInInactiveConns`; that
a disconnect stops exactly the right notifications needs `SubsOfActiveConns`. The
data part of the invariant, `Data(h, S, t, v)`, has the maps as parameters, since
`client_unpublish()` commits an adoption and then a removal in one step: the
proof shows that the invariant holds in between (`Data` of the intermediate
values) and that a removal preserves it from there. Theorems: `TypeCorrect`,
`ConnsAreOwned`, `ServicesAreHeld`, `OrphansStayBehind`, `OrphansAreTimed`,
`SubscriptionsAreBound`, `ViewsAreExact`, and, from the invariant, `GenerationsHold`,
`NothingLost`, `PublishesHold`, `CausesAreTold` (the republication in
`client_unpublish()` is what makes an unpublish of an orphan look like one),
`OnlyVictimsAreKept` and `Refinement` (the registry).

*`Server_proofs`.* `ServerImplementsDatabase`: a step of the composed server is a
step of the database or leaves it alone, so everything above holds of the server
as well. `SInv` adds the server's own part to `IInv`; the proof uses of the
database only which clients an action connects and disconnects and which
subscriptions it adds and removes (lemmas, one per kind of action). Theorems:
`ServerTypeCorrect`, `ListsAgree`, `SessionsAgree`, `SubsAgree`, `CleanOutIsFair`.

*`ProtoConn_proofs`.* `ConnTypeCorrect`, `WakeupsAreKept` and `SlowReadersWait`
(`Backpressure`): for every limit, batch size and socket room. The point of the
proof is `try_send()`: when it returns without updating the conditions, those
`try_receive()` has set for the longer queue include SENDABLE if anything is left,
and exclude RECEIVABLE if the queue is at its limit.
`ResponsesAreDue` (`ResponsesConform`) and `TransactionsAreKept`
(`NoTransactionForgotten`) are about what is still under way. `Settled(t)` is the
state the client will see transaction `t` in once it has read all that is on the
wire and in the queue, a recursive function over the two. The inductive invariant
`TaInv` says that no transaction settles garbled, and that the daemon's books agree
with the states they settle in (`Books`: no transaction waits in two requests or
belongs to two subscriptions; one that waits is as its request made it, one of a
subscription is accepted, any other is idle). Sending moves a message from the queue
to the wire and receiving one from the wire to the client: neither changes what
settles, which is associativity of the fold. A handler appends messages, first the
notifications of the client's own subscriptions, which leave their transactions
accepted (`Tells`), and the
lemmas say for each outcome what it does to the state of its own transaction and
that it leaves the others alone. The inductions over the length of a sequence use
`NatSetInduction`, which has the property to be shown as a *set* of numbers rather
than as an operator, and follows from the well-foundedness of `<`.

*`ProtoTa_proofs`.* For any set of right requests and any other messages (`Garbled`,
at any point of a connection, and `FirstGarbled`, before there is a client) that the
assumptions below allow: they may have any number of fields, of any names, any of
them wrong. `ValuesAreFreedOnce`
(`FieldsFreedOnce`): `HInv` says that a transaction is one that parsing some message
made, with only its state changed since, that there is a result exactly while there
is a transaction, and that it is what `parse_req` makes of the request. The lemma
`ParseHolds` goes through the paths of `parse_req` and shows of each that the values
it counts as held are those in the slots. `WellFormedAreAccepted`
(`AcceptedIfWellFormed`): on no path does parsing compare field names with a list of
those allowed; it counts. The proof is a counting argument: the fields found are as
many as there are names of the message outside the mandatory ones exactly when there
is no other name (`CountingFinds`), since the names of a command's fields are apart
(`RequestFields`) and none is mandatory.

`ResponsesFitTheirFields` (`ResponsesWellFormed`) and `ReadersAreToldWhatIsPublished`
(`PublishedReachesReaders`) follow a value all the way from a request to a reader.
`ResponseFits` says what `produce_response` makes of arguments that fit the fields, and
one lemma per kind of response shows that those the handlers pass do (`PlainResponses`,
`ServiceNotified`, `MatchNotified`, `SubscriptionNotified`, `ClientNotified`). That they
fit depends on what the handlers were given: `RInv` says that a transaction, a
subscription's too, still has what was parsed, `Got` what was parsed for each field. `SInv`
says that the service in the database is as the latest granted publish request has it
(`Published`), which is not trivial when that request was granted for the generation that
is there already and the old properties were kept: they are only `props_equal()` to those
of the request. `OInv` says that every response is well-formed and, if it tells of a
service, tells of that one (`Fine`). Each of the three is inductive given those before it
and `HInv`; TLC has checked them on the instance of `wire_formats`.

The assumptions speak of the data: `Nil` and `Error` (NULL and -1) are none of the values
they stand beside (`NilAssumption`); messages are finite objects whose integers are
integers, whose integers and strings are nothing else besides, and whose properties
convert to something (`MessagesAssumption`); the version and the time are not negative
(`TimesAssumption`). They restrict which values a message may have in one respect: there
is one service id and one subscription id (`OneOfEachAssumption`), and a message in which
one of them is a number that `proto_ta_req()` accepts has that one (`MessagesAssumption`).
A service that a disconnect leaves alone, because it is in an inactive connection of its
client, is reported as it is stored all the same: no invariant mentions `active`.

*`ProtoTa_proofs`, first part, about `Props`.* `PropsRoundTrip`: properties of any number that go from JSON to a
multimap and back have the pairs they had. Both conversions are loops, `props_to_json()`
one that looks for the member to append to: the proofs are inductions over the number of
properties and of members. `EqualProps`, which the rest of the module needs: if no pair of a JSON
object occurs twice, then properties that the one-sided `props_equal()` takes for the same
have exactly its pairs. As many pairs, all of them among the others, are all the others:
this is where repeated pairs would break it.

*`Pqueue_proofs`.* `RingInvariant` (`QInv`: the index is within the capacity and
the live part of the ring holds elements), `RingTypeCorrect`, `SpareBounded` (an
empty queue keeps little memory), and `Refinement`: the contents, read around the
ring, change as a FIFO does.

*`Pmap_proofs`.* `MInv` is the type invariant and that no key occurs twice, which
`pmap_add()` needs the list's search for. `MapTypeCorrect`, `MapRefinement` and
`OrderIsKept` follow for lists of any length: a lookup finds the first entry with
the key, which is the only one, and a delete moves the others without passing.

*`RefCountsPoints_proofs`, `RefCounts_proofs`.* For any number of clients, connections, services and
subscriptions, of which it is only assumed that no two kinds have one in common
(`DistinctConstants`). `IInv` has two parts: `Reached`, that the statements left in
`todo` and the data are at one of the program points, and `Calm`.

A point (`Connect1`, `Removal7`, `Raze4`, ...) is a shape of the rest of a call and what
then holds of the data. Nearly all have the database as it is between calls, `Good`, but
for what is named: `Good(d, L, X)` leaves out the objects in `X`, of which the point says
how many references they have and in which maps they are (`Held`), and takes the
connections in `L`, which their clients have let go of, as still being these clients'.
Where the data is in between, the point is about what it is going to be. A list that is
swept, each element giving back the reference of the list but staying in it until the
list is cleared, is described by the data with the swept part cut off (`Swept`); a
reference that is about to be given back, by the data after it (`Dropping`, `Freeing`);
a client that is being destroyed, by the data in which it has no connections any more
(`Dying`, `Razed`). `Dropping` and `Freeing` take any point for what comes after, so
that one argument covers every `Dec` of a service or subscription in every call.
In `sd_destroy()` the points ask less: every reference is in a map (`Counted`), and the
services and subscriptions are still in the database's maps when the connections go
(`Anchored`), so that none is freed while a map behind has it.

`Step(t, d, t2, d2)` restates what a statement does as a relation on constants
(`StepTaken`); `PointStep` shows, point by point, that the next statement is safe to run
and that a point is reached; the calls are in the one module, `sd_destroy()` and the
theorems in the other. From it follow `NeverUsesFreed` (`NoUseAfterFree`) and
`AssertsNeverFail` (`AssertsHold`); from the points between calls, `NeverLeaks`
(`NothingLeaks`). The reference that `remove_service()` takes on the client is what
keeps `Removal6` to `Removal10` safe: without it the client would be `Gone` once it
has left the database's map (`Parting` is what holds instead). For `IterationsStable`
(`IterationStable`), `Alters` says of a statement which lists it and whatever it calls
may change, and `Calm` that nothing in `todo` stands before an iteration over a list
that it alters. No statement adds one that alters more than itself. TLC has checked both
parts of `IInv` on an instance smaller than that of `refcounts`, with the indices that the
points quantify over bounded.

Proved and not run: the type invariants of `Server`, `ProtoConn` and `Pqueue`, and
`SpareCapacityBounded`, each of which shows little on a small instance.

Only model-checked: the liveness properties; the filter language, whose operators
are recursive (`RoundTrip`, `NormalForm`, `MatchesMeaning`): what a recursive operator
computes takes an induction over its argument that the prover does not have.

## 5. What is not modelled, and the plan

Left out for good: command line and daemonising, logging, the text level of JSON,
memory exhaustion (the code exits), `server_destroy()` at process exit, string
lists and buffers, cloning, and the functions of `props.c` nothing in the daemon
uses (`props_get()`, `props_get_one()`, `props_del_one()`, `props_num_names()`).
A clock that is stepped (`ut_ftime()` is CLOCK_REALTIME) is not modelled: orphan
timers are armed with a delay, so that only the handshake limit and the times that
are reported are exposed. The clock of the models stands still within a callback: a TTL
of 0 is due at once, but the time left is never negative when a timer is armed, and
the clamp of a negative one to 0 is not exercised.

Planned, in this order:

1. Several connections of `ProtoConn` on one `Server`: the delivery of
   notifications to queues, end to end.
2. The iterations of `Plist` with callbacks, as a refinement between `RefCounts`
   and `ServiceDiscovery`.
