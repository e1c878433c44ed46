------------------------------- MODULE ProtoTa ------------------------------
(* Messages and what they say (proto/proto_ta.c): which requests are        *)
(* accepted, what the handlers of proto_conn.c get out of them by position, *)
(* and what the responses they put together tell a client by name. One      *)
(* connection at a time, with a database of at most one service and one     *)
(* subscription of its own: enough for what is published to come back out.  *)
(* Where other connections' clients and subscriptions decide, both outcomes *)
(* are possible. The order of responses and the queue they are put on are   *)
(* ProtoConn's.                                                             *)
EXTENDS Props, FiniteSets

CONSTANTS
    Uint63s,        \* [field name -> the integers clients write there]
    Texts,          \* the filters clients write
    InvalidTexts,   \* those that filter_parse() rejects; others match everything
    Printed,        \* [text of a filter -> what filter_str() makes of the filter]
    AllProps,       \* the properties clients publish
    Garbled,        \* what clients send besides right requests, at any time
    FirstGarbled,   \* and what they send only before there is a client (a bound)
    PROTO_VERSION,
    Address,        \* xcm_remote_addr()
    Now,            \* a time
    Error           \* the result -1

\* One service and one subscription.
ASSUME OneOfEachAssumption ==
    \A n \in {"service-id", "subscription-id"} :
        IsFiniteSet(Uint63s[n]) /\ Cardinality(Uint63s[n]) = 1

VARIABLES
    request,    \* the message being handled: its fields' values, or Nil
    rc,         \* the result of proto_ta_req() or Nil
    ta,         \* its transaction, or Nil
    sub_ta,     \* the transaction of the subscription, or Nil
    allocated,  \* the number of field values allocated and not freed
    client_id,  \* of the connection, -1 before the handshake
    service,    \* the service in the database, or Nil
    active,     \* the service is in its client's active connection
    publish,    \* the latest publish request for it that was granted, or Nil
    out         \* the responses the latest step queued

taVars == <<request, rc, ta, sub_ta, allocated, client_id, service, active, publish, out>>

-----------------------------------------------------------------------------
(* Transaction types and their fields.                                      *)

Field(name, type) == [name |-> name, type |-> type]
Uint63(name) == Field(name, "uint63")
Str(name) == Field(name, "str")

fail_reason == <<Str("fail-reason")>>

\* Fields not mentioned are empty.
Type(cmd, ia_type) ==
    [cmd |-> cmd, ia_type |-> ia_type, req_fields |-> <<>>, opt_req_fields |-> <<>>,
     notify_fields |-> <<>>, opt_notify_fields |-> <<>>, complete_fields |-> <<>>,
     opt_fail_fields |-> fail_reason]

hello_ta ==
    [Type("hello", "single_response") EXCEPT
        !.req_fields = <<Uint63("client-id"), Uint63("protocol-minimum-version"),
                         Uint63("protocol-maximum-version")>>,
        !.complete_fields = <<Uint63("protocol-version")>>]

publish_ta ==
    [Type("publish", "single_response") EXCEPT
        !.req_fields = <<Uint63("service-id"), Uint63("generation"),
                         Field("service-props", "props"), Uint63("ttl")>>]

unpublish_ta ==
    [Type("unpublish", "single_response") EXCEPT !.req_fields = <<Uint63("service-id")>>]

subscribe_ta ==
    [Type("subscribe", "multi_response") EXCEPT
        !.req_fields = <<Uint63("subscription-id")>>,
        !.opt_req_fields = <<Str("filter")>>,
        !.notify_fields = <<Field("match-type", "match_type"), Uint63("service-id")>>,
        !.opt_notify_fields = <<Uint63("generation"), Field("service-props", "props"),
                                Uint63("ttl"), Uint63("client-id"),
                                Field("orphan-since", "number")>>]

unsubscribe_ta ==
    [Type("unsubscribe", "single_response") EXCEPT !.req_fields = <<Uint63("subscription-id")>>]

ping_ta == Type("ping", "single_response")

services_ta ==
    [Type("services", "multi_response") EXCEPT
        !.opt_req_fields = <<Str("filter")>>,
        !.notify_fields = <<Uint63("service-id"), Uint63("generation"),
                            Field("service-props", "props"), Uint63("ttl"), Uint63("client-id")>>,
        !.opt_notify_fields = <<Field("orphan-since", "number")>>]

subscriptions_ta ==
    [Type("subscriptions", "multi_response") EXCEPT
        !.notify_fields = <<Uint63("subscription-id"), Uint63("client-id")>>,
        !.opt_notify_fields = <<Str("filter")>>,
        !.opt_fail_fields = <<>>]

clients_ta ==
    [Type("clients", "multi_response") EXCEPT
        !.notify_fields = <<Uint63("client-id"), Str("client-address"), Uint63("time")>>]

proto_ta_types ==
    {hello_ta, publish_ta, unpublish_ta, subscribe_ta, unsubscribe_ta, ping_ta,
     services_ta, subscriptions_ta, clients_ta}

Mandatory == {"ta-cmd", "ta-id", "msg-type"}
PROTO_NUM_MANDANTORY_FIELDS == 3

lookup_type(cmd_name) ==
    IF \E t \in proto_ta_types : t.cmd = cmd_name
    THEN CHOOSE t \in proto_ta_types : t.cmd = cmd_name
    ELSE Nil

MatchTypes == [sub_match_type_appeared |-> "appeared", sub_match_type_modified |-> "modified",
               sub_match_type_disappeared |-> "disappeared"]

-----------------------------------------------------------------------------
(* Parsing a request.                                                       *)

get_json(msg, name) == IF name \in DOMAIN msg THEN msg[name] ELSE Nil

\* The value of a field of a message: Nil if it is optional and not there,
\* Error if the message is to be rejected.
get_field(msg, field, opt) ==
    LET json == get_json(msg, field.name)
    IN  IF json = Nil THEN (IF opt THEN Nil ELSE Error)
        ELSE CASE field.type = "uint63" /\ json.type = "integer" ->
                        IF json.number >= 0 THEN json.number ELSE Error
               [] field.type = "number" /\ json.type \in {"integer", "real"} -> json.number
               [] field.type = "str" /\ json.type = "string" -> json.string
               [] field.type = "match_type" /\ json.type = "string" ->
                        IF \E m \in DOMAIN MatchTypes : MatchTypes[m] = json.string
                        THEN CHOOSE m \in DOMAIN MatchTypes : MatchTypes[m] = json.string
                        ELSE Error
               [] field.type = "props" /\ json.type = "object" ->
                        LET ps == json_to_props(json) IN IF ps = Nil THEN Error ELSE ps
               [] OTHER -> Error

NumValues(values) == Cardinality({i \in DOMAIN values : values[i] # Nil})

\* Freed values stay in their slots.
free_fields_Dangling(values) == values

\* The slots of the values, which are freed, are NULL afterwards.
free_fields(values) == [i \in DOMAIN values |-> Nil]

\* The slots of the fields, and their number or Error; the fields up to the
\* first that is wrong are filled in and then freed.
get_fields(msg, fields, opt) ==
    LET got == [i \in DOMAIN fields |-> get_field(msg, fields[i], opt)]
        wrong == {i \in DOMAIN fields : got[i] = Error}
        filled == [i \in DOMAIN fields |-> IF \E j \in wrong : j <= i THEN Nil ELSE got[i]]
    IN  IF wrong = {} THEN [num |-> NumValues(got), values |-> got, held |-> NumValues(got)]
        ELSE [num |-> Error, values |-> free_fields(filled), held |-> 0]

proto_ta_create ==
    [state |-> "initialized", ta_id |-> -1, type |-> Nil, req |-> <<>>, opt_req |-> <<>>]

too_many_fields_Uncounted(msg, visited) == FALSE
too_many_fields(msg, visited) == Cardinality(DOMAIN msg) > visited

\* The transaction after proto_ta_req(), its result and the values it holds.
Refused(t, held) == [ta |-> t, rc |-> -1, held |-> held]

parse_req(msg) ==
    LET ta_id == get_field(msg, Uint63("ta-id"), FALSE)
        cmd == get_field(msg, Str("ta-cmd"), FALSE)
        msg_type == get_field(msg, Str("msg-type"), FALSE)
        named == [proto_ta_create EXCEPT !.ta_id = ta_id]
        type == lookup_type(cmd)
        req == get_fields(msg, type.req_fields, FALSE)
        opt == get_fields(msg, type.opt_req_fields, TRUE)
        typed == [named EXCEPT !.type = type, !.req = req.values]
        both == [typed EXCEPT !.opt_req = opt.values]
        \* what the error paths leave in the transaction
        freed == [both EXCEPT !.req = free_fields(req.values)]
    IN  IF ta_id = Error THEN Refused(proto_ta_create, 0)
        ELSE IF cmd = Error \/ msg_type = Error \/ msg_type # "request" THEN Refused(named, 0)
        ELSE IF type = Nil THEN Refused(named, 0)
        ELSE IF req.num = Error THEN Refused(typed, req.held)
        ELSE IF opt.num = Error THEN Refused(freed, opt.held)
        ELSE IF too_many_fields(msg, PROTO_NUM_MANDANTORY_FIELDS + req.num + opt.num)
             THEN Refused([freed EXCEPT !.opt_req = free_fields(opt.values)], 0)
        ELSE [ta |-> [both EXCEPT !.state = "requested"], rc |-> 0, held |-> req.held + opt.held]

proto_ta_req ==
    /\ request # Nil /\ rc = Nil
    /\ LET parsed == parse_req(request)
       IN  /\ ta' = parsed.ta
           /\ rc' = parsed.rc
           /\ allocated' = allocated + parsed.held
    /\ out' = <<>>
    /\ UNCHANGED <<request, sub_ta, client_id, service, active, publish>>

has_term(t) == t.state \in {"completed", "failed"}

\* The field values are freed, as many as there are in the slots.
Released(t) == NumValues(t.req) + NumValues(t.opt_req)

\* The end of handle_req().
proto_ta_destroy ==
    /\ ta # Nil /\ rc = 0 /\ has_term(ta)
    /\ allocated' = allocated - Released(ta)
    /\ request' = Nil /\ rc' = Nil /\ ta' = Nil
    /\ out' = <<>>
    /\ UNCHANGED <<sub_ta, client_id, service, active, publish>>

-----------------------------------------------------------------------------
(* The end of the connection, and the beginning of another.                 *)

\* The subscription's transaction is destroyed, and the service becomes an
\* orphan if it is in the active connection, where one that its client has
\* republished after a reconnect is not.
Disconnected ==
    /\ client_id' = -1
    /\ sub_ta' = Nil
    /\ service' = IF service # Nil /\ service.client_id = client_id /\ active
                  THEN [service EXCEPT !.orphan_since = Now] ELSE service
    /\ active' = FALSE
    /\ out' = <<>>
    /\ UNCHANGED publish

ReleasedSub == IF sub_ta = Nil THEN 0 ELSE Released(sub_ta)

\* The client closes it.
term ==
    /\ ta = Nil /\ request = Nil /\ client_id # -1
    /\ allocated' = allocated - ReleasedSub
    /\ Disconnected
    /\ UNCHANGED <<request, rc, ta>>

\* handle_req() fails, and so does try_receive(): a request was refused.
handle_req_err ==
    /\ ta # Nil /\ rc = -1
    /\ allocated' = allocated - Released(ta) - ReleasedSub
    /\ request' = Nil /\ rc' = Nil /\ ta' = Nil
    /\ Disconnected

-----------------------------------------------------------------------------
(* Putting a response together. An argument is a pair of its C type and its *)
(* value.                                                                   *)

Int64(n) == <<"int64", n>>
Null == <<"null", Nil>>

\* What va_arg() makes of an argument that is not there, and what becomes of
\* it, of NULL or of an argument of another type in a message.
Missing == <<"junk", Nil>>
json_junk == [type |-> "junk", number |-> Nil, string |-> Nil, elems |-> <<>>]

set_field(field, arg) ==
    CASE field.type = "uint63" /\ arg[1] = "int64" -> json_integer(arg[2])
      [] field.type = "number" /\ arg[1] = "double" -> json_real(arg[2])
      [] field.type = "str" /\ arg[1] = "str" -> json_string(arg[2])
      [] field.type = "props" /\ arg[1] = "props" -> props_to_json(arg[2])
      [] field.type = "match_type" /\ arg[1] = "match_type" -> json_string(MatchTypes[arg[2]])
      [] OTHER -> json_junk

fields_of(type, msg_type) ==
    CASE msg_type = "notify" -> type.notify_fields
      [] msg_type = "complete" -> type.complete_fields
      [] OTHER -> <<>>

opt_fields_of(type, msg_type) ==
    CASE msg_type = "notify" -> type.opt_notify_fields
      [] msg_type = "fail" -> type.opt_fail_fields
      [] OTHER -> <<>>

\* The arguments are taken in the order of the fields.
produce_response(t, msg_type, args) ==
    LET fields == fields_of(t.type, msg_type)
        all == fields \o opt_fields_of(t.type, msg_type)
        arg(i) == IF i <= Len(args) THEN args[i] ELSE Missing
        set == {i \in DOMAIN all : i <= Len(fields) \/ arg(i) # Null}
        at(n) == CHOOSE i \in set : all[i].name = n
    IN  [n \in Mandatory \cup {all[i].name : i \in set} |->
            CASE n = "ta-cmd" -> json_string(t.type.cmd)
              [] n = "ta-id" -> json_integer(t.ta_id)
              [] n = "msg-type" -> json_string(msg_type)
              [] OTHER -> set_field(all[at(n)], arg(at(n)))]

accept(t) == produce_response(t, "accept", <<>>)
notify(t, args) == produce_response(t, "notify", args)
complete(t, args) == produce_response(t, "complete", args)
fail(t, reason) == produce_response(t, "fail", <<<<"str", reason>>>>)

\* proto_ta_complete() and proto_ta_fail() for ta.
Complete(args) == ta' = [ta EXCEPT !.state = "completed"] /\ out' = <<complete(ta, args)>>
Fail(reason) == ta' = [ta EXCEPT !.state = "failed"] /\ out' = <<fail(ta, reason)>>

-----------------------------------------------------------------------------
(* The handlers.                                                            *)

orphan_since(s) == IF s.orphan_since = Nil THEN Null ELSE <<"double", s.orphan_since>>

\* What notify_sub_match() and service_notify_cb() pass of a service.
service_args(s) ==
    <<Int64(s.id), Int64(s.generation), <<"props", s.props>>, Int64(s.ttl), Int64(s.client_id),
      orphan_since(s)>>

notify_sub_match(t, s, match_type) ==
    notify(t, <<<<"match_type", match_type>>>> \o
              IF match_type = "sub_match_type_disappeared"
              THEN <<Int64(s.id), Null, Null, Null, Null, Null>>
              ELSE service_args(s))

\* The notifications of a change: none without a subscription.
Matched(s, match_type) ==
    IF sub_ta = Nil THEN <<>> ELSE <<notify_sub_match(sub_ta, s, match_type)>>

Handling(cmd) ==
    /\ ta # Nil /\ rc = 0 /\ ta.state = "requested"
    /\ ta.type.cmd = cmd

Ready(cmd) == Handling(cmd) /\ client_id # -1

handle_hello ==
    /\ Handling("hello")
    /\ LET id == ta.req[1]
           min_version == ta.req[2]
           max_version == ta.req[3]
       IN  IF client_id # -1
           THEN /\ IF client_id # id THEN Fail("permission-denied")
                   ELSE Complete(<<Int64(PROTO_VERSION)>>)
                /\ UNCHANGED client_id
           ELSE IF min_version > PROTO_VERSION \/ max_version < PROTO_VERSION
           THEN Fail("unsupported-protocol-version") /\ UNCHANGED client_id
           ELSE \/ Complete(<<Int64(PROTO_VERSION)>>) /\ client_id' = id
                \/ Fail("client-id-exists") /\ UNCHANGED client_id
    /\ UNCHANGED <<request, rc, sub_ta, allocated, service, active, publish>>

handle_no_hello ==
    /\ \E t \in proto_ta_types \ {hello_ta} : Handling(t.cmd)
    /\ client_id = -1
    /\ Fail("no-hello")
    /\ UNCHANGED <<request, rc, sub_ta, allocated, client_id, service, active, publish>>

\* client_publish() on the one service.
Granted(new) ==
    \/ service = Nil
    \/ new.generation > service.generation
    \/ /\ new.generation = service.generation
       /\ props_equal(new.props, service.props)
       /\ new.ttl = service.ttl

\* A new service and one that is taken over from another client go into the
\* active connection; its owner's own stays where it is.
handle_publish ==
    /\ Ready("publish")
    /\ LET new == [id |-> ta.req[1], generation |-> ta.req[2], props |-> ta.req[3],
                   ttl |-> ta.req[4], client_id |-> client_id, orphan_since |-> Nil]
           kept == service # Nil /\ new.generation = service.generation
           stored == IF kept THEN [service EXCEPT !.client_id = client_id, !.orphan_since = Nil]
                     ELSE new
       IN  IF Granted(new)
           THEN /\ service' = stored
                /\ active' = (service = Nil \/ service.client_id # client_id \/ active)
                /\ publish' = request
                /\ ta' = [ta EXCEPT !.state = "completed"]
                /\ out' = (IF stored = service THEN <<>>
                           ELSE Matched(stored, IF service = Nil THEN "sub_match_type_appeared"
                                                ELSE "sub_match_type_modified"))
                          \o <<complete(ta, <<>>)>>
           ELSE /\ Fail(IF new.generation = service.generation
                        THEN "same-generation-but-different" ELSE "old-generation")
                /\ UNCHANGED <<service, active, publish>>
    /\ UNCHANGED <<request, rc, sub_ta, allocated, client_id>>

handle_unpublish ==
    /\ Ready("unpublish")
    /\ LET owned == [service EXCEPT !.client_id = client_id, !.orphan_since = Nil]
       IN  IF service # Nil /\ ta.req[1] = service.id
           THEN /\ service' = Nil /\ active' = FALSE /\ publish' = Nil
                /\ ta' = [ta EXCEPT !.state = "completed"]
                /\ out' = (IF owned = service THEN <<>> ELSE Matched(owned, "sub_match_type_modified"))
                          \o Matched(owned, "sub_match_type_disappeared")
                          \o <<complete(ta, <<>>)>>
           ELSE /\ Fail("non-existent-service-id")
                /\ UNCHANGED <<service, active, publish>>
    /\ UNCHANGED <<request, rc, sub_ta, allocated, client_id>>

\* A granted subscription's transaction stays; handle_req() is done with it.
\* Another connection may have a subscription of that id.
handle_subscribe ==
    /\ Ready("subscribe")
    /\ \/ /\ \/ ta.opt_req[1] \in InvalidTexts /\ Fail("invalid-filter-syntax")
             \/ ta.opt_req[1] \notin InvalidTexts /\ Fail("subscription-id-exists")
          /\ UNCHANGED <<request, rc, sub_ta>>
       \/ /\ sub_ta = Nil /\ ta.opt_req[1] \notin InvalidTexts
          /\ sub_ta' = [ta EXCEPT !.state = "accepted"]
          /\ out' = <<accept(ta)>> \o
                    (IF service = Nil THEN <<>>
                     ELSE <<notify_sub_match(ta, service, "sub_match_type_appeared")>>)
          /\ ta' = Nil /\ request' = Nil /\ rc' = Nil
    /\ UNCHANGED <<allocated, client_id, service, active, publish>>

handle_unsubscribe ==
    /\ Ready("unsubscribe")
    /\ IF sub_ta = Nil \/ ta.req[1] # sub_ta.req[1]
       THEN /\ Fail("non-existent-subscription-id") \/ Fail("permission-denied")
            /\ UNCHANGED <<sub_ta, allocated>>
       ELSE /\ ta' = [ta EXCEPT !.state = "completed"]
            /\ out' = <<complete(ta, <<>>), complete(sub_ta, <<>>)>>
            /\ sub_ta' = Nil
            /\ allocated' = allocated - Released(sub_ta)
    /\ UNCHANGED <<request, rc, client_id, service, active, publish>>

\* accept, a notification for each entry and complete.
List(entries) ==
    /\ ta' = [ta EXCEPT !.state = "completed"]
    /\ out' = <<accept(ta)>> \o entries \o <<complete(ta, <<>>)>>

handle_services ==
    /\ Ready("services")
    /\ IF ta.opt_req[1] \in InvalidTexts THEN Fail("invalid-filter-syntax")
       ELSE List(IF service = Nil THEN <<>> ELSE <<notify(ta, service_args(service))>>)
    /\ UNCHANGED <<request, rc, sub_ta, allocated, client_id, service, active, publish>>

\* The filter as it was parsed and is printed again.
sub_get_filter_str(t) ==
    IF t.opt_req[1] = Nil THEN Null ELSE <<"str", Printed[t.opt_req[1]]>>

\* The id where the filter belongs.
sub_args_Swapped(t, id) == <<Int64(t.req[1]), sub_get_filter_str(t), Int64(id)>>
sub_args(t, id) == <<Int64(t.req[1]), Int64(id), sub_get_filter_str(t)>>

handle_subscriptions ==
    /\ Ready("subscriptions")
    /\ List(IF sub_ta = Nil THEN <<>> ELSE <<notify(ta, sub_args(sub_ta, client_id))>>)
    /\ UNCHANGED <<request, rc, sub_ta, allocated, client_id, service, active, publish>>

handle_clients ==
    /\ Ready("clients")
    /\ List(<<notify(ta, <<Int64(client_id), <<"str", Address>>, Int64(Now)>>)>>)
    /\ UNCHANGED <<request, rc, sub_ta, allocated, client_id, service, active, publish>>

handle_ping ==
    /\ Ready("ping")
    /\ Complete(<<>>)
    /\ UNCHANGED <<request, rc, sub_ta, allocated, client_id, service, active, publish>>

\* The service of a client that is not there is purged.
orphan_timeout_cb ==
    /\ ta = Nil /\ request = Nil
    /\ service # Nil /\ service.orphan_since # Nil /\ service.client_id # client_id
    /\ service' = Nil /\ active' = FALSE /\ publish' = Nil
    /\ out' = Matched(service, "sub_match_type_disappeared")
    /\ UNCHANGED <<request, rc, ta, sub_ta, allocated, client_id>>

-----------------------------------------------------------------------------
(* The client.                                                              *)

FieldNames(fields) == {fields[i].name : i \in DOMAIN fields}

\* A right request: any values, with or without the optional fields.
RightRequests(t) ==
    LET all == t.req_fields \o t.opt_req_fields
        typeOf(n) == all[CHOOSE i \in DOMAIN all : all[i].name = n].type
        Written(n) == CASE n = "ta-cmd" -> {json_string(t.cmd)}
                       [] n = "msg-type" -> {json_string("request")}
                       [] n \in DOMAIN Uint63s -> {json_integer(u) : u \in Uint63s[n]}
                       [] typeOf(n) = "str" -> {json_string(s) : s \in Texts}
                       [] typeOf(n) = "props" -> {props_to_json(ps) : ps \in AllProps}
        AndField(n, msgs) == {[x \in DOMAIN msg \cup {n} |-> IF x = n THEN v ELSE msg[x]] :
                                 msg \in msgs, v \in Written(n)}
        With(D) == FoldSet(AndField, {<<>>}, D)
    IN  UNION {With(Mandatory \cup FieldNames(t.req_fields) \cup O) : O \in SUBSET FieldNames(t.opt_req_fields)}

Requests == UNION {RightRequests(t) : t \in proto_ta_types}

HasType(json, type) ==
    CASE type = "uint63" -> json.type = "integer" /\ json.number \in Nat
      [] type = "number" -> json.type \in {"integer", "real"}
      [] type \in {"str", "match_type"} -> json.type = "string"
      [] type = "props" ->
            /\ json.type = "object"
            /\ \A i \in DOMAIN json.elems :
                  /\ json.elems[i].value.type = "array"
                  /\ \A v \in Range(json.elems[i].value.elems) : v.type \in {"integer", "string"}

Messages == Requests \cup Garbled \cup FirstGarbled

TaStates == {"initialized", "requested", "accepted", "completed", "failed"}

\* The transactions there can be, whatever has become of them.
Transactions == {[parse_req(msg).ta EXCEPT !.state = st] : msg \in Messages, st \in TaStates}

\* NULL is no transaction, transaction type or number, and -1 is no uint63.
ASSUME NilAssumption ==
    /\ Nil \notin Transactions /\ Nil \notin proto_ta_types /\ Nil \notin Int
    /\ Error \notin Nat \cup {Nil}

ASSUME TimesAssumption == PROTO_VERSION \in Nat /\ Now \in Nat

\* Messages are JSON objects, and their values are not NULL or -1.
ASSUME MessagesAssumption ==
    \A msg \in Messages :
        /\ msg # Nil /\ IsFiniteSet(DOMAIN msg)
        /\ \A n \in DOMAIN msg :
              /\ msg[n] # Nil /\ IsScalar(msg[n])
              /\ msg[n].type = "integer" => msg[n].number \in Int
              /\ msg[n].type = "string" => msg[n].string \notin {Nil, Error}
              /\ HasType(msg[n], "props") => /\ json_to_props(msg[n]) \notin {Nil, Error}
                                             /\ IsObject(msg[n])
              /\ n \in {"service-id", "subscription-id"} /\ HasType(msg[n], "uint63") =>
                    msg[n].number \in Uint63s[n]

ClientRequest ==
    /\ request = Nil /\ ta = Nil
    /\ \/ request' \in Requests \cup Garbled
       \/ service = Nil /\ client_id = -1 /\ request' \in FirstGarbled
    /\ out' = <<>>
    /\ UNCHANGED <<rc, ta, sub_ta, allocated, client_id, service, active, publish>>

ProtoTaInit ==
    /\ request = Nil /\ rc = Nil
    /\ ta = Nil /\ sub_ta = Nil
    /\ allocated = 0
    /\ client_id = -1
    /\ service = Nil /\ active = FALSE /\ publish = Nil
    /\ out = <<>>

ProtoTaNext ==
    \/ ClientRequest \/ proto_ta_req \/ proto_ta_destroy \/ handle_req_err
    \/ handle_hello \/ handle_no_hello \/ handle_publish \/ handle_unpublish
    \/ handle_subscribe \/ handle_unsubscribe
    \/ handle_services \/ handle_subscriptions \/ handle_clients \/ handle_ping
    \/ term \/ orphan_timeout_cb

ProtoTaSpec == ProtoTaInit /\ [][ProtoTaNext]_taVars

-----------------------------------------------------------------------------
(* Properties.                                                              *)

\* A message with exactly these fields, the optional ones or not.
HasFields(msg, fields, opt_fields) ==
    LET all == fields \o opt_fields
    IN  /\ FieldNames(fields) \subseteq DOMAIN msg
        /\ DOMAIN msg \subseteq Mandatory \cup FieldNames(all)
        /\ \A i \in DOMAIN all :
              all[i].name \in DOMAIN msg => HasType(msg[all[i].name], all[i].type)

\* A request of one of the commands, with the fields of that command.
RequestWellFormed(msg) ==
    /\ Mandatory \subseteq DOMAIN msg
    /\ HasType(msg["ta-id"], "uint63")
    /\ msg["msg-type"] = json_string("request")
    /\ \E t \in proto_ta_types :
          /\ msg["ta-cmd"] = json_string(t.cmd)
          /\ HasFields(msg, t.req_fields, t.opt_req_fields)

\* proto_ta_req(), which looks fields up one by one and then compares numbers
\* of fields, accepts a request if and only if it has all the fields of its
\* command, no other than the optional ones, and each of its type.
AcceptedIfWellFormed ==
    rc # Nil /\ (ta # Nil => ta.state \in {"initialized", "requested"}) =>
        (rc = 0 <=> RequestWellFormed(request))

\* Every field value that was allocated is in one slot of a transaction that
\* is to be destroyed: the error paths of proto_ta_req() free what has been
\* parsed, proto_ta_destroy() frees it no second time, and a transaction that
\* lives on as a subscription's takes its values with it.
FieldsFreedOnce ==
    allocated = (IF ta = Nil THEN 0 ELSE Released(ta)) + (IF sub_ta = Nil THEN 0 ELSE Released(sub_ta))

ResponseWellFormed(msg) ==
    LET type == lookup_type(msg["ta-cmd"].string)
        kind == msg["msg-type"].string
    IN  /\ Mandatory \subseteq DOMAIN msg
        /\ HasFields(msg, fields_of(type, kind), opt_fields_of(type, kind))

\* The arguments the handlers pass by position are what the fields of the
\* message type want: every response has all its fields, no other, and each
\* of its type, for every command and every kind of response.
ResponsesWellFormed == \A i \in DOMAIN out : ResponseWellFormed(out[i])

\* What a subscriber or a listing is told of a service is what the latest
\* granted publish said in its request, down to the properties, through two
\* conversions, a comparison and arguments passed by position both ways; as
\* long as no pair of the properties occurs twice, which props_equal() takes
\* for two different ones.
PublishedReachesReaders ==
    \A i \in DOMAIN out :
        LET m == out[i]
            published == m["service-props"]
        IN  "generation" \in DOMAIN m /\ publish # Nil =>
                /\ \A n \in {"service-id", "generation", "ttl"} : m[n] = publish[n]
                /\ ("orphan-since" \in DOMAIN m) = (service.orphan_since # Nil)
                /\ NoPairTwice(published) /\ NoPairTwice(publish["service-props"]) =>
                      \A p \in Pairs(published) \cup Pairs(publish["service-props"]) :
                          Occurs(published, p[1], p[2]) = Occurs(publish["service-props"], p[1], p[2])
=============================================================================
