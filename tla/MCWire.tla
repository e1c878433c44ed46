------------------------------- MODULE MCWire -------------------------------
(* What clients write and read, on small instances: filters, and messages   *)
(* with their fields. The two are checked side by side: a behaviour is      *)
(* about a filter, or, with no filter, about messages.                      *)
EXTENDS MCFilter, ProtoTa, TLC

SomeUint63s ==
    "ta-id" :> {4} @@ "service-id" :> {5} @@ "subscription-id" :> {6} @@ "client-id" :> {7, 8}
    @@ "protocol-minimum-version" :> {1, 3} @@ "protocol-maximum-version" :> {1, 3}
    @@ "generation" :> {0, 1} @@ "ttl" :> {2, 3}

SomePrinted == [filter |-> "(filter)"]

SomePairs ==
    {Pair("a", pvalue_int64_create(1)), Pair("a", pvalue_str_create("1")),
     Pair("b", pvalue_int64_create(1))}

SomeProps ==
    UNION {[1..n -> SomePairs] : n \in 0..2}
    \cup {<<Pair("a", pvalue_int64_create(1)), Pair("b", pvalue_str_create("1")),
            Pair("a", pvalue_str_create("1"))>>,
          <<Pair("a", pvalue_int64_create(1)), Pair("a", pvalue_int64_create(1)),
            Pair("b", pvalue_int64_create(1))>>}

WrongValues ==
    {json_integer(-1), json_real(1), json_string("hello"), json_string("notify"),
     json_array(<<>>), json_object(<<>>),
     json_object(<<Pair("a", json_integer(1))>>),
     json_object(<<Pair("a", json_array(<<json_real(1)>>))>>)}

Without(msg, x) == [n \in DOMAIN msg \ {x} |-> msg[n]]
With(msg, x, v) == [n \in DOMAIN msg \cup {x} |-> IF n = x THEN v ELSE msg[n]]

\* A field is left out, or a field has another value, or there is one more.
Slipped(msg) ==
    {Without(msg, x) : x \in DOMAIN msg}
    \cup {With(msg, x, v) : x \in DOMAIN msg \cup {"filter", "unknown"}, v \in WrongValues}

AllSlipped == UNION {Slipped(msg) : msg \in Requests}

\* Any request of a command, with one thing wrong or two: what the error paths
\* of proto_ta_req() tell apart.
AnyRequest(t) == CHOOSE msg \in RightRequests(t) : TRUE

SomeSlipped ==
    LET wrong == json_array(<<>>)
        publish1 == AnyRequest(publish_ta)
        subscribe1 == With(AnyRequest(subscribe_ta), "filter", json_string("filter"))
    IN  {Without(publish1, "ta-id"), With(publish1, "ta-cmd", json_string("notify")),
         With(publish1, "ttl", wrong), With(Without(publish1, "ttl"), "unknown", wrong),
         With(publish1, "unknown", wrong), With(subscribe1, "filter", wrong),
         With(subscribe1, "unknown", wrong), With(With(subscribe1, "filter", wrong), "unknown", wrong)}

NoFilter == origin = Nil /\ text = <<>> /\ props = <<>>

WireInit == ProtoTaInit /\ (FilterInit \/ NoFilter)

WireNext ==
    \/ ~NoFilter /\ FilterNext /\ UNCHANGED taVars
    \/ NoFilter /\ ProtoTaNext /\ UNCHANGED filterVars

WireSpec == WireInit /\ [][WireNext]_<<filterVars, taVars>>
=============================================================================
