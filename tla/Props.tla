-------------------------------- MODULE Props -------------------------------
(* The properties of a service (sd/props.c, sd/pvalue.c) and their JSON     *)
(* form (proto/proto_ta.c). Properties are a multimap from names to values: *)
(* the sequence of the pairs in the order they were added. A JSON value is  *)
(* a record of which type says the field that counts; the elements of an    *)
(* object are its members, in the order Jansson iterates over them, that of *)
(* their insertion.                                                         *)
EXTENDS Integers, SequencesExt

CONSTANT Nil  \* NULL

pvalue_int64_create(n) == [type |-> "int64", int64 |-> n, str |-> Nil]

pvalue_str_create(s) == [type |-> "str", int64 |-> Nil, str |-> s]

\* Values of different types compared as if they had the same.
pvalue_equal_AnyType(a, b) == a.type = b.type => a = b

pvalue_equal(a, b) ==
    /\ a.type = b.type
    /\ IF a.type = "int64" THEN a.int64 = b.int64 ELSE a.str = b.str

Pair(name, value) == [name |-> name, value |-> value]

\* The values of the properties with that name.
ValuesOf(ps, name) == {p.value : p \in {q \in Range(ps) : q.name = name}}

props_has(ps, name) == ValuesOf(ps, name) # {}

has_pair(ps, name, value) ==
    \E i \in DOMAIN ps : ps[i].name = name /\ pvalue_equal(ps[i].value, value)

\* As many pairs, and every pair of a is one of b: not the other way round.
props_equal(a, b) ==
    /\ Len(a) = Len(b)
    /\ \A i \in DOMAIN a : has_pair(b, a[i].name, a[i].value)

-----------------------------------------------------------------------------
json_integer(n) == [type |-> "integer", number |-> n, string |-> Nil, elems |-> <<>>]
json_real(x) == [type |-> "real", number |-> x, string |-> Nil, elems |-> <<>>]
json_string(s) == [type |-> "string", number |-> Nil, string |-> s, elems |-> <<>>]
json_array(elems) == [type |-> "array", number |-> Nil, string |-> Nil, elems |-> elems]
json_object(members) == [type |-> "object", number |-> Nil, string |-> Nil, elems |-> members]

json_value(value) ==
    IF value.type = "int64" THEN json_integer(value.int64) ELSE json_string(value.str)

prop_to_json(json_props, pair) ==
    LET members == json_props.elems
        found == {i \in DOMAIN members : members[i].name = pair.name}
    IN  IF found = {}
        THEN json_object(Append(members, Pair(pair.name, json_array(<<json_value(pair.value)>>))))
        ELSE LET i == CHOOSE x \in found : TRUE
             IN  json_object([members EXCEPT ![i].value.elems = Append(@, json_value(pair.value))])

props_to_json(ps) ==
    LET added[i \in 0..Len(ps)] ==
            IF i = 0 THEN json_object(<<>>) ELSE prop_to_json(added[i - 1], ps[i])
    IN  added[Len(ps)]

json_to_pvalue(json) ==
    IF json.type = "integer" THEN pvalue_int64_create(json.number) ELSE pvalue_str_create(json.string)

\* NULL when a member is not an array of integers and strings.
json_to_props(json_props) ==
    LET members == json_props.elems
        Valid(m) == /\ m.value.type = "array"
                    /\ \A v \in Range(m.value.elems) : v.type \in {"integer", "string"}
        pairs(m) == [i \in DOMAIN m.value.elems |-> Pair(m.name, json_to_pvalue(m.value.elems[i]))]
    IN  IF \A i \in DOMAIN members : Valid(members[i])
        THEN FlattenSeq([i \in DOMAIN members |-> pairs(members[i])])
        ELSE Nil

-----------------------------------------------------------------------------
(* What there is to say about JSON objects of properties.                   *)

IsSeq(s) == Len(s) \in Nat /\ s = [i \in 1..Len(s) |-> s[i]]

\* An integer or a string is nothing but its value.
IsScalar(json) ==
    /\ json.type = "integer" => json = json_integer(json.number)
    /\ json.type = "string" => json = json_string(json.string)

\* Members with arrays of values.
IsObject(json) ==
    /\ IsSeq(json.elems)
    /\ \A i \in DOMAIN json.elems :
          LET array == json.elems[i].value.elems
          IN  IsSeq(array) /\ \A j \in DOMAIN array : IsScalar(array[j])

\* How often a JSON object of properties has that value under that name.
Occurs(json, name, value) ==
    Cardinality({x \in UNION {{i} \X DOMAIN json.elems[i].value.elems : i \in DOMAIN json.elems} :
        json.elems[x[1]].name = name /\ json.elems[x[1]].value.elems[x[2]] = value})

Pairs(json) ==
    UNION {{<<json.elems[i].name, v>> : v \in Range(json.elems[i].value.elems)} :
              i \in DOMAIN json.elems}

NoPairTwice(json) == \A p \in Pairs(json) : Occurs(json, p[1], p[2]) = 1
=============================================================================
