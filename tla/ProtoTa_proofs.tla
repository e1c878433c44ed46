--------------------------- MODULE ProtoTa_proofs ---------------------------
(***************************************************************************)
(* Proofs about ProtoTa, for everything that clients can write: requests   *)
(* are accepted exactly when they are well-formed, no value of theirs is   *)
(* leaked or freed twice, responses are what the table says, and what is   *)
(* published is what readers are told.  Before that, about Props: what     *)
(* becomes of properties on the way from JSON and back.                    *)
(***************************************************************************)
EXTENDS ProtoTa, SequenceTheorems, FiniteSetTheorems, FunctionTheorems,
        WellFoundedInduction, TLAPS

-----------------------------------------------------------------------------
(* Properties: the conversions to and from JSON lose nothing and add       *)
(* nothing, for properties of any number, names and values.                *)

\* Induction over the naturals, with the property as a set.
LEMMA NatSetInduction ==
    ASSUME NEW S, 0 \in S, \A n \in Nat : n \in S => n + 1 \in S
    PROVE  \A n \in Nat : n \in S
  <1> DEFINE R == {ss \in Nat \X Nat : ss[1] < ss[2]}
             T == Nat \ S
  <1>1. IsWellFoundedOn(R, Nat)
    BY NatLessThanWellFounded DEF OpToRel
  <1> SUFFICES ASSUME T # {} PROVE FALSE
    OBVIOUS
  <1>2. PICK x \in T : \A y \in T : <<y, x>> \notin R
    <2> HIDE DEF R, T
    <2>1. T \subseteq Nat
      BY DEF T
    <2> QED BY <1>1, <2>1, WFMin
  <1>3. x \in Nat /\ x # 0 /\ x - 1 \in Nat
    BY <1>2
  <1>4. x - 1 \notin S
    BY <1>3
  <1>5. <<x - 1, x>> \in R
    BY <1>3
  <1> QED BY <1>2, <1>3, <1>4, <1>5

-----------------------------------------------------------------------------
(* From properties to JSON.                                                *)

\* f lists what props_to_json() has after each of the first n properties.
Adding(f, ps, n) ==
    f = [i \in 0..n |-> IF i = 0 THEN json_object(<<>>) ELSE prop_to_json(f[i - 1], ps[i])]

LEMMA AddingExists ==
    ASSUME NEW ps
    PROVE  \A n \in Nat : \E f : Adding(f, ps, n)
  <1> DEFINE S == {n \in Nat : \E f : Adding(f, ps, n)}
  <1>1. 0 \in S
    <2> DEFINE f == [i \in 0..0 |-> json_object(<<>>)]
    <2>1. Adding(f, ps, 0)
      BY DEF Adding
    <2> QED BY <2>1
  <1>2. ASSUME NEW n \in Nat, n \in S PROVE n + 1 \in S
    <2>1. PICK f : Adding(f, ps, n)
      BY <1>2
    <2> DEFINE last == prop_to_json(f[n], ps[n + 1])
               g == [i \in 0..(n + 1) |-> IF i <= n THEN f[i] ELSE last]
    <2>2. \A i \in 0..n : f[i] = IF i = 0 THEN json_object(<<>>) ELSE prop_to_json(f[i - 1], ps[i])
      BY <2>1 DEF Adding
    <2>3. g[n + 1] = prop_to_json(g[n], ps[n + 1])
      <3> HIDE DEF last
      <3>1. g[n + 1] = last /\ g[n] = f[n]
        BY <1>2
      <3> QED BY <3>1 DEF last
    <2>4. ASSUME NEW i \in 0..(n + 1)
          PROVE  g[i] = IF i = 0 THEN json_object(<<>>) ELSE prop_to_json(g[i - 1], ps[i])
      <3>1. CASE i = n + 1
        BY <1>2, <2>3, <3>1
      <3>2. CASE i # n + 1
        <4>1. i \in 0..n /\ g[i] = f[i] /\ (i # 0 => g[i - 1] = f[i - 1])
          BY <1>2, <3>2
        <4> QED BY <2>2, <4>1
      <3> QED BY <3>1, <3>2
    <2>5. g = [i \in 0..(n + 1) |-> IF i = 0 THEN json_object(<<>>) ELSE prop_to_json(g[i - 1], ps[i])]
      <3>1. g = [i \in 0..(n + 1) |-> g[i]]
        OBVIOUS
      <3> HIDE DEF g
      <3> QED BY <2>4, <3>1
    <2>6. Adding(g, ps, n + 1)
      BY <2>5 DEF Adding
    <2> QED BY <1>2, <2>6
  <1> HIDE DEF S
  <1>3. \A n \in Nat : n \in S
    BY <1>1, <1>2, NatSetInduction
  <1> QED BY <1>3 DEF S

LEMMA AddingAll ==
    ASSUME NEW ps, Len(ps) \in Nat
    PROVE  \E f : Adding(f, ps, Len(ps)) /\ props_to_json(ps) = f[Len(ps)]
  <1> DEFINE added == CHOOSE f : Adding(f, ps, Len(ps))
  <1>1. Adding(added, ps, Len(ps))
    BY AddingExists
  <1>2. props_to_json(ps) = added[Len(ps)]
    BY DEF props_to_json, Adding
  <1> HIDE DEF added
  <1> QED BY <1>1, <1>2

\* The members of an object, with names of S and values of V.
Member(S, V) == {Pair(n, json_array(e)) : n \in S, e \in Seq(V)}

LEMMA PairFields ==
    \A n, v : Pair(n, v).name = n /\ Pair(n, v).value = v
  BY DEF Pair

LEMMA JsonFields ==
    \A e : /\ json_array(e).type = "array" /\ json_array(e).elems = e
           /\ json_object(e).type = "object" /\ json_object(e).elems = e
  BY DEF json_array, json_object

\* A pair is in an object if some member has it.
LEMMA PairsElement ==
    ASSUME NEW json, NEW p
    PROVE  p \in Pairs(json) <=>
              \E i \in DOMAIN json.elems : \E j \in DOMAIN json.elems[i].value.elems :
                  p = <<json.elems[i].name, json.elems[i].value.elems[j]>>
  BY DEF Pairs, Range

\* An object whose members have names of S and values of V.
IsObjectOf(json, S, V) == \E ms \in Seq(Member(S, V)) : json = json_object(ms)

LEMMA MemberShape ==
    ASSUME NEW S, NEW V, NEW m \in Member(S, V)
    PROVE  /\ m.name \in S /\ m.value.type = "array" /\ m.value.elems \in Seq(V)
           /\ m = Pair(m.name, json_array(m.value.elems))
  <1>1. PICK n \in S, e \in Seq(V) : m = Pair(n, json_array(e))
    BY DEF Member
  <1> QED BY <1>1, PairFields, JsonFields

LEMMA MemberOf ==
    ASSUME NEW S, NEW V, NEW n \in S, NEW e \in Seq(V)
    PROVE  Pair(n, json_array(e)) \in Member(S, V)
  BY DEF Member

LEMMA ArrayElems ==
    ASSUME NEW e, NEW f
    PROVE  [json_array(e) EXCEPT !.elems = f] = json_array(f)
  BY DEF json_array

LEMMA PropAdded ==
    ASSUME NEW S, NEW V, NEW json, IsObjectOf(json, S, V),
           NEW pair, pair.name \in S, json_value(pair.value) \in V
    PROVE  /\ IsObjectOf(prop_to_json(json, pair), S, V)
           /\ Pairs(prop_to_json(json, pair)) =
                 Pairs(json) \cup {<<pair.name, json_value(pair.value)>>}
  <1>1. PICK ms \in Seq(Member(S, V)) : json = json_object(ms)
    BY DEF IsObjectOf
  <1> DEFINE found == {i \in DOMAIN ms : ms[i].name = pair.name}
             v == json_value(pair.value)
             new == Pair(pair.name, json_array(<<v>>))
             p == <<pair.name, v>>
             result == prop_to_json(json, pair)
  <1>2. result =
            IF found = {} THEN json_object(Append(ms, new))
            ELSE LET i == CHOOSE x \in found : TRUE
                 IN  json_object([ms EXCEPT ![i].value.elems = Append(@, v)])
    <2>1. json.elems = ms
      BY <1>1, JsonFields
    <2> QED BY <2>1 DEF prop_to_json
  <1>3. /\ Len(ms) \in Nat /\ DOMAIN ms = 1..Len(ms)
        /\ \A i \in DOMAIN ms : ms[i] \in Member(S, V)
    OBVIOUS
  <1>4. \A x : x \in Pairs(json) <=> \E i \in DOMAIN ms : \E j \in DOMAIN ms[i].value.elems :
                                        x = <<ms[i].name, ms[i].value.elems[j]>>
    BY <1>1, PairsElement, JsonFields
  <1>s. v \in V /\ pair.name \in S
    OBVIOUS
  <1> HIDE DEF result, v
  <1>5. CASE found = {}
    <2> DEFINE ns == Append(ms, new)
    <2>1. result = json_object(ns) /\ result.elems = ns
      BY <1>2, <1>5, JsonFields
    <2>2. new \in Member(S, V)
      <3>1. <<v>> \in Seq(V)
        BY <1>s
      <3> QED BY <1>s, <3>1, MemberOf
    <2>3. new.name = pair.name /\ new.value.elems = <<v>>
      BY PairFields, JsonFields
    <2> HIDE DEF new
    <2>4. /\ ns \in Seq(Member(S, V)) /\ DOMAIN ns = 1..(Len(ms) + 1)
          /\ \A i \in DOMAIN ms : ns[i] = ms[i]
          /\ ns[Len(ms) + 1] = new
      BY <1>3, <2>2
    <2> HIDE DEF ns
    <2>5. IsObjectOf(result, S, V)
      BY <2>1, <2>4 DEF IsObjectOf
    <2>6. ASSUME NEW x PROVE x \in Pairs(result) <=> x \in Pairs(json) \/ x = p
      <3>1. x \in Pairs(result) <=> \E i \in DOMAIN ns : \E j \in DOMAIN ns[i].value.elems :
                                        x = <<ns[i].name, ns[i].value.elems[j]>>
        BY <2>1, PairsElement
      <3>2. \A i \in DOMAIN ns : i \in DOMAIN ms \/ i = Len(ms) + 1
        BY <1>3, <2>4
      <3>3. /\ \A i \in DOMAIN ms : i \in DOMAIN ns
            /\ Len(ms) + 1 \in DOMAIN ns
        BY <1>3, <2>4
      <3>4. (\E j \in DOMAIN new.value.elems : x = <<new.name, new.value.elems[j]>>) <=> x = p
        BY <2>3
      <3> QED BY <1>4, <2>4, <3>1, <3>2, <3>3, <3>4
    <2> QED BY <2>5, <2>6 DEF result, v
  <1>6. CASE found # {}
    <2> DEFINE i == CHOOSE x \in found : TRUE
               ns == [ms EXCEPT ![i].value.elems = Append(@, v)]
               es == ms[i].value.elems
               as == Append(es, v)
               changed == Pair(ms[i].name, json_array(as))
    <2>1. i \in DOMAIN ms /\ ms[i].name = pair.name
      BY <1>6
    <2>2. result = json_object(ns) /\ result.elems = ns
      BY <1>2, <1>6, JsonFields
    <2> HIDE DEF i
    <2>3. ms[i] = Pair(ms[i].name, json_array(es)) /\ ms[i].name \in S /\ es \in Seq(V)
      BY <1>3, <2>1, MemberShape
    <2>4. ns = [ms EXCEPT ![i] = [ms[i] EXCEPT !.value = [ms[i].value EXCEPT !.elems = as]]]
      OBVIOUS
    <2>5. /\ as \in Seq(V) /\ Len(es) \in Nat /\ DOMAIN es = 1..Len(es)
          /\ DOMAIN as = 1..(Len(es) + 1)
          /\ \A j \in DOMAIN es : as[j] = es[j]
          /\ as[Len(es) + 1] = v
      BY <1>s, <2>3
    <2> HIDE DEF ns, as, es
    <2>6. [ms[i] EXCEPT !.value = [ms[i].value EXCEPT !.elems = as]] = changed
      <3>1. ms[i].value = json_array(es)
        BY <2>3, PairFields
      <3>2. [ms[i].value EXCEPT !.elems = as] = json_array(as)
        BY <3>1, ArrayElems
      <3>3. [ms[i] EXCEPT !.value = json_array(as)] = changed
        <4> DEFINE n == ms[i].name
                   w == json_array(es)
                   r == json_array(as)
        <4>1. ms[i] = [name |-> n, value |-> w]
          BY <2>3 DEF Pair
        <4>2. changed = [name |-> n, value |-> r]
          BY DEF Pair
        <4> HIDE DEF n, w, r, changed
        <4>3. [ms[i] EXCEPT !.value = r] = changed
          BY <4>1, <4>2
        <4> QED BY <4>3 DEF r
      <3> QED BY <3>2, <3>3
    <2>7. ns = [ms EXCEPT ![i] = changed]
      <3> HIDE DEF changed
      <3> QED BY <2>4, <2>6
    <2>8. changed \in Member(S, V)
      BY <2>3, <2>5, MemberOf
    <2>9. changed.name = pair.name /\ changed.value.elems = as
      <3>1. changed.name = ms[i].name
        BY PairFields
      <3>2. changed.value = json_array(as)
        BY PairFields
      <3> HIDE DEF changed
      <3> QED BY <2>1, <3>1, <3>2, JsonFields
    <2> HIDE DEF changed
    <2>10. /\ ns \in Seq(Member(S, V)) /\ DOMAIN ns = DOMAIN ms
           /\ \A k \in DOMAIN ms : k # i => ns[k] = ms[k]
           /\ ns[i] = changed
      BY <1>3, <2>1, <2>7, <2>8
    <2>11. IsObjectOf(result, S, V)
      BY <2>2, <2>10 DEF IsObjectOf
    <2>12. ASSUME NEW x PROVE x \in Pairs(result) <=> x \in Pairs(json) \/ x = p
      <3>1. x \in Pairs(result) <=> \E k \in DOMAIN ms : \E j \in DOMAIN ns[k].value.elems :
                                        x = <<ns[k].name, ns[k].value.elems[j]>>
        BY <2>2, <2>10, PairsElement
      <3>2. /\ \A j \in DOMAIN as : j \in DOMAIN es \/ j = Len(es) + 1
            /\ \A j \in DOMAIN es : j \in DOMAIN as
            /\ Len(es) + 1 \in DOMAIN as
        BY <2>5
      <3>3. (\E j \in DOMAIN as : x = <<pair.name, as[j]>>)
              <=> (\E j \in DOMAIN es : x = <<pair.name, es[j]>>) \/ x = p
        BY <2>5, <3>2
      <3>4. (\E j \in DOMAIN ns[i].value.elems : x = <<ns[i].name, ns[i].value.elems[j]>>)
              <=> (\E j \in DOMAIN ms[i].value.elems : x = <<ms[i].name, ms[i].value.elems[j]>>) \/ x = p
        BY <2>1, <2>9, <2>10, <3>3 DEF es
      <3>5. ASSUME x \in Pairs(result) PROVE x \in Pairs(json) \/ x = p
        <4>1. PICK k \in DOMAIN ms : \E j \in DOMAIN ns[k].value.elems :
                                        x = <<ns[k].name, ns[k].value.elems[j]>>
          BY <3>1, <3>5
        <4>2. CASE k = i
          BY <1>4, <2>1, <3>4, <4>1, <4>2
        <4>3. CASE k # i
          BY <1>4, <2>10, <4>1, <4>3
        <4> QED BY <4>2, <4>3
      <3>6. ASSUME x \in Pairs(json) PROVE x \in Pairs(result)
        <4>1. PICK k \in DOMAIN ms : \E j \in DOMAIN ms[k].value.elems :
                                        x = <<ms[k].name, ms[k].value.elems[j]>>
          BY <1>4, <3>6
        <4>2. CASE k = i
          BY <2>1, <3>1, <3>4, <4>1, <4>2
        <4>3. CASE k # i
          BY <2>10, <3>1, <4>1, <4>3
        <4> QED BY <4>2, <4>3
      <3>7. x = p => x \in Pairs(result)
        BY <2>1, <3>1, <3>4
      <3> QED BY <3>5, <3>6, <3>7
    <2> QED BY <2>11, <2>12 DEF result, v
  <1> QED BY <1>5, <1>6 DEF result, v

\* The pairs of the first n properties, as they are in JSON.
JsonPairs(ps, n) == {<<ps[i].name, json_value(ps[i].value)>> : i \in 1..n}

\* The object that props_to_json() builds has the pairs of the properties, each
\* value an element of the array of its name.
LEMMA PropsToJson ==
    ASSUME NEW ps, IsSeq(ps)
    PROVE  /\ IsObjectOf(props_to_json(ps), {ps[i].name : i \in 1..Len(ps)},
                         {json_value(ps[i].value) : i \in 1..Len(ps)})
           /\ Pairs(props_to_json(ps)) = JsonPairs(ps, Len(ps))
  <1> DEFINE N == Len(ps)
             S == {ps[i].name : i \in 1..N}
             V == {json_value(ps[i].value) : i \in 1..N}
  <1>1. N \in Nat
    BY DEF IsSeq
  <1>2. PICK f : Adding(f, ps, N) /\ props_to_json(ps) = f[N]
    BY <1>1, AddingAll
  <1>3. \A i \in 0..N : f[i] = IF i = 0 THEN json_object(<<>>) ELSE prop_to_json(f[i - 1], ps[i])
    BY <1>2 DEF Adding
  <1> DEFINE Good(i) == IsObjectOf(f[i], S, V) /\ Pairs(f[i]) = JsonPairs(ps, i)
             I == {i \in Nat : i <= N => Good(i)}
  <1>4. 0 \in I
    <2>1. f[0] = json_object(<<>>) /\ f[0].elems = <<>>
      BY <1>1, <1>3, JsonFields
    <2>2. IsObjectOf(f[0], S, V)
      <3>1. <<>> \in Seq(Member(S, V))
        OBVIOUS
      <3> QED BY <2>1, <3>1 DEF IsObjectOf
    <2>3. Pairs(f[0]) = {}
      BY <2>1, PairsElement
    <2>4. JsonPairs(ps, 0) = {}
      BY DEF JsonPairs
    <2> QED BY <2>2, <2>3, <2>4
  <1>5. ASSUME NEW i \in Nat, i \in I PROVE i + 1 \in I
    <2> SUFFICES ASSUME i + 1 <= N PROVE Good(i + 1)
      OBVIOUS
    <2>1. Good(i) /\ i + 1 \in 1..N /\ i + 1 \in 0..N
      BY <1>1, <1>5
    <2>2. f[i + 1] = prop_to_json(f[i], ps[i + 1])
      BY <1>3, <2>1
    <2>3. ps[i + 1].name \in S /\ json_value(ps[i + 1].value) \in V
      BY <2>1
    <2> HIDE DEF S, V
    <2>4. /\ IsObjectOf(f[i + 1], S, V)
          /\ Pairs(f[i + 1]) = Pairs(f[i]) \cup {<<ps[i + 1].name, json_value(ps[i + 1].value)>>}
      BY <2>1, <2>2, <2>3, PropAdded
    <2>5. JsonPairs(ps, i + 1) = JsonPairs(ps, i) \cup {<<ps[i + 1].name, json_value(ps[i + 1].value)>>}
      <3>1. 1..(i + 1) = (1..i) \cup {i + 1}
        BY <1>5
      <3> QED BY <3>1 DEF JsonPairs
    <2> QED BY <2>1, <2>4, <2>5
  <1> HIDE DEF I
  <1>6. N \in I
    BY <1>1, <1>4, <1>5, NatSetInduction
  <1>7. Good(N)
    BY <1>1, <1>6 DEF I
  <1> QED BY <1>2, <1>7

-----------------------------------------------------------------------------
(* Sequences, one after the other.                                         *)

\* f lists the concatenations of the first n of the sequences.
Flattening(f, seqs, n) ==
    f = [i \in 1..n |-> IF i = 1 THEN seqs[i] ELSE f[i - 1] \o seqs[i]]

LEMMA FlatteningExists ==
    ASSUME NEW seqs
    PROVE  \A n \in Nat : \E f : Flattening(f, seqs, n)
  <1> DEFINE S == {n \in Nat : \E f : Flattening(f, seqs, n)}
  <1>1. 0 \in S
    <2> DEFINE f == [i \in 1..0 |-> seqs[i]]
    <2>1. Flattening(f, seqs, 0)
      BY DEF Flattening
    <2> QED BY <2>1
  <1>2. ASSUME NEW n \in Nat, n \in S PROVE n + 1 \in S
    <2>1. PICK f : Flattening(f, seqs, n)
      BY <1>2
    <2> DEFINE last == IF n + 1 = 1 THEN seqs[n + 1] ELSE f[n] \o seqs[n + 1]
               g == [i \in 1..(n + 1) |-> IF i <= n THEN f[i] ELSE last]
    <2>2. \A i \in 1..n : f[i] = IF i = 1 THEN seqs[i] ELSE f[i - 1] \o seqs[i]
      BY <2>1 DEF Flattening
    <2>3. g[n + 1] = IF n + 1 = 1 THEN seqs[n + 1] ELSE g[n] \o seqs[n + 1]
      <3> HIDE DEF last
      <3>1. g[n + 1] = last /\ (n + 1 # 1 => g[n] = f[n])
        BY <1>2
      <3> QED BY <3>1 DEF last
    <2>4. ASSUME NEW i \in 1..(n + 1)
          PROVE  g[i] = IF i = 1 THEN seqs[i] ELSE g[i - 1] \o seqs[i]
      <3>1. CASE i = n + 1
        BY <1>2, <2>3, <3>1
      <3>2. CASE i # n + 1
        <4>1. i \in 1..n /\ g[i] = f[i] /\ (i # 1 => g[i - 1] = f[i - 1])
          BY <1>2, <3>2
        <4> QED BY <2>2, <4>1
      <3> QED BY <3>1, <3>2
    <2>5. g = [i \in 1..(n + 1) |-> IF i = 1 THEN seqs[i] ELSE g[i - 1] \o seqs[i]]
      <3>1. g = [i \in 1..(n + 1) |-> g[i]]
        OBVIOUS
      <3> HIDE DEF g
      <3> QED BY <2>4, <3>1
    <2>6. Flattening(g, seqs, n + 1)
      BY <2>5 DEF Flattening
    <2> QED BY <1>2, <2>6
  <1> HIDE DEF S
  <1>3. \A n \in Nat : n \in S
    BY <1>1, <1>2, NatSetInduction
  <1> QED BY <1>3 DEF S

\* The places of the elements of the first n sequences.
Places(seqs, n) == UNION {{i} \X DOMAIN seqs[i] : i \in 1..n}

LEMMA ConcatRange ==
    ASSUME NEW T, NEW a \in Seq(T), NEW s \in Seq(T)
    PROVE  Range(a \o s) = Range(a) \cup Range(s)
  <1> DEFINE n == Len(a)
             m == Len(s)
             as == a \o s
  <1>1. /\ n \in Nat /\ m \in Nat /\ DOMAIN a = 1..n /\ DOMAIN s = 1..m
        /\ DOMAIN as = 1..(n + m)
        /\ \A i \in 1..n : as[i] = a[i]
        /\ \A i \in 1..m : as[n + i] = s[i]
    OBVIOUS
  <1> HIDE DEF n, m, as
  <1>2. ASSUME NEW x \in Range(as) PROVE x \in Range(a) \cup Range(s)
    <2>1. PICK i \in 1..(n + m) : x = as[i]
      BY <1>1 DEF Range
    <2>2. CASE i <= n
      <3>1. i \in 1..n
        BY <1>1, <2>2
      <3> QED BY <1>1, <2>1, <3>1 DEF Range
    <2>3. CASE i > n
      <3>1. i - n \in 1..m /\ n + (i - n) = i
        BY <1>1, <2>3
      <3>2. x = s[i - n]
        BY <1>1, <2>1, <3>1
      <3> QED BY <1>1, <3>1, <3>2 DEF Range
    <2> QED BY <1>1, <2>2, <2>3
  <1>3. ASSUME NEW x \in Range(a) PROVE x \in Range(as)
    <2>1. PICK i \in 1..n : x = a[i]
      BY <1>1 DEF Range
    <2>2. i \in 1..(n + m)
      BY <1>1
    <2> QED BY <1>1, <2>1, <2>2 DEF Range
  <1>4. ASSUME NEW x \in Range(s) PROVE x \in Range(as)
    <2>1. PICK i \in 1..m : x = s[i]
      BY <1>1 DEF Range
    <2>2. n + i \in 1..(n + m)
      BY <1>1
    <2> QED BY <1>1, <2>1, <2>2 DEF Range
  <1> QED BY <1>2, <1>3, <1>4 DEF as

\* One sequence has as many places as it is long.
LEMMA PlacesOfOne ==
    ASSUME NEW k, NEW n \in Nat
    PROVE  IsFiniteSet({k} \X (1..n)) /\ Cardinality({k} \X (1..n)) = n
  <1> DEFINE f == [j \in 1..n |-> <<k, j>>]
  <1>1. f \in [1..n -> {k} \X (1..n)]
    OBVIOUS
  <1>2. \A i, j \in 1..n : f[i] = f[j] => i = j
    OBVIOUS
  <1>3. \A x \in {k} \X (1..n) : \E j \in 1..n : f[j] = x
    OBVIOUS
  <1> HIDE DEF f
  <1>4. f \in Bijection(1..n, {k} \X (1..n))
    BY <1>1, <1>2, <1>3, Fun_IsBij
  <1>5. IsFiniteSet(1..n) /\ Cardinality(1..n) = n
    BY FS_Interval
  <1> QED BY <1>4, <1>5, Fun_ExistsBij, FS_Bijection

\* Concatenation keeps every element at every place, and adds none.
LEMMA Flat ==
    ASSUME NEW T, NEW seqs \in Seq(Seq(T))
    PROVE  /\ FlattenSeq(seqs) \in Seq(T)
           /\ \A x : x \in Range(FlattenSeq(seqs)) <=>
                        \E i \in DOMAIN seqs : \E j \in DOMAIN seqs[i] : x = seqs[i][j]
           /\ IsFiniteSet(Places(seqs, Len(seqs)))
           /\ Len(FlattenSeq(seqs)) = Cardinality(Places(seqs, Len(seqs)))
  <1> DEFINE L == Len(seqs)
  <1>1. L \in Nat /\ DOMAIN seqs = 1..L /\ \A i \in 1..L : seqs[i] \in Seq(T)
    OBVIOUS
  <1> DEFINE flatten == CHOOSE f : Flattening(f, seqs, L)
             part(i) == IF i = 0 THEN <<>> ELSE flatten[i]
  <1>2. Flattening(flatten, seqs, L)
    BY <1>1, FlatteningExists
  <1>3. FlattenSeq(seqs) = part(L)
    <2>1. CASE L = 0
      <3>1. seqs = <<>>
        BY <2>1, EmptySeq
      <3> QED BY <2>1, <3>1 DEF FlattenSeq
    <2>2. CASE L # 0
      BY <2>2 DEF FlattenSeq, Flattening
    <2> QED BY <2>1, <2>2
  <1>4. \A i \in 1..L : flatten[i] = IF i = 1 THEN seqs[i] ELSE flatten[i - 1] \o seqs[i]
    BY <1>2 DEF Flattening
  <1> HIDE DEF flatten, L
  <1>5. ASSUME NEW i \in Nat, i + 1 <= L PROVE part(i + 1) = part(i) \o seqs[i + 1]
    <2>1. i + 1 \in 1..L /\ i + 1 # 0
      BY <1>1, <1>5
    <2>2. CASE i = 0
      <3>1. seqs[1] \in Seq(T) /\ part(1) = seqs[1]
        BY <1>1, <1>4, <2>1, <2>2
      <3>2. <<>> \o seqs[1] = seqs[1]
        BY <3>1, ConcatEmptySeq
      <3> QED BY <2>2, <3>1, <3>2
    <2>3. CASE i # 0
      <3>1. i + 1 # 1 /\ (i + 1) - 1 = i
        BY <2>3
      <3>2. flatten[i + 1] = flatten[(i + 1) - 1] \o seqs[i + 1]
        BY <1>4, <2>1, <3>1
      <3>3. flatten[i + 1] = flatten[i] \o seqs[i + 1]
        BY <3>1, <3>2
      <3> QED BY <2>1, <2>3, <3>3
    <2> QED BY <2>2, <2>3
  <1> DEFINE Elems(n) == {x \in T : \E i \in 1..n : \E j \in DOMAIN seqs[i] : x = seqs[i][j]}
             Good(i) == /\ part(i) \in Seq(T) /\ Range(part(i)) = Elems(i)
                        /\ IsFiniteSet(Places(seqs, i))
                        /\ Len(part(i)) = Cardinality(Places(seqs, i))
             I == {i \in Nat : i <= L => Good(i)}
  <1>6. 0 \in I
    <2>1. part(0) = <<>> /\ Range(<<>>) = {} /\ Len(<<>>) = 0 /\ <<>> \in Seq(T)
      BY DEF Range
    <2>2. Elems(0) = {} /\ Places(seqs, 0) = {}
      BY DEF Places
    <2> HIDE DEF Elems, part
    <2> QED BY <2>1, <2>2, FS_EmptySet
  <1>7. ASSUME NEW i \in Nat, i \in I PROVE i + 1 \in I
    <2> SUFFICES ASSUME i + 1 <= L PROVE Good(i + 1)
      OBVIOUS
    <2> DEFINE s == seqs[i + 1]
               a == part(i)
               new == {i + 1} \X DOMAIN s
    <2>1. s \in Seq(T) /\ Len(s) \in Nat /\ DOMAIN s = 1..Len(s)
      <3>1. i + 1 \in 1..L
        BY <1>1
      <3>2. s \in Seq(T)
        BY <1>1, <3>1
      <3> QED BY <3>2
    <2>2. Good(i) /\ part(i + 1) = a \o s
      <3>1. i <= L
        BY <1>1
      <3>2. Good(i)
        BY <1>7, <3>1
      <3>3. part(i + 1) = part(i) \o seqs[i + 1]
        BY <1>5
      <3> QED BY <3>2, <3>3
    <2>i. 1..(i + 1) = (1..i) \cup {i + 1} /\ i + 1 \notin 1..i
      BY <1>7
    <2>3. Places(seqs, i + 1) = Places(seqs, i) \cup new /\ Places(seqs, i) \cap new = {}
      <3>1. Places(seqs, i + 1) = Places(seqs, i) \cup new
        BY <2>i DEF Places
      <3>2. \A x \in Places(seqs, i) : x[1] \in 1..i
        BY DEF Places
      <3>3. \A x \in new : x[1] = i + 1
        OBVIOUS
      <3> QED BY <2>i, <3>1, <3>2, <3>3
    <2>4. IsFiniteSet(new) /\ Cardinality(new) = Len(s)
      <3> HIDE DEF s
      <3> QED BY <2>1, PlacesOfOne
    <2>5. Elems(i + 1) = Elems(i) \cup Range(s)
      <3>1. Range(s) = {x \in T : \E j \in DOMAIN s : x = s[j]}
        BY <2>1 DEF Range
      <3> QED BY <2>i, <3>1
    <2> HIDE DEF s, new, Elems, part
    <2>6. a \in Seq(T)
      BY <2>2
    <2> HIDE DEF a
    <2>7. a \o s \in Seq(T) /\ Len(a \o s) = Len(a) + Len(s) /\ Len(a) \in Nat
      BY <2>1, <2>6
    <2>8. Range(a \o s) = Range(a) \cup Range(s)
      BY <2>1, <2>6, ConcatRange
    <2>9. /\ IsFiniteSet(Places(seqs, i + 1))
          /\ Cardinality(Places(seqs, i + 1)) = Len(a) + Len(s)
      <3>1. IsFiniteSet(Places(seqs, i)) /\ Cardinality(Places(seqs, i)) = Len(a)
        BY <2>2 DEF a
      <3>2. /\ IsFiniteSet(Places(seqs, i) \cup new)
            /\ Cardinality(Places(seqs, i) \cup new) =
                  Cardinality(Places(seqs, i)) + Cardinality(new)
                    - Cardinality(Places(seqs, i) \cap new)
        BY <2>4, <3>1, FS_Union
      <3>3. Cardinality(Places(seqs, i) \cap new) = 0
        BY <2>3, FS_EmptySet
      <3>4. Cardinality(Places(seqs, i + 1)) = Len(a) + Len(s) - 0
        BY <2>3, <2>4, <3>1, <3>2, <3>3
      <3>5. Cardinality(Places(seqs, i + 1)) = Len(a) + Len(s)
        BY <2>1, <2>7, <3>4
      <3> QED BY <2>3, <3>2, <3>5
    <2> QED BY <2>2, <2>5, <2>7, <2>8, <2>9 DEF a
  <1> HIDE DEF I
  <1>8. L \in I
    BY <1>1, <1>6, <1>7, NatSetInduction
  <1>9. Good(L)
    BY <1>1, <1>8 DEF I
  <1>10. ASSUME NEW x
         PROVE  x \in Elems(L) <=> \E i \in DOMAIN seqs : \E j \in DOMAIN seqs[i] : x = seqs[i][j]
    <2>1. \A i \in DOMAIN seqs : \A j \in DOMAIN seqs[i] : seqs[i][j] \in T
      BY <1>1
    <2> QED BY <1>1, <2>1
  <1> HIDE DEF part, Elems
  <1> QED BY <1>3, <1>9, <1>10 DEF L

-----------------------------------------------------------------------------
(* From JSON to properties.                                                *)

\* What json_to_props() accepts.
IsProps(json) ==
    \A i \in DOMAIN json.elems :
        /\ json.elems[i].value.type = "array"
        /\ \A v \in Range(json.elems[i].value.elems) : v.type \in {"integer", "string"}

\* A value and back is the value.
LEMMA ValueBack ==
    ASSUME NEW json, IsScalar(json), json.type \in {"integer", "string"}
    PROVE  json_value(json_to_pvalue(json)) = json
  <1>1. /\ \A n : pvalue_int64_create(n).type = "int64" /\ pvalue_int64_create(n).int64 = n
        /\ \A s : pvalue_str_create(s).type = "str" /\ pvalue_str_create(s).str = s
    BY DEF pvalue_int64_create, pvalue_str_create
  <1>2. CASE json.type = "integer"
    BY <1>1, <1>2 DEF IsScalar, json_to_pvalue, json_value
  <1>3. CASE json.type = "string"
    BY <1>1, <1>3 DEF IsScalar, json_to_pvalue, json_value
  <1> QED BY <1>2, <1>3

LEMMA SeqOfOwn ==
    ASSUME NEW s, IsSeq(s)
    PROVE  /\ Len(s) \in Nat /\ DOMAIN s = 1..Len(s)
           /\ \A T : (\A i \in 1..Len(s) : s[i] \in T) => s \in Seq(T)
  <1>1. Len(s) \in Nat /\ s = [i \in 1..Len(s) |-> s[i]]
    BY DEF IsSeq
  <1>2. DOMAIN s = 1..Len(s)
    BY <1>1
  <1>3. ASSUME NEW T, \A i \in 1..Len(s) : s[i] \in T PROVE s \in Seq(T)
    <2> DEFINE n == Len(s)
               e == [i \in 1..n |-> s[i]]
    <2>1. e \in [1..n -> T]
      BY <1>3
    <2>2. \A x \in [1..n -> T] : x \in Seq(T)
      BY <1>1
    <2> QED BY <1>1, <2>1, <2>2
  <1> QED BY <1>1, <1>2, <1>3

\* The places of the values in an object.
ValuePlaces(json) ==
    UNION {{i} \X DOMAIN json.elems[i].value.elems : i \in DOMAIN json.elems}

\* json_to_props() has the pairs of the object and as many of them.
LEMMA JsonToProps ==
    ASSUME NEW json, IsObject(json), IsProps(json)
    PROVE  /\ IsSeq(json_to_props(json))
           /\ JsonPairs(json_to_props(json), Len(json_to_props(json))) = Pairs(json)
           /\ IsFiniteSet(ValuePlaces(json))
           /\ Len(json_to_props(json)) = Cardinality(ValuePlaces(json))
  <1> DEFINE ms == json.elems
             N == Len(ms)
             array(i) == ms[i].value.elems
             pair(i, j) == Pair(ms[i].name, json_to_pvalue(array(i)[j]))
             T == UNION {{pair(i, j) : j \in DOMAIN array(i)} : i \in 1..N}
             seqs == [i \in DOMAIN ms |-> [j \in DOMAIN array(i) |-> pair(i, j)]]
             ps == FlattenSeq(seqs)
  <1>1. json_to_props(json) = ps
    BY DEF json_to_props, IsProps
  <1>2. N \in Nat /\ DOMAIN ms = 1..N
    BY SeqOfOwn DEF IsObject
  <1>3. \A i \in 1..N : /\ IsSeq(array(i)) /\ Len(array(i)) \in Nat
                        /\ DOMAIN array(i) = 1..Len(array(i))
    BY <1>2, SeqOfOwn DEF IsObject
  <1>4. \A i \in 1..N : \A j \in DOMAIN array(i) :
            IsScalar(array(i)[j]) /\ array(i)[j].type \in {"integer", "string"}
    BY <1>2 DEF IsObject, IsProps, Range
  <1>5. \A i \in 1..N : \A j \in DOMAIN array(i) : pair(i, j) \in T
    OBVIOUS
  <1>6. \A i \in 1..N : /\ seqs[i] = [j \in DOMAIN array(i) |-> pair(i, j)]
                        /\ DOMAIN seqs[i] = DOMAIN array(i)
                        /\ \A j \in DOMAIN array(i) : seqs[i][j] = pair(i, j)
    BY <1>2
  <1>7. DOMAIN seqs = 1..N
    BY <1>2
  <1>8. seqs \in Seq(Seq(T)) /\ Len(seqs) = N
    <2> HIDE DEF T, pair
    <2>1. \A i \in 1..N : seqs[i] \in Seq(T)
      <3> SUFFICES ASSUME NEW i \in 1..N PROVE seqs[i] \in Seq(T)
        OBVIOUS
      <3> DEFINE n == Len(array(i))
      <3>1. n \in Nat /\ DOMAIN array(i) = 1..n
        BY <1>3
      <3>2. seqs[i] \in [1..n -> T]
        BY <1>5, <1>6, <3>1
      <3> HIDE DEF n, seqs
      <3> QED BY <3>1, <3>2
    <2>2. seqs \in [1..N -> Seq(T)]
      <3>1. seqs = [i \in 1..N |-> seqs[i]]
        BY <1>2
      <3> HIDE DEF seqs
      <3> QED BY <2>1, <3>1
    <2> HIDE DEF seqs, N
    <2> QED BY <1>2, <2>2
  <1> HIDE DEF seqs, T, N
  <1>9. /\ ps \in Seq(T)
        /\ \A x : x \in Range(ps) <=> \E i \in 1..N : \E j \in DOMAIN seqs[i] : x = seqs[i][j]
        /\ IsFiniteSet(Places(seqs, N)) /\ Len(ps) = Cardinality(Places(seqs, N))
    <2>1. /\ FlattenSeq(seqs) \in Seq(T)
          /\ \A x : x \in Range(FlattenSeq(seqs)) <=>
                       \E i \in DOMAIN seqs : \E j \in DOMAIN seqs[i] : x = seqs[i][j]
          /\ IsFiniteSet(Places(seqs, Len(seqs)))
          /\ Len(FlattenSeq(seqs)) = Cardinality(Places(seqs, Len(seqs)))
      BY <1>8, Flat, Zenon
    <2> QED BY <1>7, <1>8, <2>1
  <1>10. Places(seqs, N) = ValuePlaces(json)
    <2>1. ASSUME NEW x PROVE x \in Places(seqs, N) <=> \E i \in 1..N : x \in {i} \X DOMAIN seqs[i]
      BY DEF Places
    <2>2. ASSUME NEW x
          PROVE  x \in ValuePlaces(json) <=> \E i \in 1..N : x \in {i} \X DOMAIN array(i)
      BY <1>2 DEF ValuePlaces
    <2>3. \A i \in 1..N : DOMAIN seqs[i] = DOMAIN array(i)
      BY <1>6
    <2> QED BY <2>1, <2>2, <2>3
  <1> HIDE DEF ps, pair
  <1>11. IsSeq(ps)
    <2>1. Len(ps) \in Nat /\ ps \in [1..Len(ps) -> T]
      BY <1>9
    <2> QED BY <2>1 DEF IsSeq
  <1>12. ASSUME NEW p PROVE p \in JsonPairs(ps, Len(ps)) <=> p \in Pairs(json)
    <2>1. p \in JsonPairs(ps, Len(ps)) <=> \E x \in Range(ps) : p = <<x.name, json_value(x.value)>>
      <3>1. DOMAIN ps = 1..Len(ps)
        BY <1>9
      <3> QED BY <3>1 DEF JsonPairs, Range
    <2>2. p \in Pairs(json) <=> \E i \in 1..N : \E j \in DOMAIN array(i) : p = <<ms[i].name, array(i)[j]>>
      BY <1>2, PairsElement
    <2>3. ASSUME NEW i \in 1..N, NEW j \in DOMAIN array(i)
          PROVE  seqs[i][j].name = ms[i].name /\ json_value(seqs[i][j].value) = array(i)[j]
      <3>1. seqs[i][j] = pair(i, j)
        BY <1>6
      <3>2. pair(i, j).name = ms[i].name /\ pair(i, j).value = json_to_pvalue(array(i)[j])
        BY PairFields DEF pair
      <3> QED BY <1>4, <3>1, <3>2, ValueBack
    <2>4. ASSUME p \in JsonPairs(ps, Len(ps)) PROVE p \in Pairs(json)
      <3>1. PICK i \in 1..N : \E j \in DOMAIN seqs[i] :
                    p = <<seqs[i][j].name, json_value(seqs[i][j].value)>>
        BY <1>9, <2>1, <2>4
      <3>2. PICK j \in DOMAIN array(i) : p = <<seqs[i][j].name, json_value(seqs[i][j].value)>>
        BY <1>6, <3>1
      <3>3. p = <<ms[i].name, array(i)[j]>>
        BY <2>3, <3>2
      <3> QED BY <2>2, <3>3
    <2>5. ASSUME p \in Pairs(json) PROVE p \in JsonPairs(ps, Len(ps))
      <3>0. PICK i \in 1..N : \E j \in DOMAIN array(i) : p = <<ms[i].name, array(i)[j]>>
        BY <2>2, <2>5
      <3>1. PICK j \in DOMAIN array(i) : p = <<ms[i].name, array(i)[j]>>
        BY <3>0
      <3>2. seqs[i][j] \in Range(ps)
        BY <1>6, <1>9
      <3> QED BY <2>1, <2>3, <3>1, <3>2
    <2> QED BY <2>4, <2>5
  <1> QED BY <1>1, <1>9, <1>10, <1>11, <1>12

\* Properties that go through both conversions, as from a publish request to
\* the notification of a subscriber, come out with the pairs they had.
THEOREM PropsRoundTrip ==
    \A json : IsObject(json) /\ IsProps(json) =>
                 Pairs(props_to_json(json_to_props(json))) = Pairs(json)
  BY JsonToProps, PropsToJson

-----------------------------------------------------------------------------
(* Equal properties.                                                       *)

\* If no pair occurs twice there are as many pairs as values.
LEMMA PairsCounted ==
    ASSUME NEW json, IsFiniteSet(ValuePlaces(json)), NoPairTwice(json)
    PROVE  /\ IsFiniteSet(Pairs(json))
           /\ Cardinality(Pairs(json)) = Cardinality(ValuePlaces(json))
  <1> DEFINE ms == json.elems
             W == ValuePlaces(json)
             at(x) == <<ms[x[1]].name, ms[x[1]].value.elems[x[2]]>>
             g == [x \in W |-> at(x)]
  <1>1. \A x : x \in W <=> \E i \in DOMAIN ms : x \in {i} \X DOMAIN ms[i].value.elems
    BY DEF ValuePlaces
  <1>2. \A x \in W : x[1] \in DOMAIN ms /\ x[2] \in DOMAIN ms[x[1]].value.elems
    BY <1>1
  <1>3. \A i \in DOMAIN ms : \A j \in DOMAIN ms[i].value.elems : <<i, j>> \in W
    BY <1>1
  <1>4. \A x \in W : at(x) \in Pairs(json)
    BY <1>2, PairsElement
  <1>5. \A p \in Pairs(json) : \E x \in W : at(x) = p
    <2> SUFFICES ASSUME NEW p \in Pairs(json) PROVE \E x \in W : at(x) = p
      OBVIOUS
    <2>1. PICK i \in DOMAIN ms : \E j \in DOMAIN ms[i].value.elems : p = <<ms[i].name, ms[i].value.elems[j]>>
      BY PairsElement
    <2>2. PICK j \in DOMAIN ms[i].value.elems : p = <<ms[i].name, ms[i].value.elems[j]>>
      BY <2>1
    <2>3. <<i, j>> \in W /\ at(<<i, j>>) = p
      BY <1>3, <2>2
    <2> QED BY <2>3
  <1>6. ASSUME NEW x \in W, NEW y \in W, at(x) = at(y) PROVE x = y
    <2> DEFINE p == at(x)
               U == {z \in W : ms[z[1]].name = p[1] /\ ms[z[1]].value.elems[z[2]] = p[2]}
    <2>1. Occurs(json, p[1], p[2]) = 1
      BY <1>4 DEF NoPairTwice
    <2>2. Occurs(json, p[1], p[2]) = Cardinality(U)
      BY DEF Occurs, ValuePlaces
    <2>3. IsFiniteSet(U)
      BY FS_Subset
    <2>4. x \in U /\ y \in U
      BY <1>6
    <2> HIDE DEF U, p
    <2>5. PICK u : U = {u}
      BY <2>1, <2>2, <2>3, FS_Singleton
    <2> QED BY <2>4, <2>5
  <1> HIDE DEF at, W
  <1>7. g \in Bijection(W, Pairs(json))
    <2>1. g \in [W -> Pairs(json)]
      BY <1>4
    <2>2. \A x, y \in W : g[x] = g[y] => x = y
      BY <1>6
    <2>3. \A p \in Pairs(json) : \E x \in W : g[x] = p
      BY <1>5
    <2> HIDE DEF g
    <2> QED BY <2>1, <2>2, <2>3, Fun_IsBij
  <1> HIDE DEF g
  <1> QED BY <1>7, Fun_ExistsBij, FS_Bijection DEF W

\* props_equal() compares in one direction only. As long as no pair occurs
\* twice in the first properties, that and the equal numbers are enough: both
\* have the same pairs.
LEMMA EqualProps ==
    ASSUME NEW json, IsObject(json), IsProps(json), NoPairTwice(json),
           NEW old, IsSeq(old), props_equal(json_to_props(json), old)
    PROVE  Pairs(props_to_json(old)) = Pairs(json)
  <1> DEFINE ps == json_to_props(json)
             n == Len(ps)
             P == Pairs(json)
             Q == JsonPairs(old, n)
  <1>1. /\ IsSeq(ps) /\ JsonPairs(ps, n) = P
        /\ IsFiniteSet(ValuePlaces(json)) /\ n = Cardinality(ValuePlaces(json))
    BY JsonToProps
  <1>2. IsFiniteSet(P) /\ Cardinality(P) = n
    BY <1>1, PairsCounted
  <1>3. n \in Nat /\ DOMAIN ps = 1..n /\ Len(old) = n /\ DOMAIN old = 1..n
    BY <1>1, SeqOfOwn DEF props_equal
  <1>4. P \subseteq Q
    <2> SUFFICES ASSUME NEW i \in 1..n
                 PROVE  <<ps[i].name, json_value(ps[i].value)>> \in Q
      BY <1>1 DEF JsonPairs
    <2>1. PICK k \in 1..n : old[k].name = ps[i].name /\ pvalue_equal(old[k].value, ps[i].value)
      BY <1>3 DEF props_equal, has_pair
    <2>2. json_value(old[k].value) = json_value(ps[i].value)
      BY <2>1 DEF pvalue_equal, json_value
    <2> HIDE DEF n, ps
    <2> QED BY <2>1, <2>2 DEF JsonPairs
  <1> HIDE DEF ps, n, P
  <1>5. IsFiniteSet(Q) /\ Cardinality(Q) <= n
    <2> DEFINE f == [i \in 1..n |-> <<old[i].name, json_value(old[i].value)>>]
    <2>1. f \in [1..n -> Q] /\ \A q \in Q : \E i \in 1..n : f[i] = q
      BY DEF JsonPairs
    <2> HIDE DEF f, Q
    <2>2. f \in Surjection(1..n, Q)
      BY <2>1, Fun_IsSurj
    <2>3. IsFiniteSet(1..n) /\ Cardinality(1..n) = n
      BY <1>3, FS_Interval
    <2> QED BY <2>2, <2>3, FS_Surjection
  <1> HIDE DEF Q
  <1>6. P = Q
    <2>1. P \in SUBSET Q
      BY <1>4
    <2>2. Cardinality(P) <= Cardinality(Q) /\ (Cardinality(Q) = Cardinality(P) => Q = P)
      BY <1>5, <2>1, FS_Subset
    <2>3. Cardinality(Q) \in Nat
      BY <1>5, FS_CardinalityType
    <2> QED BY <1>2, <1>3, <1>5, <2>2, <2>3
  <1>7. Pairs(props_to_json(old)) = Q
    BY <1>3, PropsToJson DEF Q
  <1> QED BY <1>6, <1>7 DEF P

\* Each pair then occurs once on both sides.
LEMMA SamePairsOccur ==
    ASSUME NEW a, NEW b, Pairs(a) = Pairs(b), NoPairTwice(a), NoPairTwice(b)
    PROVE  \A p \in Pairs(a) \cup Pairs(b) : Occurs(a, p[1], p[2]) = Occurs(b, p[1], p[2])
  BY DEF NoPairTwice

LEMMA EqualToItself ==
    ASSUME NEW ps
    PROVE  props_equal(ps, ps)
  BY DEF props_equal, has_pair, pvalue_equal

-----------------------------------------------------------------------------
(* The fields of requests.                                                 *)

\* A field of a request that is not in every request.
ReqNames == {"client-id", "protocol-minimum-version", "protocol-maximum-version",
             "service-id", "generation", "service-props", "ttl", "subscription-id", "filter"}

ReqField == [name: ReqNames, type: {"uint63", "str", "props"}]

NamesApart(fields) ==
    \A i, j \in DOMAIN fields : fields[i].name = fields[j].name => i = j

FieldLists(t) ==
    /\ t.req_fields \in Seq(ReqField) /\ NamesApart(t.req_fields)
    /\ t.opt_req_fields \in Seq(ReqField) /\ NamesApart(t.opt_req_fields)
    /\ FieldNames(t.req_fields) \cap FieldNames(t.opt_req_fields) = {}

LEMMA ShortLists ==
    /\ <<>> \in Seq(ReqField) /\ NamesApart(<<>>) /\ FieldNames(<<>>) = {}
    /\ \A a \in ReqField :
          <<a>> \in Seq(ReqField) /\ NamesApart(<<a>>) /\ FieldNames(<<a>>) = {a.name}
  <1>1. <<>> \in Seq(ReqField) /\ NamesApart(<<>>) /\ FieldNames(<<>>) = {}
    BY DEF NamesApart, FieldNames
  <1>2. ASSUME NEW a \in ReqField
        PROVE  <<a>> \in Seq(ReqField) /\ NamesApart(<<a>>) /\ FieldNames(<<a>>) = {a.name}
    BY DEF NamesApart, FieldNames
  <1> QED BY <1>1, <1>2

LEMMA LongLists ==
    ASSUME NEW a \in ReqField, NEW b \in ReqField, NEW c \in ReqField, NEW d \in ReqField,
           a.name # b.name, a.name # c.name, b.name # c.name,
           a.name # d.name, b.name # d.name, c.name # d.name
    PROVE  /\ <<a, b, c>> \in Seq(ReqField) /\ NamesApart(<<a, b, c>>)
           /\ <<a, b, c, d>> \in Seq(ReqField) /\ NamesApart(<<a, b, c, d>>)
  <1>1. <<a, b, c>> \in Seq(ReqField) /\ <<a, b, c, d>> \in Seq(ReqField)
    OBVIOUS
  <1>2. NamesApart(<<a, b, c>>)
    BY DEF NamesApart
  <1>3. NamesApart(<<a, b, c, d>>)
    BY DEF NamesApart
  <1> QED BY <1>1, <1>2, <1>3

LEMMA RequestFields == \A t \in proto_ta_types : FieldLists(t)
  <1> USE DEF Type
  <1>f. /\ \A type \in {"uint63", "str", "props"}, n \in ReqNames :
              Field(n, type) \in ReqField
        /\ \A n, type : Field(n, type).name = n
    BY DEF Field, ReqField
  <1>0. \A t : t.req_fields = <<>> /\ t.opt_req_fields = <<>> => FieldLists(t)
    BY ShortLists DEF FieldLists
  <1>1. FieldLists(hello_ta)
    <2> DEFINE a == Uint63("client-id")
               b == Uint63("protocol-minimum-version")
               c == Uint63("protocol-maximum-version")
               d == Uint63("ttl")
    <2>1. hello_ta.req_fields = <<a, b, c>> /\ hello_ta.opt_req_fields = <<>>
      BY DEF hello_ta
    <2>2. a \in ReqField /\ b \in ReqField /\ c \in ReqField /\ d \in ReqField
      BY <1>f DEF Uint63, ReqNames
    <2>3. /\ a.name = "client-id" /\ b.name = "protocol-minimum-version"
          /\ c.name = "protocol-maximum-version" /\ d.name = "ttl"
      BY <1>f DEF Uint63
    <2> HIDE DEF a, b, c, d
    <2>4. <<a, b, c>> \in Seq(ReqField) /\ NamesApart(<<a, b, c>>)
      BY <2>2, <2>3, LongLists
    <2> QED BY <2>1, <2>4, ShortLists DEF FieldLists
  <1>2. FieldLists(publish_ta)
    <2> DEFINE a == Uint63("service-id")
               b == Uint63("generation")
               c == Field("service-props", "props")
               d == Uint63("ttl")
    <2>1. publish_ta.req_fields = <<a, b, c, d>> /\ publish_ta.opt_req_fields = <<>>
      BY DEF publish_ta
    <2>2. a \in ReqField /\ b \in ReqField /\ c \in ReqField /\ d \in ReqField
      BY <1>f DEF Uint63, ReqNames
    <2>3. /\ a.name = "service-id" /\ b.name = "generation"
          /\ c.name = "service-props" /\ d.name = "ttl"
      BY <1>f DEF Uint63
    <2> HIDE DEF a, b, c, d
    <2>4. <<a, b, c, d>> \in Seq(ReqField) /\ NamesApart(<<a, b, c, d>>)
      BY <2>2, <2>3, LongLists
    <2> QED BY <2>1, <2>4, ShortLists DEF FieldLists
  <1>3. ASSUME NEW t \in {unpublish_ta, unsubscribe_ta, subscribe_ta, services_ta}
        PROVE  FieldLists(t)
    <2> DEFINE a == Uint63("service-id")
               b == Uint63("subscription-id")
               f == Str("filter")
    <2>1. /\ unpublish_ta.req_fields = <<a>> /\ unpublish_ta.opt_req_fields = <<>>
          /\ unsubscribe_ta.req_fields = <<b>> /\ unsubscribe_ta.opt_req_fields = <<>>
          /\ subscribe_ta.req_fields = <<b>> /\ subscribe_ta.opt_req_fields = <<f>>
          /\ services_ta.req_fields = <<>> /\ services_ta.opt_req_fields = <<f>>
      BY DEF unpublish_ta, unsubscribe_ta, subscribe_ta, services_ta
    <2>2. a \in ReqField /\ b \in ReqField /\ f \in ReqField
      BY <1>f DEF Uint63, Str, ReqNames
    <2>3. b.name = "subscription-id" /\ f.name = "filter"
      BY <1>f DEF Uint63, Str
    <2> HIDE DEF a, b, f
    <2>4. /\ {b.name} \cap {f.name} = {}
      BY <2>3
    <2>5. /\ FieldLists(unpublish_ta) /\ FieldLists(unsubscribe_ta)
          /\ FieldLists(subscribe_ta) /\ FieldLists(services_ta)
      BY <2>1, <2>2, <2>4, ShortLists DEF FieldLists
    <2> QED BY <1>3, <2>5
  <1>4. FieldLists(ping_ta) /\ FieldLists(subscriptions_ta) /\ FieldLists(clients_ta)
    BY <1>0 DEF ping_ta, subscriptions_ta, clients_ta
  <1> QED BY <1>1, <1>2, <1>3, <1>4 DEF proto_ta_types

LEMMA LookupFinds ==
    ASSUME NEW cmd_name
    PROVE  /\ lookup_type(cmd_name) \in proto_ta_types \cup {Nil}
           /\ (\E t \in proto_ta_types : t.cmd = cmd_name) =>
                 /\ lookup_type(cmd_name) \in proto_ta_types
                 /\ lookup_type(cmd_name).cmd = cmd_name
  BY DEF lookup_type

-----------------------------------------------------------------------------
(* The slots of field values.                                              *)

LEMMA Slots ==
    ASSUME NEW values, IsFiniteSet(DOMAIN values)
    PROVE  /\ NumValues(values) \in Nat
           /\ IsFiniteSet(DOMAIN free_fields(values))
           /\ NumValues(free_fields(values)) = 0
  <1>1. IsFiniteSet({i \in DOMAIN values : values[i] # Nil})
    BY FS_Subset
  <1>2. NumValues(values) \in Nat
    BY <1>1, FS_CardinalityType DEF NumValues
  <1>3. DOMAIN free_fields(values) = DOMAIN values
    BY DEF free_fields
  <1>4. {i \in DOMAIN free_fields(values) : free_fields(values)[i] # Nil} = {}
    BY DEF free_fields
  <1>5. NumValues(free_fields(values)) = 0
    BY <1>4, FS_EmptySet DEF NumValues
  <1> QED BY <1>2, <1>3, <1>5

LEMMA NoSlots == IsFiniteSet(DOMAIN <<>>) /\ NumValues(<<>>) = 0
  <1>1. DOMAIN <<>> = {}
    OBVIOUS
  <1>2. {i \in DOMAIN <<>> : <<>>[i] # Nil} = {}
    BY <1>1
  <1> QED BY <1>1, <1>2, FS_EmptySet DEF NumValues

\* get_fields() holds as many values as it leaves in the slots, also when one
\* of several fields is wrong.
LEMMA FieldsHeld ==
    ASSUME NEW msg, NEW fields, IsFiniteSet(DOMAIN fields), NEW opt
    PROVE  /\ IsFiniteSet(DOMAIN get_fields(msg, fields, opt).values)
           /\ get_fields(msg, fields, opt).held = NumValues(get_fields(msg, fields, opt).values)
  <1> DEFINE got == [i \in DOMAIN fields |-> get_field(msg, fields[i], opt)]
             wrong == {i \in DOMAIN fields : got[i] = Error}
             filled == [i \in DOMAIN fields |-> IF \E j \in wrong : j <= i THEN Nil ELSE got[i]]
  <1>1. get_fields(msg, fields, opt) =
            IF wrong = {} THEN [num |-> NumValues(got), values |-> got, held |-> NumValues(got)]
            ELSE [num |-> Error, values |-> free_fields(filled), held |-> 0]
    BY DEF get_fields
  <1>2. DOMAIN got = DOMAIN fields /\ DOMAIN filled = DOMAIN fields
    OBVIOUS
  <1> HIDE DEF got, wrong, filled
  <1>3. CASE wrong = {}
    BY <1>1, <1>2, <1>3
  <1>4. CASE wrong # {}
    <2>1. /\ get_fields(msg, fields, opt).values = free_fields(filled)
          /\ get_fields(msg, fields, opt).held = 0
      BY <1>1, <1>4
    <2>2. IsFiniteSet(DOMAIN free_fields(filled)) /\ NumValues(free_fields(filled)) = 0
      BY <1>2, Slots
    <2> QED BY <2>1, <2>2
  <1> QED BY <1>3, <1>4

Ta(state, ta_id, type, req, opt_req) ==
    [state |-> state, ta_id |-> ta_id, type |-> type, req |-> req, opt_req |-> opt_req]

\* A transaction whose values can be counted.
IsTa(t) ==
    /\ t = Ta(t.state, t.ta_id, t.type, t.req, t.opt_req)
    /\ IsFiniteSet(DOMAIN t.req) /\ IsFiniteSet(DOMAIN t.opt_req)

LEMMA TaOf ==
    ASSUME NEW state, NEW ta_id, NEW type, NEW req, NEW opt_req,
           IsFiniteSet(DOMAIN req), IsFiniteSet(DOMAIN opt_req)
    PROVE  /\ IsTa(Ta(state, ta_id, type, req, opt_req))
           /\ Ta(state, ta_id, type, req, opt_req).state = state
           /\ Released(Ta(state, ta_id, type, req, opt_req)) = NumValues(req) + NumValues(opt_req)
  BY DEF IsTa, Ta, Released

LEMMA TaState ==
    ASSUME NEW t, IsTa(t), NEW state
    PROVE  /\ IsTa([t EXCEPT !.state = state])
           /\ [t EXCEPT !.state = state].state = state
           /\ [t EXCEPT !.state = state].type = t.type
           /\ [t EXCEPT !.state = state].ta_id = t.ta_id
           /\ [t EXCEPT !.state = state].req = t.req
           /\ [t EXCEPT !.state = state].opt_req = t.opt_req
           /\ Released([t EXCEPT !.state = state]) = Released(t)
           /\ Released(t) \in Nat
           /\ \A st : [[t EXCEPT !.state = state] EXCEPT !.state = st] = [t EXCEPT !.state = st]
           /\ [t EXCEPT !.state = t.state] = t
  <1> DEFINE u == [t EXCEPT !.state = state]
  <1>1. u = Ta(state, t.ta_id, t.type, t.req, t.opt_req)
    BY DEF IsTa, Ta
  <1>2. u.state = state /\ u.req = t.req /\ u.opt_req = t.opt_req /\ u.type = t.type /\ u.ta_id = t.ta_id
    BY <1>1 DEF Ta
  <1>3. IsTa(u)
    BY <1>1, <1>2 DEF IsTa
  <1>4. NumValues(t.req) \in Nat /\ NumValues(t.opt_req) \in Nat
    BY Slots DEF IsTa
  <1>5. Released(t) \in Nat
    BY <1>4 DEF Released
  <1>6. ASSUME NEW st PROVE [u EXCEPT !.state = st] = [t EXCEPT !.state = st]
    BY DEF IsTa, Ta
  <1>7. [t EXCEPT !.state = t.state] = t
    BY DEF IsTa, Ta
  <1> QED BY <1>2, <1>3, <1>5, <1>6, <1>7 DEF Released

\* The way through proto_ta_req() that returns 0.
Accepts(msg) ==
    LET cmd == get_field(msg, Str("ta-cmd"), FALSE)
        msg_type == get_field(msg, Str("msg-type"), FALSE)
        type == lookup_type(cmd)
        req == get_fields(msg, type.req_fields, FALSE)
        opt == get_fields(msg, type.opt_req_fields, TRUE)
    IN  /\ get_field(msg, Uint63("ta-id"), FALSE) # Error
        /\ cmd # Error /\ msg_type # Error /\ msg_type = "request" /\ type # Nil
        /\ req.num # Error /\ opt.num # Error
        /\ ~too_many_fields(msg, PROTO_NUM_MANDANTORY_FIELDS + req.num + opt.num)

ParsedTa(msg) ==
    LET type == lookup_type(get_field(msg, Str("ta-cmd"), FALSE))
    IN  Ta("requested", get_field(msg, Uint63("ta-id"), FALSE), type,
           get_fields(msg, type.req_fields, FALSE).values,
           get_fields(msg, type.opt_req_fields, TRUE).values)

\* Whatever the message, the values that proto_ta_req() has allocated when it
\* returns are those in the transaction's slots.
LEMMA ParseHolds ==
    ASSUME NEW msg
    PROVE  /\ IsTa(parse_req(msg).ta)
           /\ parse_req(msg).ta.state = IF parse_req(msg).rc = 0 THEN "requested" ELSE "initialized"
           /\ parse_req(msg).held = Released(parse_req(msg).ta)
           /\ parse_req(msg).rc = IF Accepts(msg) THEN 0 ELSE -1
           /\ Accepts(msg) => parse_req(msg).ta = ParsedTa(msg)
  <1> DEFINE p == parse_req(msg)
             ta_id == get_field(msg, Uint63("ta-id"), FALSE)
             cmd == get_field(msg, Str("ta-cmd"), FALSE)
             msg_type == get_field(msg, Str("msg-type"), FALSE)
             named == [proto_ta_create EXCEPT !.ta_id = ta_id]
             type == lookup_type(cmd)
             req == get_fields(msg, type.req_fields, FALSE)
             opt == get_fields(msg, type.opt_req_fields, TRUE)
             typed == [named EXCEPT !.type = type, !.req = req.values]
             both == [typed EXCEPT !.opt_req = opt.values]
             freed == [both EXCEPT !.req = free_fields(req.values)]
             cleared == [freed EXCEPT !.opt_req = free_fields(opt.values)]
             done == [both EXCEPT !.state = "requested"]
             Good == /\ IsTa(p.ta)
                     /\ p.ta.state = IF p.rc = 0 THEN "requested" ELSE "initialized"
                     /\ p.held = Released(p.ta) /\ p.rc = IF Accepts(msg) THEN 0 ELSE -1
                     /\ Accepts(msg) => p.ta = ParsedTa(msg)
  <1> SUFFICES Good
    OBVIOUS
  <1>1. p = IF ta_id = Error THEN Refused(proto_ta_create, 0)
            ELSE IF cmd = Error \/ msg_type = Error \/ msg_type # "request" THEN Refused(named, 0)
            ELSE IF type = Nil THEN Refused(named, 0)
            ELSE IF req.num = Error THEN Refused(typed, req.held)
            ELSE IF opt.num = Error THEN Refused(freed, opt.held)
            ELSE IF too_many_fields(msg, PROTO_NUM_MANDANTORY_FIELDS + req.num + opt.num)
                 THEN Refused(cleared, 0)
            ELSE [ta |-> done, rc |-> 0, held |-> req.held + opt.held]
    BY DEF parse_req
  <1>2. /\ proto_ta_create = Ta("initialized", -1, Nil, <<>>, <<>>)
        /\ named = Ta("initialized", ta_id, Nil, <<>>, <<>>)
        /\ typed = Ta("initialized", ta_id, type, req.values, <<>>)
        /\ both = Ta("initialized", ta_id, type, req.values, opt.values)
        /\ freed = Ta("initialized", ta_id, type, free_fields(req.values), opt.values)
        /\ cleared = Ta("initialized", ta_id, type, free_fields(req.values), free_fields(opt.values))
        /\ done = Ta("requested", ta_id, type, req.values, opt.values)
    <2>1. proto_ta_create = Ta("initialized", -1, Nil, <<>>, <<>>)
      BY DEF proto_ta_create, Ta
    <2> HIDE DEF ta_id, type, req, opt
    <2>3. named = Ta("initialized", ta_id, Nil, <<>>, <<>>)
      BY DEF proto_ta_create, Ta
    <2> HIDE DEF named
    <2>4. typed = Ta("initialized", ta_id, type, req.values, <<>>)
      <3> DEFINE half == [named EXCEPT !.type = type]
      <3>1. half = Ta("initialized", ta_id, type, <<>>, <<>>)
        BY <2>3 DEF Ta
      <3>2. typed = [half EXCEPT !.req = req.values]
        OBVIOUS
      <3> HIDE DEF half, typed
      <3> QED BY <3>1, <3>2 DEF Ta
    <2> HIDE DEF typed
    <2>5. both = Ta("initialized", ta_id, type, req.values, opt.values)
      BY <2>4 DEF Ta
    <2> HIDE DEF both
    <2>6. /\ freed = Ta("initialized", ta_id, type, free_fields(req.values), opt.values)
          /\ done = Ta("requested", ta_id, type, req.values, opt.values)
      BY <2>5 DEF Ta
    <2> HIDE DEF freed
    <2>7. cleared = Ta("initialized", ta_id, type, free_fields(req.values), free_fields(opt.values))
      BY <2>6 DEF Ta
    <2> QED BY <2>1, <2>3, <2>4, <2>5, <2>6, <2>7
  <1>3. type # Nil => /\ IsFiniteSet(DOMAIN type.req_fields)
                      /\ IsFiniteSet(DOMAIN type.opt_req_fields)
    <2> HIDE DEF type
    <2>1. type # Nil => type \in proto_ta_types
      BY LookupFinds DEF type
    <2>2. \A fields \in Seq(ReqField) : IsFiniteSet(DOMAIN fields)
      <3> SUFFICES ASSUME NEW fields \in Seq(ReqField) PROVE IsFiniteSet(DOMAIN fields)
        OBVIOUS
      <3>1. DOMAIN fields = 1..Len(fields) /\ Len(fields) \in Nat
        OBVIOUS
      <3> QED BY <3>1, FS_Interval
    <2> QED BY <2>1, <2>2, RequestFields DEF FieldLists
  <1>4. type # Nil => /\ IsFiniteSet(DOMAIN req.values) /\ req.held = NumValues(req.values)
                      /\ IsFiniteSet(DOMAIN opt.values) /\ opt.held = NumValues(opt.values)
    BY <1>3, FieldsHeld
  <1>a. Accepts(msg) <=>
            /\ ta_id # Error /\ cmd # Error /\ msg_type # Error /\ msg_type = "request"
            /\ type # Nil /\ req.num # Error /\ opt.num # Error
            /\ ~too_many_fields(msg, PROTO_NUM_MANDANTORY_FIELDS + req.num + opt.num)
    BY DEF Accepts
  <1>p. ParsedTa(msg) = Ta("requested", ta_id, type, req.values, opt.values)
    BY DEF ParsedTa
  <1> HIDE DEF p, ta_id, cmd, msg_type, named, type, req, opt, typed, both, freed, cleared, done
  <1>5. \A t, h : /\ Refused(t, h).ta = t /\ Refused(t, h).rc = -1 /\ Refused(t, h).held = h
    BY DEF Refused
  <1>6. ASSUME NEW r, NEW o, NEW i, NEW ty, IsFiniteSet(DOMAIN r), IsFiniteSet(DOMAIN o),
               p = Refused(Ta("initialized", i, ty, r, o), NumValues(r) + NumValues(o)),
               ~Accepts(msg)
        PROVE  Good
    BY <1>5, <1>6, TaOf
  <1>7. CASE ta_id = Error \/ cmd = Error \/ msg_type = Error \/ msg_type # "request" \/ type = Nil
    <2>1. \E i : p = Refused(Ta("initialized", i, Nil, <<>>, <<>>), 0)
      BY <1>1, <1>2, <1>7
    <2>2. ~Accepts(msg)
      BY <1>7, <1>a
    <2> QED BY <1>6, <2>1, <2>2, NoSlots
  <1>8. CASE ~(ta_id = Error \/ cmd = Error \/ msg_type = Error \/ msg_type # "request" \/ type = Nil)
    <2>1. /\ IsFiniteSet(DOMAIN req.values) /\ req.held = NumValues(req.values)
          /\ IsFiniteSet(DOMAIN opt.values) /\ opt.held = NumValues(opt.values)
      BY <1>4, <1>8
    <2>2. /\ req.held \in Nat /\ opt.held \in Nat
          /\ IsFiniteSet(DOMAIN free_fields(req.values)) /\ NumValues(free_fields(req.values)) = 0
          /\ IsFiniteSet(DOMAIN free_fields(opt.values)) /\ NumValues(free_fields(opt.values)) = 0
      BY <2>1, Slots
    <2>3. CASE p = Refused(typed, req.held) /\ ~Accepts(msg)
      BY <1>2, <1>6, <2>1, <2>2, <2>3, NoSlots
    <2>4. CASE p = Refused(freed, opt.held) /\ ~Accepts(msg)
      BY <1>2, <1>6, <2>1, <2>2, <2>4
    <2>5. CASE p = Refused(cleared, 0) /\ ~Accepts(msg)
      BY <1>2, <1>6, <2>1, <2>2, <2>5
    <2>6. CASE p = [ta |-> done, rc |-> 0, held |-> req.held + opt.held] /\ Accepts(msg)
      BY <1>2, <1>p, <2>1, <2>2, <2>6, TaOf
    <2> QED BY <1>1, <1>8, <1>a, <2>3, <2>4, <2>5, <2>6
  <1> QED BY <1>7, <1>8

-----------------------------------------------------------------------------
(* Values are freed once.                                                  *)

\* A transaction is there from the parsing of a request to its end, and what
\* proto_ta_req() returned is what it makes of the request.
HInv ==
    /\ request \in Messages \cup {Nil}
    /\ ta \in Transactions \cup {Nil}
    /\ sub_ta \in Transactions \cup {Nil}
    /\ rc = Nil <=> ta = Nil
    /\ rc # Nil => request \in Messages /\ rc = parse_req(request).rc
    /\ FieldsFreedOnce

LEMMA TransactionsAreTas ==
    ASSUME NEW t \in Transactions
    PROVE  /\ IsTa(t) /\ t # Nil /\ Released(t) \in Nat
           /\ \A st \in TaStates : /\ [t EXCEPT !.state = st] \in Transactions
                                   /\ Released([t EXCEPT !.state = st]) = Released(t)
  <1>1. PICK msg \in Messages, s0 \in TaStates : t = [parse_req(msg).ta EXCEPT !.state = s0]
    BY DEF Transactions
  <1> DEFINE u == parse_req(msg).ta
  <1>2. IsTa(u)
    BY ParseHolds
  <1>3. \A st \in TaStates : [u EXCEPT !.state = st] \in Transactions
    BY DEF Transactions
  <1>4. t = [u EXCEPT !.state = s0]
    BY <1>1
  <1> HIDE DEF u
  <1>5. IsTa(t) /\ \A st : [t EXCEPT !.state = st] = [u EXCEPT !.state = st]
    BY <1>2, <1>4, TaState
  <1>6. Released(t) \in Nat /\ \A st : Released([t EXCEPT !.state = st]) = Released(t)
    BY <1>5, TaState
  <1> QED BY <1>3, <1>5, <1>6, NilAssumption

LEMMA ParseIsTa ==
    ASSUME NEW msg \in Messages
    PROVE  parse_req(msg).ta \in Transactions
  <1> DEFINE u == parse_req(msg).ta
  <1>1. IsTa(u) /\ u.state \in TaStates
    BY ParseHolds DEF TaStates
  <1>2. [u EXCEPT !.state = u.state] \in Transactions
    <2>1. \A st \in TaStates : [parse_req(msg).ta EXCEPT !.state = st] \in Transactions
      BY DEF Transactions
    <2> HIDE DEF u
    <2> QED BY <1>1, <2>1 DEF u
  <1> HIDE DEF u
  <1>3. [u EXCEPT !.state = u.state] = u
    BY <1>1, TaState
  <1> QED BY <1>2, <1>3 DEF u

LEMMA InitHInv == ProtoTaInit => HInv
  BY DEF ProtoTaInit, HInv, FieldsFreedOnce

\* A handler that answers moves the transaction on and leaves its values.
LEMMA AnswerHInv ==
    ASSUME HInv, ta # Nil, NEW st \in TaStates, ta' = [ta EXCEPT !.state = st],
           UNCHANGED <<request, rc, sub_ta, allocated>>
    PROVE  HInv'
  <1>1. ta \in Transactions
    BY DEF HInv
  <1>2. ta' \in Transactions /\ ta' # Nil /\ Released(ta') = Released(ta)
    BY <1>1, TransactionsAreTas
  <1> QED BY <1>2 DEF HInv, FieldsFreedOnce, Released

LEMMA ParseHInv ==
    ASSUME HInv, proto_ta_req
    PROVE  HInv'
  <1> DEFINE p == parse_req(request)
  <1>1. /\ request \in Messages /\ rc = Nil /\ ta = Nil
        /\ ta' = p.ta /\ rc' = p.rc /\ allocated' = allocated + p.held
        /\ UNCHANGED <<request, sub_ta>>
    BY DEF HInv, proto_ta_req
  <1>2. p.ta \in Transactions /\ p.held = Released(p.ta) /\ p.rc \in {0, -1}
    BY <1>1, ParseIsTa, ParseHolds
  <1>3. p.ta # Nil /\ p.rc # Nil /\ Released(p.ta) \in Nat
    BY <1>2, TransactionsAreTas, NilAssumption
  <1>4. sub_ta \in Transactions => Released(sub_ta) \in Nat
    BY TransactionsAreTas
  <1> HIDE DEF p
  <1>5. rc' = parse_req(request').rc
    BY <1>1 DEF p
  <1>6. FieldsFreedOnce'
    <2>1. allocated = IF sub_ta = Nil THEN 0 ELSE Released(sub_ta)
      BY <1>1, <1>4 DEF HInv, FieldsFreedOnce
    <2>2. allocated' = Released(ta') + (IF sub_ta' = Nil THEN 0 ELSE Released(sub_ta'))
      BY <1>1, <1>2, <1>3, <1>4, <2>1 DEF HInv
    <2> QED BY <1>1, <1>3, <2>2 DEF FieldsFreedOnce, Released
  <1> QED BY <1>1, <1>2, <1>3, <1>5, <1>6 DEF HInv

LEMMA DestroyHInv ==
    ASSUME HInv, proto_ta_destroy
    PROVE  HInv'
  <1>1. /\ ta # Nil /\ allocated' = allocated - Released(ta)
        /\ request' = Nil /\ rc' = Nil /\ ta' = Nil /\ sub_ta' = sub_ta
    BY DEF proto_ta_destroy
  <1>2. /\ Released(ta) \in Nat
        /\ sub_ta # Nil => Released(sub_ta) \in Nat
    BY <1>1, TransactionsAreTas DEF HInv
  <1>3. allocated' = IF sub_ta = Nil THEN 0 ELSE Released(sub_ta)
    BY <1>1, <1>2 DEF HInv, FieldsFreedOnce
  <1>4. FieldsFreedOnce'
    BY <1>1, <1>2, <1>3 DEF FieldsFreedOnce, Released
  <1> QED BY <1>1, <1>4 DEF HInv

LEMMA SubscribeHInv ==
    ASSUME HInv, handle_subscribe
    PROVE  HInv'
  <1>1. ta \in Transactions /\ ta # Nil /\ "failed" \in TaStates /\ "accepted" \in TaStates
    BY DEF HInv, handle_subscribe, Ready, Handling, TaStates
  <1>2. CASE ta' = [ta EXCEPT !.state = "failed"] /\ UNCHANGED <<request, rc, sub_ta, allocated>>
    BY <1>1, <1>2, AnswerHInv
  <1>3. CASE /\ sub_ta = Nil /\ sub_ta' = [ta EXCEPT !.state = "accepted"]
             /\ ta' = Nil /\ request' = Nil /\ rc' = Nil /\ allocated' = allocated
    <2>1. /\ sub_ta' \in Transactions /\ sub_ta' # Nil
          /\ Released(sub_ta') = Released(ta) /\ Released(ta) \in Nat
      BY <1>1, <1>3, TransactionsAreTas
    <2>2. allocated' = 0 + Released(sub_ta')
      BY <1>1, <1>3, <2>1 DEF HInv, FieldsFreedOnce
    <2>3. FieldsFreedOnce'
      BY <1>3, <2>1, <2>2 DEF FieldsFreedOnce, Released
    <2> QED BY <1>3, <2>1, <2>3 DEF HInv
  <1> QED BY <1>2, <1>3 DEF handle_subscribe, Fail

LEMMA UnsubscribeHInv ==
    ASSUME HInv, handle_unsubscribe
    PROVE  HInv'
  <1>1. /\ ta \in Transactions /\ ta # Nil /\ "failed" \in TaStates /\ "completed" \in TaStates
        /\ UNCHANGED <<request, rc>>
    BY DEF HInv, handle_unsubscribe, Ready, Handling, TaStates
  <1>2. CASE ta' = [ta EXCEPT !.state = "failed"] /\ UNCHANGED <<sub_ta, allocated>>
    BY <1>1, <1>2, AnswerHInv
  <1>3. CASE /\ sub_ta # Nil /\ sub_ta' = Nil /\ ta' = [ta EXCEPT !.state = "completed"]
             /\ allocated' = allocated - Released(sub_ta)
    <2>1. /\ ta' \in Transactions /\ ta' # Nil
          /\ Released(ta') = Released(ta) /\ Released(ta) \in Nat
      BY <1>1, <1>3, TransactionsAreTas
    <2>2. Released(sub_ta) \in Nat
      BY <1>3, TransactionsAreTas DEF HInv
    <2>3. allocated' = Released(ta') + 0
      BY <1>1, <1>3, <2>1, <2>2 DEF HInv, FieldsFreedOnce
    <2>4. FieldsFreedOnce'
      BY <1>3, <2>1, <2>3 DEF FieldsFreedOnce, Released
    <2> QED BY <1>1, <1>3, <2>1, <2>4 DEF HInv
  <1> QED BY <1>2, <1>3 DEF handle_unsubscribe, Fail

LEMMA TermHInv ==
    ASSUME HInv, term
    PROVE  HInv'
  <1>1. /\ ta = Nil /\ sub_ta' = Nil /\ UNCHANGED <<request, rc, ta>>
        /\ allocated' = allocated - (IF sub_ta = Nil THEN 0 ELSE Released(sub_ta))
    BY DEF term, Disconnected, ReleasedSub
  <1>2. sub_ta # Nil => Released(sub_ta) \in Nat
    BY TransactionsAreTas DEF HInv
  <1>3. allocated' = 0
    BY <1>1, <1>2 DEF HInv, FieldsFreedOnce
  <1>4. FieldsFreedOnce'
    BY <1>1, <1>3 DEF FieldsFreedOnce
  <1> QED BY <1>1, <1>4 DEF HInv

LEMMA RefusedHInv ==
    ASSUME HInv, handle_req_err
    PROVE  HInv'
  <1>1. /\ ta # Nil /\ request' = Nil /\ rc' = Nil /\ ta' = Nil /\ sub_ta' = Nil
        /\ allocated' = allocated - Released(ta) - (IF sub_ta = Nil THEN 0 ELSE Released(sub_ta))
    BY DEF handle_req_err, Disconnected, ReleasedSub
  <1>2. /\ Released(ta) \in Nat
        /\ sub_ta # Nil => Released(sub_ta) \in Nat
    BY <1>1, TransactionsAreTas DEF HInv
  <1>3. allocated' = 0
    BY <1>1, <1>2 DEF HInv, FieldsFreedOnce
  <1>4. FieldsFreedOnce'
    BY <1>1, <1>3 DEF FieldsFreedOnce
  <1> QED BY <1>1, <1>4 DEF HInv

LEMMA NextHInv == HInv /\ [ProtoTaNext]_taVars => HInv'
  <1> SUFFICES ASSUME HInv, [ProtoTaNext]_taVars PROVE HInv'
    OBVIOUS
  <1>q. ASSUME request' \in Messages \cup {Nil}, UNCHANGED <<rc, ta, sub_ta, allocated>>,
               rc = Nil \/ request' = request
        PROVE  HInv'
    BY <1>q DEF HInv, FieldsFreedOnce, Released
  <1>a. ASSUME ta # Nil, UNCHANGED <<request, rc, sub_ta, allocated>>,
               \/ ta' = [ta EXCEPT !.state = "completed"]
               \/ ta' = [ta EXCEPT !.state = "failed"]
        PROVE  HInv'
    BY <1>a, AnswerHInv DEF TaStates
  <1>1. CASE ClientRequest
    <2>1. request' \in Messages
      BY <1>1 DEF ClientRequest, Messages
    <2>2. rc = Nil /\ UNCHANGED <<rc, ta, sub_ta, allocated>>
      BY <1>1 DEF ClientRequest, HInv
    <2> QED BY <1>q, <2>1, <2>2
  <1>2. CASE proto_ta_req
    BY <1>2, ParseHInv
  <1>3. CASE proto_ta_destroy
    BY <1>3, DestroyHInv
  <1>4. CASE handle_hello
    BY <1>4, <1>a DEF handle_hello, Handling, Complete, Fail
  <1>5. CASE handle_no_hello
    BY <1>5, <1>a DEF handle_no_hello, Handling, Fail
  <1>6. CASE handle_publish
    BY <1>6, <1>a DEF handle_publish, Ready, Handling, Fail
  <1>7. CASE handle_unpublish
    BY <1>7, <1>a DEF handle_unpublish, Ready, Handling, Fail
  <1>8. CASE handle_subscribe
    BY <1>8, SubscribeHInv
  <1>9. CASE handle_unsubscribe
    BY <1>9, UnsubscribeHInv
  <1>10. CASE handle_services \/ handle_subscriptions \/ handle_clients \/ handle_ping
    BY <1>10, <1>a DEF handle_services, handle_subscriptions, handle_clients, handle_ping,
                       Ready, Handling, List, Complete, Fail
  <1>11. CASE term
    BY <1>11, TermHInv
  <1>12. CASE orphan_timeout_cb
    BY <1>12, <1>q DEF orphan_timeout_cb, HInv
  <1>13. CASE handle_req_err
    BY <1>13, RefusedHInv
  <1>14. CASE UNCHANGED taVars
    BY <1>14, <1>q DEF taVars, HInv
  <1> QED BY <1>1, <1>2, <1>3, <1>4, <1>5, <1>6, <1>7, <1>8, <1>9, <1>10, <1>11, <1>12, <1>13, <1>14
          DEF ProtoTaNext

\* No field value is leaked or freed twice, on any of the error paths of
\* proto_ta_req() and however long a subscription keeps its transaction.
THEOREM ValuesAreFreedOnce == ProtoTaSpec => []FieldsFreedOnce
  <1>1. HInv => FieldsFreedOnce
    BY DEF HInv
  <1> QED BY <1>1, InitHInv, NextHInv, PTL DEF ProtoTaSpec

-----------------------------------------------------------------------------
(* Requests are accepted if and only if they are well-formed.              *)

\* A field that is there is wrong if it is not of its type, and has a value
\* otherwise.
LEMMA FieldParsed ==
    ASSUME NEW msg \in Messages, NEW field, NEW opt \in BOOLEAN,
           field.type \in {"uint63", "str", "props"}
    PROVE  /\ field.name \in DOMAIN msg =>
                 /\ get_field(msg, field, opt) # Nil
                 /\ get_field(msg, field, opt) = Error <=> ~HasType(msg[field.name], field.type)
           /\ field.name \notin DOMAIN msg =>
                 get_field(msg, field, opt) = IF opt THEN Nil ELSE Error
  <1> DEFINE json == msg[field.name]
             ps == json_to_props(json)
  <1>1. CASE field.name \notin DOMAIN msg
    BY <1>1 DEF get_field, get_json
  <1>2. CASE field.name \in DOMAIN msg
    <2>0. get_json(msg, field.name) = json
      BY <1>2 DEF get_json
    <2>1. /\ json # Nil
          /\ json.type = "integer" => json.number \in Int
          /\ json.type = "string" => json.string \notin {Nil, Error}
          /\ HasType(json, "props") => ps \notin {Nil, Error}
      BY <1>2, MessagesAssumption
    <2>2. json.type = "object" /\ ~HasType(json, "props") => ps = Nil
      BY DEF HasType, json_to_props
    <2>3. HasType(json, "props") => json.type = "object"
      BY DEF HasType
    <2> HIDE DEF json, ps
    <2>4. CASE field.type = "uint63"
      <3>1. get_field(msg, field, opt) =
              IF json.type = "integer" THEN (IF json.number >= 0 THEN json.number ELSE Error) ELSE Error
        BY <2>0, <2>1, <2>4 DEF get_field
      <3>2. HasType(json, "uint63") <=> json.type = "integer" /\ json.number \in Nat
        BY DEF HasType
      <3> QED BY <1>2, <2>1, <2>4, <3>1, <3>2, NilAssumption DEF json
    <2>5. CASE field.type = "str"
      <3>1. get_field(msg, field, opt) = IF json.type = "string" THEN json.string ELSE Error
        BY <2>0, <2>1, <2>5 DEF get_field
      <3>2. HasType(json, "str") <=> json.type = "string"
        BY DEF HasType
      <3> QED BY <1>2, <2>1, <2>5, <3>1, <3>2, NilAssumption DEF json
    <2>6. CASE field.type = "props"
      <3>1. get_field(msg, field, opt) =
              IF json.type = "object" THEN (IF ps = Nil THEN Error ELSE ps) ELSE Error
        BY <2>0, <2>1, <2>6 DEF get_field, ps
      <3> QED BY <1>2, <2>1, <2>2, <2>3, <2>6, <3>1, NilAssumption DEF json
    <2> QED BY <2>4, <2>5, <2>6
  <1> QED BY <1>1, <1>2

\* All the fields that are there are of their types, and all that have to be
\* there are.
FieldsRight(msg, fields, opt) ==
    \A i \in DOMAIN fields :
        IF fields[i].name \in DOMAIN msg THEN HasType(msg[fields[i].name], fields[i].type) ELSE opt

\* get_fields() fails if a field is wrong, and otherwise counts the names it
\* has found.
LEMMA FieldsCounted ==
    ASSUME NEW msg \in Messages, NEW opt \in BOOLEAN,
           NEW fields \in Seq(ReqField), NamesApart(fields)
    PROVE  /\ get_fields(msg, fields, opt).num = Error <=> ~FieldsRight(msg, fields, opt)
           /\ FieldsRight(msg, fields, opt) =>
                 /\ IsFiniteSet(FieldNames(fields) \cap DOMAIN msg)
                 /\ get_fields(msg, fields, opt).num = Cardinality(FieldNames(fields) \cap DOMAIN msg)
  <1> DEFINE got == [i \in DOMAIN fields |-> get_field(msg, fields[i], opt)]
             wrong == {i \in DOMAIN fields : got[i] = Error}
             filled == [i \in DOMAIN fields |-> IF \E j \in wrong : j <= i THEN Nil ELSE got[i]]
             num == get_fields(msg, fields, opt).num
             there == {i \in DOMAIN fields : fields[i].name \in DOMAIN msg}
             names == FieldNames(fields) \cap DOMAIN msg
  <1>1. num = IF wrong = {} THEN NumValues(got) ELSE Error
    BY DEF get_fields
  <1>2. DOMAIN fields = 1..Len(fields) /\ Len(fields) \in Nat
        /\ \A i \in DOMAIN fields : fields[i].type \in {"uint63", "str", "props"}
    <2>1. \A i \in DOMAIN fields : fields[i] \in ReqField
      OBVIOUS
    <2>2. \A f \in ReqField : f.type \in {"uint63", "str", "props"}
      BY DEF ReqField
    <2>3. DOMAIN fields = 1..Len(fields) /\ Len(fields) \in Nat
      OBVIOUS
    <2> QED BY <2>1, <2>2, <2>3
  <1>3. ASSUME NEW i \in DOMAIN fields
        PROVE  /\ fields[i].name \in DOMAIN msg =>
                     /\ got[i] # Nil
                     /\ got[i] = Error <=> ~HasType(msg[fields[i].name], fields[i].type)
               /\ fields[i].name \notin DOMAIN msg => got[i] = IF opt THEN Nil ELSE Error
    <2>1. got[i] = get_field(msg, fields[i], opt)
      OBVIOUS
    <2> HIDE DEF got
    <2> QED BY <1>2, <2>1, FieldParsed
  <1>4. IsFiniteSet(DOMAIN fields) /\ DOMAIN got = DOMAIN fields
    BY <1>2, FS_Interval
  <1> HIDE DEF got, num
  <1>5. wrong = {} <=> FieldsRight(msg, fields, opt)
    <2>1. ASSUME NEW i \in DOMAIN fields
          PROVE  got[i] # Error <=>
                    IF fields[i].name \in DOMAIN msg
                    THEN HasType(msg[fields[i].name], fields[i].type) ELSE opt
      <3>1. CASE fields[i].name \in DOMAIN msg
        BY <1>3, <3>1
      <3>2. CASE fields[i].name \notin DOMAIN msg
        BY <1>3, <3>2, NilAssumption
      <3> QED BY <3>1, <3>2
    <2> QED BY <2>1 DEF FieldsRight
  <1>6. NumValues(got) \in Nat
    BY <1>4, Slots
  <1>7. ASSUME wrong = {} PROVE {i \in DOMAIN got : got[i] # Nil} = there
    <2>1. ASSUME NEW i \in DOMAIN fields PROVE got[i] # Nil <=> fields[i].name \in DOMAIN msg
      BY <1>3, <1>7, <2>1
    <2> QED BY <1>4, <2>1
  <1>8. IsFiniteSet(there)
    BY <1>4, FS_Subset
  <1>9. ExistsBijection(there, names)
    <2> DEFINE f == [i \in there |-> fields[i].name]
    <2>1. f \in [there -> names]
      BY DEF FieldNames
    <2>2. \A i, j \in there : f[i] = f[j] => i = j
      BY DEF NamesApart
    <2>3. \A n \in names : \E i \in there : f[i] = n
      BY DEF FieldNames
    <2> HIDE DEF f, there, names
    <2>4. f \in Bijection(there, names)
      BY <2>1, <2>2, <2>3, Fun_IsBij
    <2> QED BY <2>4, Fun_ExistsBij
  <1>10. IsFiniteSet(names) /\ Cardinality(names) = Cardinality(there)
    <2> HIDE DEF there, names
    <2> QED BY <1>8, <1>9, FS_Bijection
  <1>11. wrong = {} => num = Cardinality(names)
    <2> HIDE DEF there, names
    <2> QED BY <1>1, <1>7, <1>10 DEF NumValues
  <1>12. num = Error <=> wrong # {}
    BY <1>1, <1>6, NilAssumption
  <1> HIDE DEF wrong, names
  <1>13. /\ num = Error <=> ~FieldsRight(msg, fields, opt)
         /\ FieldsRight(msg, fields, opt) => IsFiniteSet(names) /\ num = Cardinality(names)
    BY <1>5, <1>10, <1>11, <1>12
  <1> QED BY <1>13 DEF num, names

\* A command has one type.
LEMMA CommandsApart == \A t, u \in proto_ta_types : t.cmd = u.cmd => t = u
  <1>1. /\ hello_ta.cmd = "hello" /\ publish_ta.cmd = "publish"
        /\ unpublish_ta.cmd = "unpublish" /\ subscribe_ta.cmd = "subscribe"
        /\ unsubscribe_ta.cmd = "unsubscribe" /\ ping_ta.cmd = "ping"
        /\ services_ta.cmd = "services" /\ subscriptions_ta.cmd = "subscriptions"
        /\ clients_ta.cmd = "clients"
    BY DEF Type, hello_ta, publish_ta, unpublish_ta, subscribe_ta, unsubscribe_ta, ping_ta,
           services_ta, subscriptions_ta, clients_ta
  <1> QED BY <1>1 DEF proto_ta_types

LEMMA MandatoryNames ==
    /\ IsFiniteSet(Mandatory) /\ Cardinality(Mandatory) = PROTO_NUM_MANDANTORY_FIELDS
    /\ \A fields \in Seq(ReqField) : FieldNames(fields) \cap Mandatory = {}
  <1>1. Mandatory = {"ta-cmd", "ta-id"} \cup {"msg-type"} /\ {"ta-cmd", "ta-id"} = {"ta-cmd"} \cup {"ta-id"}
    BY DEF Mandatory
  <1>2. IsFiniteSet({"ta-cmd", "ta-id"}) /\ Cardinality({"ta-cmd", "ta-id"}) = 2
    <2>1. IsFiniteSet({"ta-cmd"}) /\ Cardinality({"ta-cmd"}) = 1
      BY FS_Singleton
    <2>2. "ta-id" \notin {"ta-cmd"}
      OBVIOUS
    <2> QED BY <1>1, <2>1, <2>2, FS_AddElement
  <1>3. IsFiniteSet(Mandatory) /\ Cardinality(Mandatory) = 3
    <2>1. "msg-type" \notin {"ta-cmd", "ta-id"}
      OBVIOUS
    <2> QED BY <1>1, <1>2, <2>1, FS_AddElement
  <1>4. ASSUME NEW fields \in Seq(ReqField) PROVE FieldNames(fields) \cap Mandatory = {}
    <2>1. \A i \in DOMAIN fields : fields[i] \in ReqField
      OBVIOUS
    <2>2. \A f \in ReqField : f.name \in ReqNames
      BY DEF ReqField
    <2>3. ReqNames \cap Mandatory = {}
      BY DEF ReqNames, Mandatory
    <2> QED BY <2>1, <2>2, <2>3 DEF FieldNames
  <1> QED BY <1>3, <1>4 DEF PROTO_NUM_MANDANTORY_FIELDS

\* The fields of a message, told apart into mandatory and optional ones.
LEMMA FieldsOfBoth ==
    ASSUME NEW msg, NEW f \in Seq(ReqField), NEW o \in Seq(ReqField)
    PROVE  HasFields(msg, f, o) <=>
              /\ FieldsRight(msg, f, FALSE) /\ FieldsRight(msg, o, TRUE)
              /\ DOMAIN msg \subseteq Mandatory \cup FieldNames(f) \cup FieldNames(o)
  <1> DEFINE n == Len(f)
             m == Len(o)
             all == f \o o
  <1>1. /\ n \in Nat /\ m \in Nat /\ DOMAIN f = 1..n /\ DOMAIN o = 1..m
        /\ DOMAIN all = 1..(n + m)
        /\ \A i \in 1..n : all[i] = f[i]
        /\ \A i \in 1..m : all[n + i] = o[i]
    OBVIOUS
  <1> HIDE DEF n, m, all
  <1>2. ASSUME NEW i \in 1..(n + m)
        PROVE  \/ i \in 1..n /\ all[i] = f[i]
               \/ i - n \in 1..m /\ all[i] = o[i - n]
    <2>1. CASE i <= n
      BY <1>1, <2>1
    <2>2. CASE i > n
      <3>1. i - n \in 1..m /\ n + (i - n) = i
        BY <1>1, <2>2
      <3> QED BY <1>1, <3>1
    <2> QED BY <1>1, <2>1, <2>2
  <1>3. /\ \A i \in 1..n : i \in 1..(n + m)
        /\ \A i \in 1..m : n + i \in 1..(n + m)
    BY <1>1
  <1>4. FieldNames(all) = FieldNames(f) \cup FieldNames(o)
    <2>1. ASSUME NEW x \in FieldNames(all) PROVE x \in FieldNames(f) \cup FieldNames(o)
      <3>1. PICK i \in 1..(n + m) : x = all[i].name
        BY <1>1 DEF FieldNames
      <3> QED BY <1>1, <1>2, <3>1 DEF FieldNames
    <2>2. ASSUME NEW x \in FieldNames(f) PROVE x \in FieldNames(all)
      BY <1>1, <1>3 DEF FieldNames
    <2>3. ASSUME NEW x \in FieldNames(o) PROVE x \in FieldNames(all)
      <3>1. PICK i \in 1..m : x = o[i].name
        BY <1>1 DEF FieldNames
      <3>2. n + i \in DOMAIN all /\ all[n + i] = o[i]
        BY <1>1, <1>3
      <3> QED BY <3>1, <3>2 DEF FieldNames
    <2> QED BY <2>1, <2>2, <2>3
  <1> DEFINE Right(x) == x.name \in DOMAIN msg => HasType(msg[x.name], x.type)
  <1>5. (\A i \in DOMAIN all : Right(all[i]))
          <=> (\A i \in DOMAIN f : Right(f[i])) /\ (\A i \in DOMAIN o : Right(o[i]))
    <2> HIDE DEF Right
    <2>1. ASSUME \A i \in DOMAIN all : Right(all[i]), NEW i \in DOMAIN f PROVE Right(f[i])
      BY <1>1, <1>3, <2>1
    <2>2. ASSUME \A i \in DOMAIN all : Right(all[i]), NEW i \in DOMAIN o PROVE Right(o[i])
      BY <1>1, <1>3, <2>2
    <2>3. ASSUME \A i \in DOMAIN f : Right(f[i]), \A i \in DOMAIN o : Right(o[i]),
                 NEW i \in DOMAIN all
          PROVE  Right(all[i])
      BY <1>1, <1>2, <2>3
    <2> QED BY <2>1, <2>2, <2>3
  <1>6. FieldNames(f) \subseteq DOMAIN msg <=> \A i \in DOMAIN f : f[i].name \in DOMAIN msg
    BY DEF FieldNames
  <1>7. HasFields(msg, f, o) <=> /\ FieldNames(f) \subseteq DOMAIN msg
                                 /\ DOMAIN msg \subseteq Mandatory \cup FieldNames(all)
                                 /\ \A i \in DOMAIN all : Right(all[i])
    BY DEF HasFields, all
  <1>8. FieldsRight(msg, f, FALSE) <=> \A i \in DOMAIN f : f[i].name \in DOMAIN msg /\ Right(f[i])
    BY DEF FieldsRight
  <1>9. FieldsRight(msg, o, TRUE) <=> \A i \in DOMAIN o : Right(o[i])
    BY DEF FieldsRight
  <1> HIDE DEF Right
  <1> QED BY <1>4, <1>5, <1>6, <1>7, <1>8, <1>9

\* Comparing the numbers of fields tells whether there is one too many.
LEMMA CountingFinds ==
    ASSUME NEW D, IsFiniteSet(D), Mandatory \subseteq D,
           NEW F, NEW O, F \cap O = {}, F \cap Mandatory = {}, O \cap Mandatory = {},
           IsFiniteSet(F \cap D), IsFiniteSet(O \cap D)
    PROVE  Cardinality(D) > PROTO_NUM_MANDANTORY_FIELDS + Cardinality(F \cap D) + Cardinality(O \cap D)
              <=> ~(D \subseteq Mandatory \cup F \cup O)
  <1> DEFINE FD == F \cap D
             OD == O \cap D
             MF == Mandatory \cup FD
             K == MF \cup OD
  <1>1. /\ IsFiniteSet(MF)
        /\ Cardinality(MF) = PROTO_NUM_MANDANTORY_FIELDS + Cardinality(FD)
    <2>1. Mandatory \cap FD = {} /\ IsFiniteSet(FD)
      OBVIOUS
    <2>m. IsFiniteSet(Mandatory) /\ Cardinality(Mandatory) = 3
      BY MandatoryNames DEF PROTO_NUM_MANDANTORY_FIELDS
    <2> HIDE DEF FD
    <2>2. /\ IsFiniteSet(MF)
          /\ Cardinality(MF) = Cardinality(Mandatory) + Cardinality(FD) - Cardinality(Mandatory \cap FD)
      BY <2>1, <2>m, FS_Union
    <2>3. Cardinality(Mandatory \cap FD) = 0 /\ Cardinality(FD) \in Nat
      BY <2>1, FS_EmptySet, FS_CardinalityType
    <2> QED BY <2>2, <2>3, <2>m DEF PROTO_NUM_MANDANTORY_FIELDS
  <1>2. /\ IsFiniteSet(K)
        /\ Cardinality(K) = PROTO_NUM_MANDANTORY_FIELDS + Cardinality(FD) + Cardinality(OD)
    <2>1. MF \cap OD = {} /\ IsFiniteSet(OD) /\ IsFiniteSet(FD)
      OBVIOUS
    <2> HIDE DEF MF, OD, FD
    <2>2. /\ IsFiniteSet(K)
          /\ Cardinality(K) = Cardinality(MF) + Cardinality(OD) - Cardinality(MF \cap OD)
      BY <1>1, <2>1, FS_Union
    <2>3. Cardinality(MF \cap OD) = 0 /\ Cardinality(OD) \in Nat /\ Cardinality(FD) \in Nat
      BY <2>1, FS_EmptySet, FS_CardinalityType
    <2> QED BY <1>1, <2>2, <2>3 DEF PROTO_NUM_MANDANTORY_FIELDS
  <1>3. K \subseteq D /\ (D \subseteq Mandatory \cup F \cup O <=> D = K)
    OBVIOUS
  <1> HIDE DEF K
  <1>4. Cardinality(K) <= Cardinality(D) /\ (Cardinality(D) = Cardinality(K) => D = K)
    BY <1>3, FS_Subset
  <1>5. Cardinality(K) \in Nat /\ Cardinality(D) \in Nat
    BY <1>2, FS_CardinalityType
  <1>6. Cardinality(D) > Cardinality(K) <=> D # K
    BY <1>4, <1>5
  <1> QED BY <1>2, <1>3, <1>6

\* What proto_ta_req() makes of a message that names a command and is a request.
LEMMA ParseAccepts ==
    ASSUME NEW msg \in Messages
    PROVE  parse_req(msg).rc = 0 <=> RequestWellFormed(msg)
  <1> DEFINE rc0 == parse_req(msg).rc
             ta_id == get_field(msg, Uint63("ta-id"), FALSE)
             cmd == get_field(msg, Str("ta-cmd"), FALSE)
             msg_type == get_field(msg, Str("msg-type"), FALSE)
             type == lookup_type(cmd)
             req == get_fields(msg, type.req_fields, FALSE)
             opt == get_fields(msg, type.opt_req_fields, TRUE)
             many == too_many_fields(msg, PROTO_NUM_MANDANTORY_FIELDS + req.num + opt.num)
             D == DOMAIN msg
  <1>1. rc0 = 0 <=> /\ ta_id # Error /\ cmd # Error
                    /\ msg_type # Error /\ msg_type = "request" /\ type # Nil
                    /\ req.num # Error /\ opt.num # Error /\ ~many
    <2>1. rc0 = 0 <=> Accepts(msg)
      BY ParseHolds
    <2> HIDE DEF rc0
    <2> QED BY <2>1 DEF Accepts
  <1>2. /\ Uint63("ta-id").name = "ta-id" /\ Uint63("ta-id").type = "uint63"
        /\ Str("ta-cmd").name = "ta-cmd" /\ Str("ta-cmd").type = "str"
        /\ Str("msg-type").name = "msg-type" /\ Str("msg-type").type = "str"
    BY DEF Uint63, Str, Field
  <1>3. ta_id # Error <=> "ta-id" \in D /\ HasType(msg["ta-id"], "uint63")
    BY <1>2, FieldParsed
  <1>4. /\ cmd # Error <=> "ta-cmd" \in D /\ HasType(msg["ta-cmd"], "str")
        /\ msg_type # Error <=> "msg-type" \in D /\ HasType(msg["msg-type"], "str")
    BY <1>2, FieldParsed
  <1>5. \A n \in D : msg[n].type = "string" => msg[n] = json_string(msg[n].string)
    BY MessagesAssumption DEF IsScalar
  <1>6. \A n \in D : HasType(msg[n], "str") <=> msg[n].type = "string"
    BY DEF HasType
  <1>7. \A x : json_string(x).type = "string" /\ json_string(x).string = x
    BY DEF json_string
  <1>8. /\ "ta-cmd" \in D /\ msg["ta-cmd"].type = "string" => cmd = msg["ta-cmd"].string
        /\ "msg-type" \in D /\ msg["msg-type"].type = "string" => msg_type = msg["msg-type"].string
    <2>1. \A n \in D : msg[n] # Nil
      BY MessagesAssumption
    <2> QED BY <1>2, <2>1 DEF get_field, get_json
  <1> HIDE DEF rc0, ta_id, cmd, msg_type, type, req, opt, many
  <1>9. msg_type # Error /\ msg_type = "request" <=>
            "msg-type" \in D /\ msg["msg-type"] = json_string("request")
    BY <1>4, <1>5, <1>6, <1>7, <1>8
  <1>10. \A x : cmd # Error /\ cmd = x <=> "ta-cmd" \in D /\ msg["ta-cmd"] = json_string(x)
    <2>1. cmd # Error => "ta-cmd" \in D /\ msg["ta-cmd"] = json_string(cmd)
      BY <1>4, <1>5, <1>6, <1>8
    <2>2. ASSUME NEW x, "ta-cmd" \in D, msg["ta-cmd"] = json_string(x) PROVE cmd # Error /\ cmd = x
      BY <1>4, <1>6, <1>7, <1>8, <2>2
    <2> QED BY <2>1, <2>2
  <1>11. CASE ~("ta-id" \in D /\ HasType(msg["ta-id"], "uint63") /\ cmd # Error
                 /\ "msg-type" \in D /\ msg["msg-type"] = json_string("request"))
    <2>1. rc0 # 0
      BY <1>1, <1>3, <1>9, <1>11
    <2>2. ~RequestWellFormed(msg)
      BY <1>10, <1>11 DEF RequestWellFormed, Mandatory
    <2> QED BY <2>1, <2>2 DEF rc0
  <1>12. CASE /\ "ta-id" \in D /\ HasType(msg["ta-id"], "uint63") /\ cmd # Error
              /\ "msg-type" \in D /\ msg["msg-type"] = json_string("request")
    <2>1. Mandatory \subseteq D
      BY <1>10, <1>12 DEF Mandatory
    <2>2. rc0 = 0 <=> type # Nil /\ req.num # Error /\ opt.num # Error /\ ~many
      BY <1>1, <1>3, <1>9, <1>12
    <2>3. RequestWellFormed(msg) <=>
              \E t \in proto_ta_types : t.cmd = cmd /\ HasFields(msg, t.req_fields, t.opt_req_fields)
      BY <1>10, <1>12, <2>1 DEF RequestWellFormed
    <2>4. CASE type = Nil
      <3>1. ~\E t \in proto_ta_types : t.cmd = cmd
        BY <2>4, LookupFinds, NilAssumption DEF type
      <3> QED BY <2>2, <2>3, <2>4, <3>1 DEF rc0
    <2>5. CASE type # Nil
      <3>1. type \in proto_ta_types /\ type.cmd = cmd
        BY <2>5, LookupFinds DEF type, lookup_type
      <3>2. RequestWellFormed(msg) <=> HasFields(msg, type.req_fields, type.opt_req_fields)
        BY <2>3, <3>1, CommandsApart
      <3> DEFINE f == type.req_fields
                 o == type.opt_req_fields
      <3>3. /\ f \in Seq(ReqField) /\ NamesApart(f) /\ o \in Seq(ReqField) /\ NamesApart(o)
            /\ FieldNames(f) \cap FieldNames(o) = {}
        BY <3>1, RequestFields DEF FieldLists
      <3>4. /\ req = get_fields(msg, f, FALSE) /\ opt = get_fields(msg, o, TRUE)
            /\ many <=> Cardinality(D) > PROTO_NUM_MANDANTORY_FIELDS + req.num + opt.num
        BY DEF req, opt, many, too_many_fields
      <3> HIDE DEF f, o, D
      <3>5. /\ req.num = Error <=> ~FieldsRight(msg, f, FALSE)
            /\ FieldsRight(msg, f, FALSE) => /\ IsFiniteSet(FieldNames(f) \cap D)
                                             /\ req.num = Cardinality(FieldNames(f) \cap D)
        BY <3>3, <3>4, FieldsCounted DEF D
      <3>6. /\ opt.num = Error <=> ~FieldsRight(msg, o, TRUE)
            /\ FieldsRight(msg, o, TRUE) => /\ IsFiniteSet(FieldNames(o) \cap D)
                                            /\ opt.num = Cardinality(FieldNames(o) \cap D)
        BY <3>3, <3>4, FieldsCounted DEF D
      <3>7. HasFields(msg, f, o) <=>
              /\ FieldsRight(msg, f, FALSE) /\ FieldsRight(msg, o, TRUE)
              /\ D \subseteq Mandatory \cup FieldNames(f) \cup FieldNames(o)
        BY <3>3, FieldsOfBoth DEF D
      <3>8. CASE ~(FieldsRight(msg, f, FALSE) /\ FieldsRight(msg, o, TRUE))
        BY <2>2, <3>2, <3>5, <3>6, <3>7, <3>8 DEF rc0, f, o
      <3>9. CASE FieldsRight(msg, f, FALSE) /\ FieldsRight(msg, o, TRUE)
        <4>1. IsFiniteSet(D)
          BY MessagesAssumption DEF D
        <4>2. /\ FieldNames(f) \cap Mandatory = {} /\ FieldNames(o) \cap Mandatory = {}
          BY <3>3, MandatoryNames
        <4>3. many <=> ~(D \subseteq Mandatory \cup FieldNames(f) \cup FieldNames(o))
          BY <2>1, <3>3, <3>4, <3>5, <3>6, <3>9, <4>1, <4>2, CountingFinds
        <4> QED BY <2>2, <2>5, <3>2, <3>5, <3>6, <3>7, <3>9, <4>3 DEF rc0, f, o
      <3> QED BY <3>8, <3>9
    <2> QED BY <2>4, <2>5
  <1> QED BY <1>11, <1>12

\* A request is accepted exactly when it has all the fields of its command, no
\* other than the optional ones, and each of its type, whatever is in it.
THEOREM WellFormedAreAccepted == ProtoTaSpec => []AcceptedIfWellFormed
  <1>1. HInv => AcceptedIfWellFormed
    BY ParseAccepts DEF HInv, AcceptedIfWellFormed
  <1> QED BY <1>1, InitHInv, NextHInv, PTL DEF ProtoTaSpec

-----------------------------------------------------------------------------
(* Responses are put together as their fields want.                        *)

RespNames == {"protocol-version", "match-type", "service-id", "generation", "service-props",
              "ttl", "client-id", "orphan-since", "subscription-id", "filter",
              "client-address", "time", "fail-reason"}

RespField == [name: RespNames, type: {"uint63", "number", "str", "props", "match_type"}]

\* An argument of the C type of the field.
ArgFits(arg, type) ==
    \/ type = "uint63" /\ \E n \in Nat : arg = Int64(n)
    \/ type = "number" /\ \E x : arg = <<"double", x>>
    \/ type = "str" /\ \E x : arg = <<"str", x>>
    \/ type = "props" /\ \E ps : IsSeq(ps) /\ arg = <<"props", ps>>
    \/ type = "match_type" /\ \E m \in DOMAIN MatchTypes : arg = <<"match_type", m>>

LEMMA PropsAreObjects ==
    ASSUME NEW ps, IsSeq(ps)
    PROVE  HasType(props_to_json(ps), "props")
  <1> DEFINE S == {ps[i].name : i \in 1..Len(ps)}
             V == {json_value(ps[i].value) : i \in 1..Len(ps)}
             json == props_to_json(ps)
  <1>1. PICK ms \in Seq(Member(S, V)) : json = json_object(ms)
    BY PropsToJson DEF IsObjectOf
  <1>2. json.type = "object" /\ json.elems = ms
    BY <1>1, JsonFields
  <1>3. \A v \in V : v.type \in {"integer", "string"}
    BY DEF json_value, json_integer, json_string
  <1> HIDE DEF S, V, json
  <1>4. ASSUME NEW i \in DOMAIN ms
        PROVE  /\ ms[i].value.type = "array"
               /\ \A v \in Range(ms[i].value.elems) : v.type \in {"integer", "string"}
    <2>1. ms[i] \in Member(S, V)
      OBVIOUS
    <2>2. ms[i].value.type = "array" /\ ms[i].value.elems \in Seq(V)
      BY <2>1, MemberShape
    <2>3. Range(ms[i].value.elems) \subseteq V
      BY <2>2 DEF Range
    <2> QED BY <1>3, <2>2, <2>3
  <1> QED BY <1>2, <1>4 DEF HasType, json

LEMMA FieldSet ==
    ASSUME NEW field, NEW arg, ArgFits(arg, field.type)
    PROVE  HasType(set_field(field, arg), field.type) /\ arg # Null
  <1>1. CASE field.type = "uint63"
    <2>1. PICK n \in Nat : arg = Int64(n)
      BY <1>1 DEF ArgFits
    <2>2. set_field(field, arg) = json_integer(n)
      BY <1>1, <2>1 DEF set_field, Int64
    <2> QED BY <1>1, <2>1, <2>2 DEF HasType, json_integer, Int64, Null
  <1>2. CASE field.type = "number"
    <2>1. PICK x : arg = <<"double", x>>
      BY <1>2 DEF ArgFits
    <2>2. set_field(field, arg) = json_real(x)
      BY <1>2, <2>1 DEF set_field
    <2> QED BY <1>2, <2>1, <2>2 DEF HasType, json_real, Null
  <1>3. CASE field.type = "str"
    <2>1. PICK x : arg = <<"str", x>>
      BY <1>3 DEF ArgFits
    <2>2. set_field(field, arg) = json_string(x)
      BY <1>3, <2>1 DEF set_field
    <2> QED BY <1>3, <2>1, <2>2 DEF HasType, json_string, Null
  <1>4. CASE field.type = "props"
    <2>1. PICK ps : IsSeq(ps) /\ arg = <<"props", ps>>
      BY <1>4 DEF ArgFits
    <2>2. set_field(field, arg) = props_to_json(ps)
      BY <1>4, <2>1 DEF set_field
    <2> QED BY <1>4, <2>1, <2>2, PropsAreObjects DEF Null
  <1>5. CASE field.type = "match_type"
    <2>1. PICK m \in DOMAIN MatchTypes : arg = <<"match_type", m>>
      BY <1>5 DEF ArgFits
    <2>2. set_field(field, arg) = json_string(MatchTypes[m])
      BY <1>5, <2>1 DEF set_field
    <2> QED BY <1>5, <2>1, <2>2 DEF HasType, json_string, Null
  <1> QED BY <1>1, <1>2, <1>3, <1>4, <1>5 DEF ArgFits

Kinds == {"accept", "notify", "complete", "fail"}

\* The arguments, as many as there are fields, are of the fields' types; an
\* optional one may be NULL.
ArgsFit(f, o, args) ==
    /\ Len(args) >= Len(f) + Len(o)
    /\ \A i \in 1..Len(f) : ArgFits(args[i], f[i].type)
    /\ \A i \in 1..Len(o) : args[Len(f) + i] = Null \/ ArgFits(args[Len(f) + i], o[i].type)

RespLists(f, o) ==
    /\ f \in Seq(RespField) /\ NamesApart(f)
    /\ o \in Seq(RespField) /\ NamesApart(o)
    /\ FieldNames(f) \cap FieldNames(o) = {}

\* A response with those fields has the arguments in them.
HasArgs(msg, f, o, args) ==
    /\ DOMAIN msg \subseteq Mandatory \cup FieldNames(f) \cup FieldNames(o)
    /\ \A i \in 1..Len(f) : msg[f[i].name] = set_field(f[i], args[i])
    /\ \A i \in 1..Len(o) :
          /\ o[i].name \in DOMAIN msg <=> args[Len(f) + i] # Null
          /\ o[i].name \in DOMAIN msg => msg[o[i].name] = set_field(o[i], args[Len(f) + i])

LEMMA ResponseFits ==
    ASSUME NEW t, t.type \in proto_ta_types, NEW kind \in Kinds, NEW args, Len(args) \in Nat,
           RespLists(fields_of(t.type, kind), opt_fields_of(t.type, kind)),
           ArgsFit(fields_of(t.type, kind), opt_fields_of(t.type, kind), args)
    PROVE  LET msg == produce_response(t, kind, args)
           IN  /\ ResponseWellFormed(msg)
               /\ HasArgs(msg, fields_of(t.type, kind), opt_fields_of(t.type, kind), args)
  <1> DEFINE f == fields_of(t.type, kind)
             o == opt_fields_of(t.type, kind)
             all == f \o o
             n == Len(f)
             m == Len(o)
             arg(i) == IF i <= Len(args) THEN args[i] ELSE Missing
             set == {i \in DOMAIN all : i <= Len(f) \/ arg(i) # Null}
             at(x) == CHOOSE i \in set : all[i].name = x
             value(x) == CASE x = "ta-cmd" -> json_string(t.type.cmd)
                           [] x = "ta-id" -> json_integer(t.ta_id)
                           [] x = "msg-type" -> json_string(kind)
                           [] OTHER -> set_field(all[at(x)], arg(at(x)))
             names == Mandatory \cup {all[i].name : i \in set}
             msg == produce_response(t, kind, args)
  <1>1. msg = [x \in names |-> value(x)]
    BY DEF produce_response
  <1>2. /\ f \in Seq(RespField) /\ o \in Seq(RespField) /\ n \in Nat /\ m \in Nat
        /\ DOMAIN f = 1..n /\ DOMAIN o = 1..m
    BY DEF RespLists
  <1>3. /\ DOMAIN all = 1..(n + m)
        /\ \A i \in 1..n : all[i] = f[i]
        /\ \A i \in 1..m : all[n + i] = o[i]
    <2> HIDE DEF f, o
    <2> QED BY <1>2
  <1>d. NamesApart(f) /\ NamesApart(o) /\ FieldNames(f) \cap FieldNames(o) = {}
    BY DEF RespLists
  <1>a. /\ Len(args) >= n + m
        /\ \A i \in 1..n : ArgFits(args[i], f[i].type)
        /\ \A i \in 1..m : args[n + i] = Null \/ ArgFits(args[n + i], o[i].type)
    BY DEF ArgsFit
  <1> HIDE DEF f, o, n, m, all, msg
  <1>4. ASSUME NEW i \in 1..(n + m)
        PROVE  \/ i \in 1..n /\ all[i] = f[i]
               \/ i - n \in 1..m /\ all[i] = o[i - n] /\ n + (i - n) = i /\ i > n
    <2>1. CASE i <= n
      BY <1>2, <1>3, <2>1
    <2>2. CASE i > n
      <3>1. i - n \in 1..m /\ n + (i - n) = i
        BY <1>2, <2>2
      <3> QED BY <1>3, <2>2, <3>1
    <2> QED BY <1>2, <2>1, <2>2
  <1>5. \A i \in 1..(n + m) : arg(i) = args[i]
    BY <1>2, <1>a
  <1>6. ASSUME NEW i \in set PROVE ArgFits(arg(i), all[i].type)
    <2>1. i \in 1..(n + m) /\ (i <= n \/ arg(i) # Null)
      BY <1>3 DEF n
    <2>2. arg(i) = args[i]
      BY <1>5, <2>1
    <2> HIDE DEF arg, set
    <2>3. CASE i \in 1..n /\ all[i] = f[i]
      BY <1>a, <2>2, <2>3
    <2>4. CASE i - n \in 1..m /\ all[i] = o[i - n] /\ n + (i - n) = i /\ i > n
      <3>1. arg(i) # Null
        BY <1>2, <2>1, <2>4
      <3> QED BY <1>a, <2>2, <2>4, <3>1
    <2> QED BY <1>4, <2>1, <2>3, <2>4
  <1>7. \A i \in 1..(n + m) : all[i].name \in RespNames
    <2>1. \A x \in RespField : x.name \in RespNames
      BY DEF RespField
    <2>2. (\A i \in 1..n : f[i] \in RespField) /\ (\A i \in 1..m : o[i] \in RespField)
      BY <1>2
    <2> QED BY <1>4, <2>1, <2>2
  <1>8. RespNames \cap Mandatory = {}
    BY DEF RespNames, Mandatory
  <1>9. ASSUME NEW i \in 1..(n + m), NEW j \in 1..(n + m), all[i].name = all[j].name
        PROVE  i = j
    <2>1. \A k \in 1..n, l \in 1..m : f[k].name # o[l].name
      BY <1>2, <1>d DEF FieldNames
    <2>2. CASE i \in 1..n /\ all[i] = f[i]
      BY <1>2, <1>4, <1>9, <1>d, <2>1, <2>2 DEF NamesApart
    <2>3. CASE i - n \in 1..m /\ all[i] = o[i - n] /\ n + (i - n) = i
      <3>1. CASE j \in 1..n /\ all[j] = f[j]
        BY <1>9, <2>1, <2>3, <3>1
      <3>2. CASE j - n \in 1..m /\ all[j] = o[j - n] /\ n + (j - n) = j
        <4>1. i - n = j - n
          BY <1>2, <1>9, <1>d, <2>3, <3>2 DEF NamesApart
        <4> QED BY <1>2, <4>1
      <3> QED BY <1>4, <3>1, <3>2
    <2> QED BY <1>4, <2>2, <2>3
  <1>10. ASSUME NEW i \in 1..(n + m), all[i].name \in DOMAIN msg
         PROVE  /\ i \in set /\ HasType(msg[all[i].name], all[i].type)
                /\ msg[all[i].name] = set_field(all[i], args[i])
    <2> DEFINE x == all[i].name
    <2>1. x \in names /\ x \notin Mandatory
      BY <1>1, <1>7, <1>8, <1>10
    <2>2. PICK j \in set : all[j].name = x
      BY <2>1
    <2>3. set \subseteq 1..(n + m)
      BY <1>3
    <2>4. at(x) \in set /\ all[at(x)].name = x
      BY <2>2
    <2> HIDE DEF set, at
    <2>5. at(x) = i
      BY <1>9, <2>3, <2>4
    <2>6. msg[x] = set_field(all[i], arg(i))
      BY <1>1, <2>1, <2>5 DEF Mandatory
    <2>7. ArgFits(arg(i), all[i].type)
      BY <1>6, <2>4, <2>5
    <2>8. arg(i) = args[i]
      BY <1>5
    <2> HIDE DEF arg
    <2> QED BY <2>4, <2>5, <2>6, <2>7, <2>8, FieldSet
  <1>11. /\ "ta-cmd" \in names /\ "msg-type" \in names
         /\ msg["ta-cmd"] = json_string(t.type.cmd) /\ msg["msg-type"] = json_string(kind)
    BY <1>1 DEF Mandatory
  <1>12. lookup_type(msg["ta-cmd"].string) = t.type /\ msg["msg-type"].string = kind
    <2>1. msg["ta-cmd"].string = t.type.cmd /\ msg["msg-type"].string = kind
      BY <1>11 DEF json_string
    <2> QED BY <2>1, LookupFinds, CommandsApart
  <1>13. FieldNames(f) \subseteq DOMAIN msg
    <2>1. \A i \in 1..n : i \in set /\ all[i] = f[i]
      BY <1>2, <1>3 DEF n
    <2> QED BY <1>1, <1>2, <2>1 DEF FieldNames
  <1>14. DOMAIN msg = names /\ names \subseteq Mandatory \cup FieldNames(all)
    BY <1>1 DEF FieldNames
  <1>15. HasFields(msg, f, o)
    BY <1>3, <1>10, <1>13, <1>14 DEF HasFields, all
  <1>16. Mandatory \subseteq DOMAIN msg
    BY <1>14
  <1>17. ResponseWellFormed(msg)
    BY <1>12, <1>15, <1>16 DEF ResponseWellFormed, f, o
  <1>18. \A i \in 1..n : msg[f[i].name] = set_field(f[i], args[i])
    <2> SUFFICES ASSUME NEW i \in 1..n PROVE msg[f[i].name] = set_field(f[i], args[i])
      OBVIOUS
    <2>1. i \in 1..(n + m) /\ all[i] = f[i]
      BY <1>2, <1>3
    <2>2. f[i].name \in DOMAIN msg
      BY <1>2, <1>13 DEF FieldNames
    <2> QED BY <1>10, <2>1, <2>2
  <1>19. \A i \in 1..m : /\ o[i].name \in DOMAIN msg <=> args[n + i] # Null
                         /\ o[i].name \in DOMAIN msg => msg[o[i].name] = set_field(o[i], args[n + i])
    <2> SUFFICES ASSUME NEW i \in 1..m
                 PROVE  /\ o[i].name \in DOMAIN msg <=> args[n + i] # Null
                        /\ o[i].name \in DOMAIN msg => msg[o[i].name] = set_field(o[i], args[n + i])
      OBVIOUS
    <2> DEFINE j == n + i
    <2>1. j \in 1..(n + m) /\ all[j] = o[i] /\ ~(j <= n)
      BY <1>2, <1>3
    <2> HIDE DEF j
    <2>2. j \in set <=> args[j] # Null
      BY <1>3, <1>5, <2>1 DEF n
    <2>3. ASSUME j \in set PROVE o[i].name \in DOMAIN msg
      BY <1>14, <2>1, <2>3
    <2>4. ASSUME o[i].name \in DOMAIN msg PROVE j \in set /\ msg[o[i].name] = set_field(o[i], args[j])
      BY <1>10, <2>1, <2>4
    <2> QED BY <2>2, <2>3, <2>4 DEF j
  <1>20. FieldNames(all) \subseteq FieldNames(f) \cup FieldNames(o)
    <2> SUFFICES ASSUME NEW i \in 1..(n + m) PROVE all[i].name \in FieldNames(f) \cup FieldNames(o)
      BY <1>3 DEF FieldNames
    <2> QED BY <1>2, <1>4 DEF FieldNames
  <1>21. DOMAIN msg \subseteq Mandatory \cup FieldNames(f) \cup FieldNames(o)
    BY <1>14, <1>20
  <1>22. HasArgs(msg, f, o, args)
    BY <1>18, <1>19, <1>21 DEF HasArgs, n, m
  <1> QED BY <1>17, <1>22 DEF f, o, msg

\* The same for given lists of fields.
LEMMA FieldsSet ==
    ASSUME NEW t, t.type \in proto_ta_types, NEW kind \in Kinds, NEW args, Len(args) \in Nat,
           NEW f, NEW o, fields_of(t.type, kind) = f, opt_fields_of(t.type, kind) = o,
           RespLists(f, o), ArgsFit(f, o, args), NEW msg, msg = produce_response(t, kind, args)
    PROVE  ResponseWellFormed(msg) /\ HasArgs(msg, f, o, args)
  BY ResponseFits

LEMMA RespFieldOf ==
    /\ \A n \in RespNames, type \in {"uint63", "number", "str", "props", "match_type"} :
          Field(n, type) \in RespField
    /\ \A n, type : Field(n, type).name = n /\ Field(n, type).type = type
  BY DEF Field, RespField

LEMMA NoRespFields ==
    /\ RespLists(<<>>, <<>>) /\ Len(<<>>) = 0
    /\ \A a \in RespField : RespLists(<<a>>, <<>>) /\ RespLists(<<>>, <<a>>)
  BY DEF RespLists, NamesApart, FieldNames

\* The fields of responses, but for notifications.
LEMMA ResponseFields ==
    \A type \in proto_ta_types :
        /\ fields_of(type, "accept") = <<>> /\ opt_fields_of(type, "accept") = <<>>
        /\ fields_of(type, "fail") = <<>>
        /\ opt_fields_of(type, "fail") \in {<<>>, <<Str("fail-reason")>>}
        /\ fields_of(type, "complete") =
              IF type = hello_ta THEN <<Uint63("protocol-version")>> ELSE <<>>
        /\ opt_fields_of(type, "complete") = <<>>
  <1> SUFFICES ASSUME NEW type \in proto_ta_types
               PROVE  /\ fields_of(type, "accept") = <<>> /\ opt_fields_of(type, "accept") = <<>>
                      /\ fields_of(type, "fail") = <<>>
                      /\ opt_fields_of(type, "fail") \in {<<>>, <<Str("fail-reason")>>}
                      /\ fields_of(type, "complete") =
                            IF type = hello_ta THEN <<Uint63("protocol-version")>> ELSE <<>>
                      /\ opt_fields_of(type, "complete") = <<>>
    OBVIOUS
  <1>1. /\ fields_of(type, "accept") = <<>> /\ opt_fields_of(type, "accept") = <<>>
        /\ fields_of(type, "fail") = <<>> /\ opt_fields_of(type, "complete") = <<>>
        /\ fields_of(type, "complete") = type.complete_fields
        /\ opt_fields_of(type, "fail") = type.opt_fail_fields
    BY DEF fields_of, opt_fields_of
  <1>2. /\ type.complete_fields = IF type = hello_ta THEN <<Uint63("protocol-version")>> ELSE <<>>
        /\ type.opt_fail_fields \in {<<>>, <<Str("fail-reason")>>}
    <2> USE DEF Type, fail_reason
    <2>1. /\ hello_ta.complete_fields = <<Uint63("protocol-version")>>
          /\ hello_ta.opt_fail_fields = <<Str("fail-reason")>>
      BY DEF hello_ta
    <2>2. /\ publish_ta.complete_fields = <<>> /\ publish_ta.opt_fail_fields = <<Str("fail-reason")>>
          /\ unpublish_ta.complete_fields = <<>> /\ unpublish_ta.opt_fail_fields = <<Str("fail-reason")>>
          /\ unsubscribe_ta.complete_fields = <<>> /\ unsubscribe_ta.opt_fail_fields = <<Str("fail-reason")>>
          /\ ping_ta.complete_fields = <<>> /\ ping_ta.opt_fail_fields = <<Str("fail-reason")>>
      BY DEF publish_ta, unpublish_ta, unsubscribe_ta, ping_ta
    <2>3. /\ subscribe_ta.complete_fields = <<>> /\ subscribe_ta.opt_fail_fields = <<Str("fail-reason")>>
          /\ services_ta.complete_fields = <<>> /\ services_ta.opt_fail_fields = <<Str("fail-reason")>>
          /\ subscriptions_ta.complete_fields = <<>> /\ subscriptions_ta.opt_fail_fields = <<>>
          /\ clients_ta.complete_fields = <<>> /\ clients_ta.opt_fail_fields = <<Str("fail-reason")>>
      BY DEF subscribe_ta, services_ta, subscriptions_ta, clients_ta
    <2>4. hello_ta.cmd = "hello" /\ \A u \in proto_ta_types : u.cmd = "hello" => u = hello_ta
      <3>1. hello_ta.cmd = "hello" /\ hello_ta \in proto_ta_types
        BY DEF hello_ta, proto_ta_types
      <3> QED BY <3>1, CommandsApart
    <2>5. /\ publish_ta # hello_ta /\ unpublish_ta # hello_ta /\ unsubscribe_ta # hello_ta
          /\ ping_ta # hello_ta /\ subscribe_ta # hello_ta /\ services_ta # hello_ta
          /\ subscriptions_ta # hello_ta /\ clients_ta # hello_ta
      <3>1. /\ publish_ta.cmd = "publish" /\ unpublish_ta.cmd = "unpublish"
            /\ unsubscribe_ta.cmd = "unsubscribe" /\ ping_ta.cmd = "ping"
        BY DEF publish_ta, unpublish_ta, unsubscribe_ta, ping_ta
      <3>2. /\ subscribe_ta.cmd = "subscribe" /\ services_ta.cmd = "services"
            /\ subscriptions_ta.cmd = "subscriptions" /\ clients_ta.cmd = "clients"
        BY DEF subscribe_ta, services_ta, subscriptions_ta, clients_ta
      <3> QED BY <2>4, <3>1, <3>2
    <2> QED BY <2>1, <2>2, <2>3, <2>5 DEF proto_ta_types
  <1> QED BY <1>1, <1>2

\* A response that says nothing of a service.
Plain(msg) == ResponseWellFormed(msg) /\ "generation" \notin DOMAIN msg

LEMMA PlainIfUnnamed ==
    ASSUME NEW msg, ResponseWellFormed(msg), NEW f, NEW o,
           NEW args, HasArgs(msg, f, o, args),
           "generation" \notin FieldNames(f), "generation" \notin FieldNames(o)
    PROVE  Plain(msg)
  BY DEF Plain, HasArgs, Mandatory

LEMMA PlainResponses ==
    ASSUME NEW t, t.type \in proto_ta_types
    PROVE  /\ Plain(accept(t))
           /\ \A reason : Plain(fail(t, reason))
           /\ t.type # hello_ta => Plain(complete(t, <<>>))
           /\ t.type = hello_ta => Plain(complete(t, <<Int64(PROTO_VERSION)>>))
  <1>k. /\ "accept" \in Kinds /\ "complete" \in Kinds /\ "fail" \in Kinds
        /\ Len(<<>>) = 0 /\ ArgsFit(<<>>, <<>>, <<>>)
    BY DEF Kinds, ArgsFit
  <1>e. "generation" \notin FieldNames(<<>>)
    BY DEF FieldNames
  <1>1. Plain(accept(t))
    BY <1>k, <1>e, ResponseFields, ResponseFits, NoRespFields, PlainIfUnnamed DEF accept
  <1>2. ASSUME NEW reason PROVE Plain(fail(t, reason))
    <2> DEFINE args == <<<<"str", reason>>>>
               f == Str("fail-reason")
    <2>1. Len(args) = 1 /\ args[1] = <<"str", reason>>
      OBVIOUS
    <2>2. f \in RespField /\ f.type = "str" /\ f.name = "fail-reason"
      BY RespFieldOf DEF Str, RespNames
    <2> HIDE DEF args, f
    <2>3. ArgFits(args[1], "str")
      BY <2>1 DEF ArgFits
    <2>4. ArgsFit(<<>>, <<>>, args) /\ ArgsFit(<<>>, <<f>>, args)
      BY <2>1, <2>2, <2>3 DEF ArgsFit
    <2>5. RespLists(<<>>, <<>>) /\ RespLists(<<>>, <<f>>)
      BY <2>2, NoRespFields
    <2>6. /\ fields_of(t.type, "fail") = <<>>
          /\ opt_fields_of(t.type, "fail") \in {<<>>, <<f>>}
      BY ResponseFields DEF f
    <2>7. "generation" \notin FieldNames(<<f>>)
      BY <2>2 DEF FieldNames
    <2>8. Plain(produce_response(t, "fail", args))
      BY <1>k, <1>e, <2>1, <2>4, <2>5, <2>6, <2>7, ResponseFits, PlainIfUnnamed
    <2> QED BY <2>8 DEF fail, args
  <1>3. ASSUME t.type # hello_ta PROVE Plain(complete(t, <<>>))
    BY <1>k, <1>e, <1>3, ResponseFields, ResponseFits, NoRespFields, PlainIfUnnamed DEF complete
  <1>4. ASSUME t.type = hello_ta PROVE Plain(complete(t, <<Int64(PROTO_VERSION)>>))
    <2> DEFINE args == <<Int64(PROTO_VERSION)>>
               f == Uint63("protocol-version")
    <2>1. Len(args) = 1 /\ args[1] = Int64(PROTO_VERSION)
      OBVIOUS
    <2>2. f \in RespField /\ f.type = "uint63" /\ f.name = "protocol-version"
      BY RespFieldOf DEF Uint63, RespNames
    <2> HIDE DEF args, f
    <2>3. ArgFits(args[1], "uint63")
      BY <2>1, TimesAssumption DEF ArgFits
    <2>4. ArgsFit(<<f>>, <<>>, args) /\ RespLists(<<f>>, <<>>)
      BY <2>1, <2>2, <2>3, NoRespFields DEF ArgsFit
    <2>5. fields_of(t.type, "complete") = <<f>> /\ opt_fields_of(t.type, "complete") = <<>>
      BY <1>4, ResponseFields DEF f
    <2>6. "generation" \notin FieldNames(<<f>>)
      BY <2>2 DEF FieldNames
    <2>7. Plain(produce_response(t, "complete", args))
      BY <1>k, <1>e, <2>1, <2>4, <2>5, <2>6, ResponseFits, PlainIfUnnamed
    <2> QED BY <2>7 DEF complete, args
  <1> QED BY <1>1, <1>2, <1>3, <1>4

IsService(s) ==
    /\ s = [id |-> s.id, generation |-> s.generation, props |-> s.props, ttl |-> s.ttl,
            client_id |-> s.client_id, orphan_since |-> s.orphan_since]
    /\ s.id \in Nat /\ s.generation \in Nat /\ s.ttl \in Nat /\ s.client_id \in Nat
    /\ IsSeq(s.props)

LEMMA ServiceArgs ==
    ASSUME NEW s, IsService(s)
    PROVE  LET args == service_args(s)
           IN  /\ Len(args) = 6
               /\ args \in Seq({args[i] : i \in 1..6})
               /\ args[1] = Int64(s.id) /\ args[2] = Int64(s.generation)
               /\ args[3] = <<"props", s.props>> /\ args[4] = Int64(s.ttl)
               /\ args[6] = Null <=> s.orphan_since = Nil
               /\ ArgFits(args[1], "uint63") /\ ArgFits(args[2], "uint63")
               /\ ArgFits(args[3], "props") /\ ArgFits(args[4], "uint63")
               /\ ArgFits(args[5], "uint63")
               /\ args[6] = Null \/ ArgFits(args[6], "number")
  <1> DEFINE args == service_args(s)
             since == orphan_since(s)
  <1>1. args = <<Int64(s.id), Int64(s.generation), <<"props", s.props>>, Int64(s.ttl),
                 Int64(s.client_id), since>>
    BY DEF service_args
  <1>2. /\ since = Null \/ ArgFits(since, "number")
        /\ since = Null <=> s.orphan_since = Nil
    BY DEF orphan_since, ArgFits, Null
  <1>3. \A n \in Nat : ArgFits(Int64(n), "uint63")
    BY DEF ArgFits
  <1>4. ArgFits(<<"props", s.props>>, "props")
    BY DEF ArgFits, IsService
  <1>5. s.id \in Nat /\ s.generation \in Nat /\ s.ttl \in Nat /\ s.client_id \in Nat
    BY DEF IsService
  <1> HIDE DEF args, since
  <1>6. /\ Len(args) = 6 /\ args[1] = Int64(s.id) /\ args[2] = Int64(s.generation)
        /\ args[3] = <<"props", s.props>> /\ args[4] = Int64(s.ttl)
        /\ args[5] = Int64(s.client_id) /\ args[6] = since
    BY <1>1
  <1>7. args \in Seq({args[i] : i \in 1..6})
    <2>1. args = [i \in 1..6 |-> args[i]]
      BY <1>1
    <2>2. IsSeq(args)
      BY <1>6, <2>1 DEF IsSeq
    <2> QED BY <1>6, <2>2, SeqOfOwn
  <1> QED BY <1>2, <1>3, <1>4, <1>5, <1>6, <1>7 DEF args

\* The fields of notifications.
LEMMA NotifyFields ==
    /\ fields_of(services_ta, "notify") =
          <<Uint63("service-id"), Uint63("generation"), Field("service-props", "props"),
            Uint63("ttl"), Uint63("client-id")>>
    /\ opt_fields_of(services_ta, "notify") = <<Field("orphan-since", "number")>>
    /\ fields_of(subscribe_ta, "notify") = <<Field("match-type", "match_type"), Uint63("service-id")>>
    /\ opt_fields_of(subscribe_ta, "notify") =
          <<Uint63("generation"), Field("service-props", "props"), Uint63("ttl"),
            Uint63("client-id"), Field("orphan-since", "number")>>
    /\ fields_of(subscriptions_ta, "notify") = <<Uint63("subscription-id"), Uint63("client-id")>>
    /\ opt_fields_of(subscriptions_ta, "notify") = <<Str("filter")>>
    /\ fields_of(clients_ta, "notify") =
          <<Uint63("client-id"), Str("client-address"), Uint63("time")>>
    /\ opt_fields_of(clients_ta, "notify") = <<>>
  <1>1. \A type : /\ fields_of(type, "notify") = type.notify_fields
                  /\ opt_fields_of(type, "notify") = type.opt_notify_fields
    BY DEF fields_of, opt_fields_of
  <1>2. /\ services_ta.notify_fields =
              <<Uint63("service-id"), Uint63("generation"), Field("service-props", "props"),
                Uint63("ttl"), Uint63("client-id")>>
        /\ services_ta.opt_notify_fields = <<Field("orphan-since", "number")>>
    BY DEF Type, services_ta
  <1>3. /\ subscribe_ta.notify_fields = <<Field("match-type", "match_type"), Uint63("service-id")>>
        /\ subscribe_ta.opt_notify_fields =
              <<Uint63("generation"), Field("service-props", "props"), Uint63("ttl"),
                Uint63("client-id"), Field("orphan-since", "number")>>
    BY DEF Type, subscribe_ta
  <1>4. /\ subscriptions_ta.notify_fields = <<Uint63("subscription-id"), Uint63("client-id")>>
        /\ subscriptions_ta.opt_notify_fields = <<Str("filter")>>
        /\ clients_ta.notify_fields = <<Uint63("client-id"), Str("client-address"), Uint63("time")>>
        /\ clients_ta.opt_notify_fields = <<>>
    BY DEF Type, subscriptions_ta, clients_ta
  <1> QED BY <1>1, <1>2, <1>3, <1>4

\* Lists of up to five fields with different names.
LEMMA FiveApart ==
    ASSUME NEW a \in RespField, NEW b \in RespField, NEW c \in RespField, NEW d \in RespField,
           NEW e \in RespField,
           a.name # b.name, a.name # c.name, a.name # d.name, a.name # e.name,
           b.name # c.name, b.name # d.name, b.name # e.name,
           c.name # d.name, c.name # e.name, d.name # e.name
    PROVE  /\ <<a, b, c, d, e>> \in Seq(RespField) /\ NamesApart(<<a, b, c, d, e>>)
           /\ FieldNames(<<a, b, c, d, e>>) = {a.name, b.name, c.name, d.name, e.name}
           /\ Len(<<a, b, c, d, e>>) = 5
  <1> DEFINE s == <<a, b, c, d, e>>
  <1>1. /\ s \in Seq(RespField) /\ Len(s) = 5 /\ DOMAIN s = 1..5
        /\ s[1] = a /\ s[2] = b /\ s[3] = c /\ s[4] = d /\ s[5] = e
    OBVIOUS
  <1>2. \A i \in 1..5 : i = 1 \/ i = 2 \/ i = 3 \/ i = 4 \/ i = 5
    OBVIOUS
  <1> HIDE DEF s
  <1>3. NamesApart(s)
    BY <1>1, <1>2 DEF NamesApart
  <1>4. FieldNames(s) = {a.name, b.name, c.name, d.name, e.name}
    BY <1>1, <1>2 DEF FieldNames
  <1> QED BY <1>1, <1>3, <1>4 DEF s

LEMMA ThreeApart ==
    ASSUME NEW a \in RespField, NEW b \in RespField, NEW c \in RespField,
           a.name # b.name, a.name # c.name, b.name # c.name
    PROVE  /\ <<a, b>> \in Seq(RespField) /\ NamesApart(<<a, b>>)
           /\ FieldNames(<<a, b>>) = {a.name, b.name}
           /\ <<a, b, c>> \in Seq(RespField) /\ NamesApart(<<a, b, c>>)
           /\ <<c>> \in Seq(RespField) /\ NamesApart(<<c>>) /\ FieldNames(<<c>>) = {c.name}
           /\ <<>> \in Seq(RespField) /\ NamesApart(<<>>) /\ FieldNames(<<>>) = {}
  <1>1. /\ <<a, b>> \in Seq(RespField) /\ NamesApart(<<a, b>>)
        /\ FieldNames(<<a, b>>) = {a.name, b.name}
    BY DEF NamesApart, FieldNames
  <1>2. <<a, b, c>> \in Seq(RespField) /\ NamesApart(<<a, b, c>>)
    BY DEF NamesApart
  <1>3. /\ <<c>> \in Seq(RespField) /\ NamesApart(<<c>>) /\ FieldNames(<<c>>) = {c.name}
        /\ <<>> \in Seq(RespField) /\ NamesApart(<<>>) /\ FieldNames(<<>>) = {}
    BY DEF NamesApart, FieldNames
  <1> QED BY <1>1, <1>2, <1>3

\* A response that tells of service s, if of any.
Tells(msg, s) ==
    /\ msg["service-id"] = json_integer(s.id)
    /\ msg["generation"] = json_integer(s.generation)
    /\ msg["ttl"] = json_integer(s.ttl)
    /\ msg["service-props"] = props_to_json(s.props)
    /\ "orphan-since" \in DOMAIN msg <=> s.orphan_since # Nil

Fine(msg, s) == ResponseWellFormed(msg) /\ ("generation" \in DOMAIN msg => Tells(msg, s))

LEMMA ArgsSet ==
    /\ \A field, n : field.type = "uint63" => set_field(field, Int64(n)) = json_integer(n)
    /\ \A field, ps : field.type = "props" => set_field(field, <<"props", ps>>) = props_to_json(ps)
  BY DEF set_field, Int64

LEMMA ServiceNotified ==
    ASSUME NEW t, t.type = services_ta, NEW s, IsService(s)
    PROVE  Fine(notify(t, service_args(s)), s)
  <1> DEFINE a == Uint63("service-id")
             b == Uint63("generation")
             c == Field("service-props", "props")
             d == Uint63("ttl")
             e == Uint63("client-id")
             g == Field("orphan-since", "number")
             args == service_args(s)
             f == <<a, b, c, d, e>>
             o == <<g>>
  <1>1. /\ a \in RespField /\ b \in RespField /\ c \in RespField /\ d \in RespField
        /\ e \in RespField /\ g \in RespField
        /\ a.name = "service-id" /\ b.name = "generation" /\ c.name = "service-props"
        /\ d.name = "ttl" /\ e.name = "client-id" /\ g.name = "orphan-since"
        /\ a.type = "uint63" /\ b.type = "uint63" /\ c.type = "props" /\ d.type = "uint63"
        /\ e.type = "uint63" /\ g.type = "number"
    BY RespFieldOf DEF Uint63, RespNames
  <1>2. fields_of(t.type, "notify") = f /\ opt_fields_of(t.type, "notify") = o
    BY NotifyFields
  <1> HIDE DEF a, b, c, d, e, g
  <1>3. /\ f \in Seq(RespField) /\ NamesApart(f) /\ Len(f) = 5
        /\ FieldNames(f) = {a.name, b.name, c.name, d.name, e.name}
    BY <1>1, FiveApart
  <1>4. /\ o \in Seq(RespField) /\ NamesApart(o) /\ Len(o) = 1
        /\ FieldNames(o) = {g.name} /\ o[1] = g
    BY <1>1 DEF NamesApart, FieldNames
  <1>5. f[1] = a /\ f[2] = b /\ f[3] = c /\ f[4] = d /\ f[5] = e
    OBVIOUS
  <1> HIDE DEF f, o, args
  <1>6. RespLists(f, o)
    BY <1>1, <1>3, <1>4 DEF RespLists
  <1>7. /\ Len(args) = 6
        /\ ArgFits(args[1], "uint63") /\ ArgFits(args[2], "uint63")
        /\ ArgFits(args[3], "props") /\ ArgFits(args[4], "uint63")
        /\ ArgFits(args[5], "uint63")
        /\ args[6] = Null \/ ArgFits(args[6], "number")
    BY ServiceArgs DEF args
  <1>8. ArgsFit(f, o, args)
    <2>1. \A i \in 1..5 : i = 1 \/ i = 2 \/ i = 3 \/ i = 4 \/ i = 5
      OBVIOUS
    <2>2. \A i \in 1..5 : ArgFits(args[i], f[i].type)
      BY <1>1, <1>5, <1>7, <2>1
    <2> QED BY <1>1, <1>3, <1>4, <1>7, <2>2 DEF ArgsFit
  <1>9. "notify" \in Kinds /\ t.type \in proto_ta_types
    BY DEF Kinds, proto_ta_types
  <1> DEFINE msg == produce_response(t, "notify", args)
  <1>10. /\ ResponseWellFormed(msg)
         /\ \A i \in 1..5 : msg[f[i].name] = set_field(f[i], args[i])
         /\ g.name \in DOMAIN msg <=> args[6] # Null
    <2>1. Len(args) \in Nat
      BY <1>7
    <2>2. /\ ResponseWellFormed(msg)
          /\ \A i \in 1..Len(f) : msg[f[i].name] = set_field(f[i], args[i])
          /\ \A i \in 1..Len(o) : o[i].name \in DOMAIN msg <=> args[Len(f) + i] # Null
      <3> HIDE DEF msg
      <3>1. msg = produce_response(t, "notify", args)
        BY DEF msg
      <3>2. ResponseWellFormed(msg) /\ HasArgs(msg, f, o, args)
        BY <1>2, <1>6, <1>8, <1>9, <2>1, <3>1, FieldsSet
      <3> QED BY <3>2 DEF HasArgs
    <2> HIDE DEF msg
    <2>3. o[1].name \in DOMAIN msg <=> args[5 + 1] # Null
      BY <1>3, <1>4, <2>2
    <2> QED BY <1>3, <1>4, <2>2, <2>3
  <1>11. /\ args[1] = Int64(s.id) /\ args[2] = Int64(s.generation)
         /\ args[3] = <<"props", s.props>> /\ args[4] = Int64(s.ttl)
         /\ args[6] = Null <=> s.orphan_since = Nil
    BY ServiceArgs DEF args
  <1> HIDE DEF msg
  <1>12. /\ msg["service-id"] = set_field(a, Int64(s.id))
         /\ msg["generation"] = set_field(b, Int64(s.generation))
         /\ msg["service-props"] = set_field(c, <<"props", s.props>>)
         /\ msg["ttl"] = set_field(d, Int64(s.ttl))
    BY <1>1, <1>5, <1>10, <1>11
  <1>13. Tells(msg, s)
    BY <1>1, <1>10, <1>11, <1>12, ArgsSet DEF Tells
  <1> QED BY <1>10, <1>13 DEF notify, args, msg, Fine

LEMMA MatchNotified ==
    ASSUME NEW t, t.type = subscribe_ta, NEW s, IsService(s), NEW match_type \in DOMAIN MatchTypes
    PROVE  Fine(notify_sub_match(t, s, match_type), s)
  <1> DEFINE a == Field("match-type", "match_type")
             k == Uint63("service-id")
             b == Uint63("generation")
             c == Field("service-props", "props")
             d == Uint63("ttl")
             e == Uint63("client-id")
             g == Field("orphan-since", "number")
             f == <<a, k>>
             o == <<b, c, d, e, g>>
             first == <<"match_type", match_type>>
             rest == IF match_type = "sub_match_type_disappeared"
                     THEN <<Int64(s.id), Null, Null, Null, Null, Null>> ELSE service_args(s)
             args == <<first>> \o rest
  <1>1. /\ a \in RespField /\ b \in RespField /\ c \in RespField /\ d \in RespField
        /\ e \in RespField /\ g \in RespField /\ k \in RespField
        /\ k.name = "service-id" /\ b.name = "generation" /\ c.name = "service-props"
        /\ d.name = "ttl" /\ e.name = "client-id" /\ g.name = "orphan-since" /\ a.name = "match-type"
        /\ k.type = "uint63" /\ b.type = "uint63" /\ c.type = "props" /\ d.type = "uint63"
        /\ e.type = "uint63" /\ g.type = "number" /\ a.type = "match_type"
    BY RespFieldOf DEF Uint63, RespNames
  <1>2. fields_of(t.type, "notify") = f /\ opt_fields_of(t.type, "notify") = o
    BY NotifyFields
  <1>n. notify_sub_match(t, s, match_type) = produce_response(t, "notify", args)
    BY DEF notify_sub_match, notify
  <1> HIDE DEF a, k, b, c, d, e, g
  <1>3. /\ o \in Seq(RespField) /\ NamesApart(o) /\ Len(o) = 5
        /\ FieldNames(o) = {b.name, c.name, d.name, e.name, g.name}
        /\ o[1] = b /\ o[2] = c /\ o[3] = d /\ o[4] = e /\ o[5] = g
    BY <1>1, FiveApart
  <1>4. /\ f \in Seq(RespField) /\ NamesApart(f) /\ Len(f) = 2
        /\ FieldNames(f) = {a.name, k.name} /\ f[1] = a /\ f[2] = k
    BY <1>1 DEF NamesApart, FieldNames
  <1> HIDE DEF f, o
  <1>5. RespLists(f, o)
    BY <1>1, <1>3, <1>4 DEF RespLists
  <1>6. /\ rest \in Seq({rest[i] : i \in 1..6}) /\ Len(rest) = 6
        /\ ArgFits(rest[1], "uint63")
        /\ rest[2] = Null \/ ArgFits(rest[2], "uint63")
        /\ rest[3] = Null \/ ArgFits(rest[3], "props")
        /\ rest[4] = Null \/ ArgFits(rest[4], "uint63")
        /\ rest[5] = Null \/ ArgFits(rest[5], "uint63")
        /\ rest[6] = Null \/ ArgFits(rest[6], "number")
    <2>1. CASE match_type = "sub_match_type_disappeared"
      <3>1. rest = <<Int64(s.id), Null, Null, Null, Null, Null>>
        BY <2>1
      <3> HIDE DEF rest
      <3>2. /\ Len(rest) = 6 /\ rest[1] = Int64(s.id) /\ rest[2] = Null /\ rest[3] = Null
            /\ rest[4] = Null /\ rest[5] = Null /\ rest[6] = Null
            /\ rest = [i \in 1..6 |-> rest[i]]
        BY <3>1
      <3>3. ArgFits(rest[1], "uint63")
        BY <3>2 DEF ArgFits, IsService
      <3>4. rest \in Seq({rest[i] : i \in 1..6})
        <4>1. IsSeq(rest)
          BY <3>2 DEF IsSeq
        <4> QED BY <3>2, <4>1, SeqOfOwn
      <3> QED BY <3>2, <3>3, <3>4
    <2>2. CASE match_type # "sub_match_type_disappeared"
      BY <2>2, ServiceArgs
    <2> QED BY <2>1, <2>2
  <1> HIDE DEF rest
  <1>7. /\ Len(args) = 7 /\ args[1] = first
        /\ args[2] = rest[1] /\ args[3] = rest[2] /\ args[4] = rest[3]
        /\ args[5] = rest[4] /\ args[6] = rest[5] /\ args[7] = rest[6]
    <2> DEFINE R == {rest[i] : i \in 1..6}
               Q == R \cup {first}
               h == <<first>>
    <2>1. rest \in Seq(Q) /\ Len(rest) = 6
      <3>1. R \subseteq Q
        OBVIOUS
      <3> HIDE DEF Q
      <3> QED BY <1>6, <3>1
    <2>2. h \in Seq(Q) /\ Len(h) = 1 /\ h[1] = first
      OBVIOUS
    <2> HIDE DEF h, Q, first
    <2>3. /\ Len(h \o rest) = Len(h) + Len(rest)
          /\ \A i \in 1..(Len(h) + Len(rest)) :
                (h \o rest)[i] = IF i <= Len(h) THEN h[i] ELSE rest[i - Len(h)]
      BY <2>1, <2>2, ConcatProperties
    <2>4. /\ Len(h \o rest) = 7 /\ (h \o rest)[1] = h[1]
          /\ (h \o rest)[2] = rest[1] /\ (h \o rest)[3] = rest[2] /\ (h \o rest)[4] = rest[3]
          /\ (h \o rest)[5] = rest[4] /\ (h \o rest)[6] = rest[5] /\ (h \o rest)[7] = rest[6]
      BY <2>1, <2>2, <2>3
    <2> QED BY <2>2, <2>4 DEF h
  <1>8. ArgFits(args[1], "match_type")
    BY <1>7 DEF ArgFits
  <1> HIDE DEF args
  <1>9. ArgsFit(f, o, args)
    <2>1. \A i \in 1..5 : i = 1 \/ i = 2 \/ i = 3 \/ i = 4 \/ i = 5
      OBVIOUS
    <2>2. \A i \in 1..2 : ArgFits(args[i], f[i].type)
      <3>1. ArgFits(args[1], f[1].type) /\ ArgFits(args[2], f[2].type)
        BY <1>1, <1>4, <1>6, <1>7, <1>8
      <3>2. \A i \in 1..2 : i = 1 \/ i = 2
        OBVIOUS
      <3> QED BY <3>1, <3>2
    <2>3. \A i \in 1..5 : args[2 + i] = Null \/ ArgFits(args[2 + i], o[i].type)
      BY <1>1, <1>3, <1>6, <1>7, <2>1
    <2> QED BY <1>3, <1>4, <1>7, <2>2, <2>3 DEF ArgsFit
  <1>10. "notify" \in Kinds /\ t.type \in proto_ta_types
    BY DEF Kinds, proto_ta_types
  <1> DEFINE msg == produce_response(t, "notify", args)
  <1>11. /\ ResponseWellFormed(msg)
         /\ \A i \in 1..2 : msg[f[i].name] = set_field(f[i], args[i])
         /\ \A i \in 1..5 : /\ o[i].name \in DOMAIN msg <=> args[2 + i] # Null
                            /\ o[i].name \in DOMAIN msg => msg[o[i].name] = set_field(o[i], args[2 + i])
    <2>1. Len(args) \in Nat
      BY <1>7
    <2> HIDE DEF msg
    <2>2. msg = produce_response(t, "notify", args)
      BY DEF msg
    <2>3. /\ ResponseWellFormed(msg)
          /\ \A i \in 1..Len(f) : msg[f[i].name] = set_field(f[i], args[i])
          /\ \A i \in 1..Len(o) :
                /\ o[i].name \in DOMAIN msg <=> args[Len(f) + i] # Null
                /\ o[i].name \in DOMAIN msg => msg[o[i].name] = set_field(o[i], args[Len(f) + i])
      <3>1. ResponseWellFormed(msg) /\ HasArgs(msg, f, o, args)
        BY <1>2, <1>5, <1>9, <1>10, <2>1, <2>2, FieldsSet
      <3> QED BY <3>1 DEF HasArgs
    <2> QED BY <1>3, <1>4, <2>3
  <1> HIDE DEF msg
  <1>12. /\ msg["service-id"] = set_field(k, rest[1])
         /\ "generation" \in DOMAIN msg <=> rest[2] # Null
         /\ "generation" \in DOMAIN msg => msg["generation"] = set_field(b, rest[2])
         /\ "service-props" \in DOMAIN msg <=> rest[3] # Null
         /\ "service-props" \in DOMAIN msg => msg["service-props"] = set_field(c, rest[3])
         /\ "ttl" \in DOMAIN msg <=> rest[4] # Null
         /\ "ttl" \in DOMAIN msg => msg["ttl"] = set_field(d, rest[4])
         /\ "orphan-since" \in DOMAIN msg <=> rest[6] # Null
    <2>1. msg[f[2].name] = set_field(f[2], args[2])
      BY <1>11
    <2>2. /\ o[1].name \in DOMAIN msg <=> args[2 + 1] # Null
          /\ o[1].name \in DOMAIN msg => msg[o[1].name] = set_field(o[1], args[2 + 1])
          /\ o[2].name \in DOMAIN msg <=> args[2 + 2] # Null
          /\ o[2].name \in DOMAIN msg => msg[o[2].name] = set_field(o[2], args[2 + 2])
          /\ o[3].name \in DOMAIN msg <=> args[2 + 3] # Null
          /\ o[3].name \in DOMAIN msg => msg[o[3].name] = set_field(o[3], args[2 + 3])
          /\ o[5].name \in DOMAIN msg <=> args[2 + 5] # Null
      BY <1>11
    <2>3. 2 + 1 = 3 /\ 2 + 2 = 4 /\ 2 + 3 = 5 /\ 2 + 5 = 7
      OBVIOUS
    <2> QED BY <1>1, <1>3, <1>4, <1>7, <2>1, <2>2, <2>3
  <1>13. CASE match_type = "sub_match_type_disappeared"
    <2>1. rest[2] = Null
      BY <1>13 DEF rest
    <2> QED BY <1>n, <1>11, <1>12, <2>1 DEF Fine, msg
  <1>14. CASE match_type # "sub_match_type_disappeared"
    <2>1. rest = service_args(s)
      BY <1>14 DEF rest
    <2>2. /\ rest[1] = Int64(s.id) /\ rest[2] = Int64(s.generation)
          /\ rest[3] = <<"props", s.props>> /\ rest[4] = Int64(s.ttl)
          /\ rest[6] = Null <=> s.orphan_since = Nil
      BY <2>1, ServiceArgs
    <2>3. rest[2] # Null /\ rest[3] # Null /\ rest[4] # Null
      BY <2>2 DEF Int64, Null
    <2>4. Tells(msg, s)
      BY <1>1, <1>12, <2>2, <2>3, ArgsSet DEF Tells
    <2> QED BY <1>n, <1>11, <2>4 DEF Fine, msg
  <1> QED BY <1>13, <1>14

LEMMA SubscriptionNotified ==
    ASSUME NEW t, t.type = subscriptions_ta, NEW u, u.req[1] \in Nat, NEW id \in Nat
    PROVE  Plain(notify(t, sub_args(u, id)))
  <1> DEFINE a == Uint63("subscription-id")
             b == Uint63("client-id")
             c == Str("filter")
             str == sub_get_filter_str(u)
             args == sub_args(u, id)
             f == <<a, b>>
             o == <<c>>
  <1>1. /\ a \in RespField /\ b \in RespField /\ c \in RespField
        /\ a.name = "subscription-id" /\ b.name = "client-id" /\ c.name = "filter"
        /\ a.type = "uint63" /\ b.type = "uint63" /\ c.type = "str"
    BY RespFieldOf DEF Uint63, Str, RespNames
  <1>2. fields_of(t.type, "notify") = f /\ opt_fields_of(t.type, "notify") = o
    BY NotifyFields
  <1>3. args = <<Int64(u.req[1]), Int64(id), str>>
    BY DEF sub_args
  <1>4. str = Null \/ ArgFits(str, "str")
    BY DEF sub_get_filter_str, ArgFits
  <1> HIDE DEF a, b, c, str, args
  <1>5. RespLists(f, o) /\ Len(f) = 2 /\ Len(o) = 1 /\ f[1] = a /\ f[2] = b /\ o[1] = c
    BY <1>1, ThreeApart DEF RespLists
  <1>n. "generation" \notin FieldNames(f) /\ "generation" \notin FieldNames(o)
    <2>1. FieldNames(f) = {a.name, b.name} /\ FieldNames(o) = {c.name}
      BY <1>1, ThreeApart
    <2> HIDE DEF f, o
    <2> QED BY <1>1, <2>1
  <1> HIDE DEF f, o
  <1>6. /\ Len(args) = 3 /\ ArgFits(args[1], "uint63") /\ ArgFits(args[2], "uint63")
        /\ args[3] = str
    BY <1>3 DEF ArgFits
  <1>7. ArgsFit(f, o, args)
    BY <1>1, <1>4, <1>5, <1>6 DEF ArgsFit
  <1>8. "notify" \in Kinds /\ t.type \in proto_ta_types
    BY DEF Kinds, proto_ta_types
  <1>9. Plain(produce_response(t, "notify", args))
    BY <1>2, <1>n, <1>5, <1>6, <1>7, <1>8, ResponseFits, PlainIfUnnamed
  <1> QED BY <1>9 DEF notify, args

LEMMA ClientNotified ==
    ASSUME NEW t, t.type = clients_ta, NEW id \in Nat
    PROVE  Plain(notify(t, <<Int64(id), <<"str", Address>>, Int64(Now)>>))
  <1> DEFINE a == Uint63("client-id")
             b == Str("client-address")
             c == Uint63("time")
             args == <<Int64(id), <<"str", Address>>, Int64(Now)>>
             f == <<a, b, c>>
             o == <<>>
  <1>1. /\ a \in RespField /\ b \in RespField /\ c \in RespField
        /\ a.name = "client-id" /\ b.name = "client-address" /\ c.name = "time"
        /\ a.type = "uint63" /\ b.type = "str" /\ c.type = "uint63"
    BY RespFieldOf DEF Uint63, Str, RespNames
  <1>2. fields_of(t.type, "notify") = f /\ opt_fields_of(t.type, "notify") = o
    BY NotifyFields
  <1> HIDE DEF a, b, c
  <1>5. RespLists(f, o) /\ Len(f) = 3 /\ Len(o) = 0 /\ f[1] = a /\ f[2] = b /\ f[3] = c
    BY <1>1, ThreeApart DEF RespLists
  <1>n. "generation" \notin FieldNames(f) /\ "generation" \notin FieldNames(o)
    BY <1>1 DEF FieldNames
  <1> HIDE DEF f, o
  <1>6. /\ Len(args) = 3 /\ ArgFits(args[1], "uint63") /\ ArgFits(args[2], "str")
        /\ ArgFits(args[3], "uint63")
    <2>1. Len(args) = 3 /\ args[1] = Int64(id) /\ args[2] = <<"str", Address>> /\ args[3] = Int64(Now)
      OBVIOUS
    <2> HIDE DEF args
    <2> QED BY <2>1, TimesAssumption DEF ArgFits
  <1> HIDE DEF args
  <1>7. ArgsFit(f, o, args)
    <2>1. \A i \in 1..3 : i = 1 \/ i = 2 \/ i = 3
      OBVIOUS
    <2> QED BY <1>1, <1>5, <1>6, <2>1 DEF ArgsFit
  <1>8. "notify" \in Kinds /\ t.type \in proto_ta_types
    BY DEF Kinds, proto_ta_types
  <1>9. Plain(produce_response(t, "notify", args))
    BY <1>2, <1>n, <1>5, <1>6, <1>7, <1>8, ResponseFits, PlainIfUnnamed
  <1> QED BY <1>9 DEF notify, args
-----------------------------------------------------------------------------
(* What the handlers get out of a request.                                 *)

LEMMA FieldsGot ==
    ASSUME NEW msg \in Messages, NEW fields \in Seq(ReqField), NEW opt \in BOOLEAN,
           get_fields(msg, fields, opt).num # Error
    PROVE  \A i \in DOMAIN fields :
              /\ get_fields(msg, fields, opt).values[i] = get_field(msg, fields[i], opt)
              /\ get_field(msg, fields[i], opt) # Error
  <1> DEFINE got == [i \in DOMAIN fields |-> get_field(msg, fields[i], opt)]
             wrong == {i \in DOMAIN fields : got[i] = Error}
             filled == [i \in DOMAIN fields |-> IF \E j \in wrong : j <= i THEN Nil ELSE got[i]]
  <1>1. get_fields(msg, fields, opt) =
            IF wrong = {} THEN [num |-> NumValues(got), values |-> got, held |-> NumValues(got)]
            ELSE [num |-> Error, values |-> free_fields(filled), held |-> 0]
    BY DEF get_fields
  <1>2. wrong = {}
    <2> HIDE DEF wrong, filled, got
    <2> QED BY <1>1
  <1>3. get_fields(msg, fields, opt).values = got
    <2> HIDE DEF wrong, filled, got
    <2> QED BY <1>1, <1>2
  <1> QED BY <1>2, <1>3

\* What a field of a request that is accepted holds.
Got(msg, field, value) ==
    /\ field.name \in DOMAIN msg
    /\ field.type = "uint63" =>
          /\ value \in Nat /\ msg[field.name] = json_integer(value)
          /\ field.name = "service-id" => value \in Uint63s["service-id"]
    /\ field.type = "props" =>
          /\ IsObject(msg[field.name]) /\ IsProps(msg[field.name])
          /\ value = json_to_props(msg[field.name]) /\ IsSeq(value)

LEMMA FieldGot ==
    ASSUME NEW msg \in Messages, NEW field \in ReqField, get_field(msg, field, FALSE) # Error
    PROVE  Got(msg, field, get_field(msg, field, FALSE))
  <1> DEFINE json == msg[field.name]
             value == get_field(msg, field, FALSE)
  <1>1. field.type \in {"uint63", "str", "props"}
    BY DEF ReqField
  <1>2. field.name \in DOMAIN msg /\ HasType(json, field.type)
    BY <1>1, FieldParsed
  <1>3. /\ json # Nil /\ IsScalar(json)
        /\ HasType(json, "props") => IsObject(json)
        /\ field.name = "service-id" /\ HasType(json, "uint63") => json.number \in Uint63s["service-id"]
    BY <1>2, MessagesAssumption
  <1>4. get_json(msg, field.name) = json
    BY <1>2 DEF get_json
  <1> HIDE DEF json
  <1>5. CASE field.type = "uint63"
    <2>1. json.type = "integer" /\ json.number \in Nat
      BY <1>2, <1>5 DEF HasType
    <2>2. value = json.number
      BY <1>3, <1>4, <1>5, <2>1 DEF get_field
    <2>3. json = json_integer(value)
      BY <1>3, <2>1, <2>2 DEF IsScalar
    <2>4. field.name = "service-id" => value \in Uint63s["service-id"]
      BY <1>2, <1>3, <1>5, <2>2
    <2> HIDE DEF value
    <2> QED BY <1>2, <1>5, <2>1, <2>2, <2>3, <2>4 DEF Got, json, value
  <1>6. CASE field.type = "props"
    <2>1. json.type = "object" /\ IsProps(json) /\ IsObject(json)
      BY <1>2, <1>3, <1>6 DEF HasType, IsProps
    <2>2. value = json_to_props(json)
      <3> DEFINE ps == json_to_props(json)
      <3>1. value = IF ps = Nil THEN Error ELSE ps
        BY <1>3, <1>4, <1>6, <2>1 DEF get_field
      <3> QED BY <3>1
    <2>3. IsSeq(value)
      BY <2>1, <2>2, JsonToProps
    <2> HIDE DEF value
    <2> QED BY <1>2, <1>6, <2>1, <2>2, <2>3 DEF Got, json, value
  <1>7. CASE field.type = "str"
    BY <1>2, <1>7 DEF Got
  <1> QED BY <1>1, <1>5, <1>6, <1>7

LEMMA RequestGot ==
    ASSUME NEW msg \in Messages, parse_req(msg).rc = 0
    PROVE  LET t == parse_req(msg).ta
           IN  /\ t.type \in proto_ta_types
               /\ \A i \in DOMAIN t.type.req_fields : Got(msg, t.type.req_fields[i], t.req[i])
  <1> DEFINE type == lookup_type(get_field(msg, Str("ta-cmd"), FALSE))
             req == get_fields(msg, type.req_fields, FALSE)
  <1>1. Accepts(msg)
    BY ParseHolds
  <1>2. type # Nil /\ req.num # Error
    BY <1>1 DEF Accepts
  <1>3. type \in proto_ta_types
    BY <1>2, LookupFinds
  <1>4. parse_req(msg).ta.type = type /\ parse_req(msg).ta.req = req.values
    <2>1. parse_req(msg).ta = ParsedTa(msg)
      BY <1>1, ParseHolds
    <2>2. ParsedTa(msg).type = type /\ ParsedTa(msg).req = req.values
      BY DEF ParsedTa, Ta
    <2> QED BY <2>1, <2>2
  <1> HIDE DEF type
  <1>5. type.req_fields \in Seq(ReqField)
    BY <1>3, RequestFields DEF FieldLists
  <1>6. ASSUME NEW i \in DOMAIN type.req_fields
        PROVE  Got(msg, type.req_fields[i], req.values[i])
    <2>1. type.req_fields[i] \in ReqField
      BY <1>5
    <2>2. /\ req.values[i] = get_field(msg, type.req_fields[i], FALSE)
          /\ get_field(msg, type.req_fields[i], FALSE) # Error
      BY <1>2, <1>5, FieldsGot
    <2> HIDE DEF req
    <2> QED BY <2>1, <2>2, FieldGot
  <1> QED BY <1>3, <1>4, <1>6
-----------------------------------------------------------------------------
(* The requests being handled.                                             *)

\* A transaction keeps what was parsed, a subscription's too, and the client
\* has the id of its hello.
RInv ==
    /\ rc # Nil => /\ ta.type = parse_req(request).ta.type
                   /\ ta.req = parse_req(request).ta.req
    /\ sub_ta # Nil => sub_ta.type = subscribe_ta /\ sub_ta.req[1] \in Nat
    /\ client_id \in Nat \cup {-1}

LEMMA InitRInv == ProtoTaInit => RInv
  BY DEF ProtoTaInit, RInv

LEMMA Handled ==
    ASSUME HInv, RInv, NEW type \in proto_ta_types, Handling(type.cmd)
    PROVE  /\ IsTa(ta) /\ ta.type = type /\ request \in Messages
           /\ \A i \in DOMAIN type.req_fields : Got(request, type.req_fields[i], ta.req[i])
  <1>1. ta # Nil /\ rc = 0 /\ ta.type.cmd = type.cmd
    BY DEF Handling
  <1>2. IsTa(ta)
    BY <1>1, TransactionsAreTas DEF HInv
  <1>3. /\ request \in Messages /\ parse_req(request).rc = 0
        /\ ta.type = parse_req(request).ta.type /\ ta.req = parse_req(request).ta.req
    BY <1>1, NilAssumption DEF HInv, RInv
  <1>4. /\ ta.type \in proto_ta_types
        /\ \A i \in DOMAIN ta.type.req_fields : Got(request, ta.type.req_fields[i], ta.req[i])
    BY <1>3, RequestGot
  <1>5. ta.type = type
    BY <1>1, <1>4, CommandsApart
  <1> QED BY <1>2, <1>3, <1>4, <1>5

\* The commands, and the required fields where the handlers use them.
LEMMA Commands ==
    /\ hello_ta \in proto_ta_types /\ hello_ta.cmd = "hello"
    /\ publish_ta \in proto_ta_types /\ publish_ta.cmd = "publish"
    /\ unpublish_ta \in proto_ta_types /\ unpublish_ta.cmd = "unpublish"
    /\ subscribe_ta \in proto_ta_types /\ subscribe_ta.cmd = "subscribe"
    /\ unsubscribe_ta \in proto_ta_types /\ unsubscribe_ta.cmd = "unsubscribe"
    /\ ping_ta \in proto_ta_types /\ ping_ta.cmd = "ping"
    /\ services_ta \in proto_ta_types /\ services_ta.cmd = "services"
    /\ subscriptions_ta \in proto_ta_types /\ subscriptions_ta.cmd = "subscriptions"
    /\ clients_ta \in proto_ta_types /\ clients_ta.cmd = "clients"
  <1>1. /\ hello_ta.cmd = "hello" /\ publish_ta.cmd = "publish" /\ unpublish_ta.cmd = "unpublish"
        /\ subscribe_ta.cmd = "subscribe" /\ unsubscribe_ta.cmd = "unsubscribe"
    BY DEF Type, hello_ta, publish_ta, unpublish_ta, subscribe_ta, unsubscribe_ta
  <1>2. /\ ping_ta.cmd = "ping" /\ services_ta.cmd = "services"
        /\ subscriptions_ta.cmd = "subscriptions" /\ clients_ta.cmd = "clients"
    BY DEF Type, ping_ta, services_ta, subscriptions_ta, clients_ta
  <1> QED BY <1>1, <1>2 DEF proto_ta_types

LEMMA FirstIsNumber ==
    ASSUME NEW msg, NEW type \in {hello_ta, subscribe_ta}, NEW req,
           \A i \in DOMAIN type.req_fields : Got(msg, type.req_fields[i], req[i])
    PROVE  req[1] \in Nat
  <1>1. 1 \in DOMAIN type.req_fields /\ type.req_fields[1].type = "uint63"
    <2> DEFINE a == Uint63("client-id")
               b == Uint63("protocol-minimum-version")
               c == Uint63("protocol-maximum-version")
               d == Uint63("subscription-id")
    <2>1. hello_ta.req_fields = <<a, b, c>> /\ subscribe_ta.req_fields = <<d>>
      BY DEF hello_ta, subscribe_ta, Type
    <2>2. a.type = "uint63" /\ d.type = "uint63"
      BY DEF Uint63, Field
    <2> HIDE DEF a, b, c, d
    <2> QED BY <2>1, <2>2
  <1> QED BY <1>1 DEF Got

LEMMA AnswerRInv ==
    ASSUME HInv, RInv, ta # Nil, NEW st \in TaStates, ta' = [ta EXCEPT !.state = st],
           UNCHANGED <<request, rc>>, sub_ta' \in {sub_ta, Nil}, client_id' \in Nat \cup {-1}
    PROVE  RInv'
  <1>1. IsTa(ta)
    BY TransactionsAreTas DEF HInv
  <1>2. ta'.type = ta.type /\ ta'.req = ta.req
    BY <1>1, TaState
  <1> QED BY <1>2 DEF RInv

LEMMA NextRInv == HInv /\ RInv /\ [ProtoTaNext]_taVars => RInv'
  <1> SUFFICES ASSUME HInv, RInv, [ProtoTaNext]_taVars PROVE RInv'
    OBVIOUS
  <1>a. ASSUME ta # Nil, UNCHANGED <<request, rc>>, sub_ta' \in {sub_ta, Nil},
               client_id' \in Nat \cup {-1},
               \/ ta' = [ta EXCEPT !.state = "completed"]
               \/ ta' = [ta EXCEPT !.state = "failed"]
        PROVE  RInv'
    BY <1>a, AnswerRInv DEF TaStates
  <1>c. client_id \in Nat \cup {-1}
    BY DEF RInv
  <1>q. ASSUME rc' = Nil, sub_ta' \in {sub_ta, Nil}, client_id' \in {client_id, -1}
        PROVE  RInv'
    BY <1>q DEF RInv
  <1>1. CASE ClientRequest
    BY <1>1, <1>q DEF ClientRequest, HInv
  <1>2. CASE proto_ta_req
    BY <1>2 DEF proto_ta_req, RInv
  <1>3. CASE proto_ta_destroy
    BY <1>3, <1>q DEF proto_ta_destroy
  <1>4. CASE handle_hello
    <2>1. ta.req[1] \in Nat
      BY <1>4, Commands, Handled, FirstIsNumber DEF handle_hello
    <2>2. ta # Nil /\ UNCHANGED <<request, rc, sub_ta>> /\ client_id' \in {client_id, ta.req[1]}
      BY <1>4 DEF handle_hello, Handling
    <2>3. \/ ta' = [ta EXCEPT !.state = "completed"]
          \/ ta' = [ta EXCEPT !.state = "failed"]
      BY <1>4 DEF handle_hello, Complete, Fail
    <2> QED BY <1>a, <1>c, <2>1, <2>2, <2>3
  <1>5. CASE handle_no_hello
    BY <1>5, <1>a, <1>c DEF handle_no_hello, Handling, Fail
  <1>6. CASE handle_publish
    BY <1>6, <1>a, <1>c DEF handle_publish, Ready, Handling, Fail
  <1>7. CASE handle_unpublish
    BY <1>7, <1>a, <1>c DEF handle_unpublish, Ready, Handling, Fail
  <1>8. CASE handle_subscribe
    <2>1. Handling("subscribe") /\ ta # Nil /\ client_id' = client_id
      BY <1>8 DEF handle_subscribe, Ready, Handling
    <2>2. CASE ta' = [ta EXCEPT !.state = "failed"] /\ UNCHANGED <<request, rc, sub_ta>>
      BY <1>a, <1>c, <2>1, <2>2
    <2>3. CASE sub_ta' = [ta EXCEPT !.state = "accepted"] /\ rc' = Nil
      <3>1. IsTa(ta) /\ ta.type = subscribe_ta /\ ta.req[1] \in Nat
        BY <2>1, Commands, Handled, FirstIsNumber
      <3>2. sub_ta'.type = subscribe_ta /\ sub_ta'.req[1] \in Nat
        BY <2>3, <3>1, TaState
      <3> QED BY <2>1, <2>3, <3>2 DEF RInv
    <2> QED BY <1>8, <2>2, <2>3 DEF handle_subscribe, Fail
  <1>9. CASE handle_unsubscribe
    BY <1>9, <1>a, <1>c DEF handle_unsubscribe, Ready, Handling, Fail
  <1>10. CASE handle_services \/ handle_subscriptions \/ handle_clients \/ handle_ping
    BY <1>10, <1>a, <1>c DEF handle_services, handle_subscriptions, handle_clients, handle_ping,
                             Ready, Handling, List, Complete, Fail
  <1>11. CASE term
    <2>1. rc' = Nil
      BY <1>11 DEF term, HInv
    <2> QED BY <1>11, <1>q, <2>1 DEF term, Disconnected
  <1>12. CASE orphan_timeout_cb
    <2>1. rc' = Nil
      BY <1>12 DEF orphan_timeout_cb, HInv
    <2> QED BY <1>12, <1>q, <2>1 DEF orphan_timeout_cb
  <1>13. CASE handle_req_err
    BY <1>13, <1>q DEF handle_req_err, Disconnected
  <1>14. CASE UNCHANGED taVars
    BY <1>14 DEF taVars, RInv
  <1> QED BY <1>1, <1>2, <1>3, <1>4, <1>5, <1>6, <1>7, <1>8, <1>9, <1>10, <1>11, <1>12, <1>13, <1>14
          DEF ProtoTaNext
-----------------------------------------------------------------------------
(* The service in the database.                                            *)

\* A service as a publish request has it.
Published(msg, s) ==
    /\ IsService(s)
    /\ msg["service-id"] = json_integer(s.id)
    /\ msg["generation"] = json_integer(s.generation)
    /\ msg["ttl"] = json_integer(s.ttl)
    /\ IsObject(msg["service-props"]) /\ IsProps(msg["service-props"])
    /\ props_equal(json_to_props(msg["service-props"]), s.props)

\* The service is as the latest granted publish request has it, although that
\* request may not have changed it.
SInv ==
    /\ service # Nil => IsService(service) /\ service.id \in Uint63s["service-id"]
    /\ publish # Nil => Published(publish, service)

LEMMA InitSInv == ProtoTaInit => SInv
  BY DEF ProtoTaInit, SInv

LEMMA ServiceOf ==
    ASSUME NEW id \in Nat, NEW generation \in Nat, NEW ps, IsSeq(ps), NEW ttl \in Nat,
           NEW owner \in Nat, NEW since, NEW s,
           s = [id |-> id, generation |-> generation, props |-> ps, ttl |-> ttl,
                client_id |-> owner, orphan_since |-> since]
    PROVE  /\ IsService(s)
           /\ s.id = id /\ s.generation = generation /\ s.props = ps /\ s.ttl = ttl
           /\ s.orphan_since = since
  BY DEF IsService

\* The service with another owner, or as an orphan.
HandedOver(s, owner, since) == [s EXCEPT !.client_id = owner, !.orphan_since = since]

LEMMA ServiceHandedOver ==
    ASSUME NEW s, IsService(s), NEW owner \in Nat, NEW since
    PROVE  LET u == HandedOver(s, owner, since)
           IN  /\ IsService(u) /\ u.orphan_since = since
               /\ u.id = s.id /\ u.generation = s.generation /\ u.props = s.props /\ u.ttl = s.ttl
               /\ owner = s.client_id => u = [s EXCEPT !.orphan_since = since]
  <1> DEFINE u == HandedOver(s, owner, since)
             i == s.id
             g == s.generation
             ps == s.props
             t == s.ttl
             c == s.client_id
             x == s.orphan_since
  <1>1. i \in Nat /\ g \in Nat /\ t \in Nat /\ IsSeq(ps)
    BY DEF IsService
  <1>2. s = [id |-> i, generation |-> g, props |-> ps, ttl |-> t, client_id |-> c, orphan_since |-> x]
    BY DEF IsService
  <1>3. u = [[s EXCEPT !.client_id = owner] EXCEPT !.orphan_since = since]
    BY DEF HandedOver
  <1> HIDE DEF u, i, g, ps, t, c, x
  <1>4. u = [id |-> i, generation |-> g, props |-> ps, ttl |-> t,
             client_id |-> owner, orphan_since |-> since]
    <2> DEFINE half == [s EXCEPT !.client_id = owner]
    <2>1. half = [id |-> i, generation |-> g, props |-> ps, ttl |-> t,
                  client_id |-> owner, orphan_since |-> x]
      BY <1>2
    <2>2. u = [half EXCEPT !.orphan_since = since]
      BY <1>3
    <2> HIDE DEF half
    <2> QED BY <2>1, <2>2
  <1>5. /\ IsService(u) /\ u.orphan_since = since
        /\ u.id = i /\ u.generation = g /\ u.props = ps /\ u.ttl = t
    BY <1>1, <1>4, ServiceOf
  <1>6. owner = c => u = [s EXCEPT !.orphan_since = since]
    BY <1>2, <1>4
  <1> QED BY <1>5, <1>6 DEF u, i, g, ps, t, c

LEMMA PublishGot ==
    ASSUME HInv, RInv, Ready("publish")
    PROVE  /\ ta.req[1] \in Nat /\ request["service-id"] = json_integer(ta.req[1])
           /\ ta.req[1] \in Uint63s["service-id"]
           /\ ta.req[2] \in Nat /\ request["generation"] = json_integer(ta.req[2])
           /\ IsSeq(ta.req[3]) /\ ta.req[3] = json_to_props(request["service-props"])
           /\ IsObject(request["service-props"]) /\ IsProps(request["service-props"])
           /\ ta.req[4] \in Nat /\ request["ttl"] = json_integer(ta.req[4])
           /\ client_id \in Nat
  <1> DEFINE a == Uint63("service-id")
             b == Uint63("generation")
             c == Field("service-props", "props")
             d == Uint63("ttl")
  <1>1. \A i \in DOMAIN publish_ta.req_fields : Got(request, publish_ta.req_fields[i], ta.req[i])
    BY Commands, Handled DEF Ready
  <1>2. publish_ta.req_fields = <<a, b, c, d>>
    BY DEF publish_ta, Type
  <1>3. /\ a.name = "service-id" /\ b.name = "generation" /\ c.name = "service-props" /\ d.name = "ttl"
        /\ a.type = "uint63" /\ b.type = "uint63" /\ c.type = "props" /\ d.type = "uint63"
    BY DEF Uint63, Field
  <1> HIDE DEF a, b, c, d
  <1>4. /\ Got(request, a, ta.req[1]) /\ Got(request, b, ta.req[2])
        /\ Got(request, c, ta.req[3]) /\ Got(request, d, ta.req[4])
    BY <1>1, <1>2
  <1>5. client_id \in Nat
    BY DEF Ready, RInv
  <1> QED BY <1>3, <1>4, <1>5 DEF Got

\* What client_publish() stores, and whether it is another service object.
NewService ==
    [id |-> ta.req[1], generation |-> ta.req[2], props |-> ta.req[3],
     ttl |-> ta.req[4], client_id |-> client_id, orphan_since |-> Nil]

Stored ==
    IF service # Nil /\ NewService.generation = service.generation
    THEN [service EXCEPT !.client_id = client_id, !.orphan_since = Nil]
    ELSE NewService

LEMMA StoredAsPublished ==
    ASSUME HInv, RInv, SInv, Ready("publish"), Granted(NewService)
    PROVE  Published(request, Stored) /\ Stored.id \in Uint63s["service-id"]
  <1> DEFINE new == NewService
  <1>1. /\ IsService(new)
        /\ new.id = ta.req[1] /\ new.generation = ta.req[2] /\ new.props = ta.req[3]
        /\ new.ttl = ta.req[4]
    BY PublishGot, ServiceOf DEF NewService
  <1> HIDE DEF new
  <1>2. CASE service # Nil /\ new.generation = service.generation
    <2>1. Stored = HandedOver(service, client_id, Nil)
      BY <1>2 DEF Stored, HandedOver, new
    <2>2. IsService(service) /\ service.id \in Uint63s["service-id"]
      BY <1>2 DEF SInv
    <2>3. /\ IsService(Stored) /\ Stored.id = service.id /\ Stored.generation = service.generation
          /\ Stored.props = service.props /\ Stored.ttl = service.ttl
      <3> DEFINE u == HandedOver(service, client_id, Nil)
      <3>1. client_id \in Nat
        BY PublishGot
      <3>2. /\ IsService(u) /\ u.id = service.id /\ u.generation = service.generation
            /\ u.props = service.props /\ u.ttl = service.ttl
        BY <2>2, <3>1, ServiceHandedOver
      <3>3. Stored = u
        BY <2>1
      <3> HIDE DEF u
      <3> QED BY <3>2, <3>3
    <2>4. props_equal(new.props, service.props) /\ new.ttl = service.ttl
      <3>1. ~(new.generation > service.generation)
        BY <1>1, <1>2, <2>2 DEF IsService
      <3> QED BY <1>2, <3>1 DEF Granted, new
    <2>5. new.id = service.id
      <3>1. \E x : Uint63s["service-id"] = {x}
        BY OneOfEachAssumption, FS_Singleton
      <3> QED BY <1>1, <2>2, <3>1, PublishGot
    <2> QED BY <1>1, <1>2, <2>2, <2>3, <2>4, <2>5, PublishGot DEF Published
  <1>3. CASE ~(service # Nil /\ new.generation = service.generation)
    <2>1. Stored = new
      BY <1>3 DEF Stored, new
    <2>2. props_equal(new.props, new.props)
      BY EqualToItself
    <2> QED BY <1>1, <2>1, <2>2, PublishGot DEF Published
  <1> QED BY <1>2, <1>3

LEMMA NextSInv == HInv /\ RInv /\ SInv /\ [ProtoTaNext]_taVars => SInv'
  <1> SUFFICES ASSUME HInv, RInv, SInv, [ProtoTaNext]_taVars PROVE SInv'
    OBVIOUS
  <1>a. ASSUME UNCHANGED <<service, publish>> PROVE SInv'
    BY <1>a DEF SInv
  <1>n. ASSUME service' = Nil, publish' = Nil PROVE SInv'
    BY <1>n DEF SInv
  <1>1. CASE handle_publish
    <2>1. CASE UNCHANGED <<service, publish>>
      BY <1>a, <2>1
    <2>2. CASE Granted(NewService) /\ service' = Stored /\ publish' = request
      <3>1. Ready("publish")
        BY <1>1 DEF handle_publish
      <3>2. Published(request, Stored) /\ Stored.id \in Uint63s["service-id"]
        BY <2>2, <3>1, StoredAsPublished
      <3> QED BY <2>2, <3>2 DEF SInv, Published
    <2> QED BY <1>1, <2>1, <2>2 DEF handle_publish, NewService, Stored
  <1>2. CASE handle_unpublish
    BY <1>2, <1>a, <1>n DEF handle_unpublish
  <1>3. CASE term \/ handle_req_err
    <2>d. Disconnected
      BY <1>3 DEF term, handle_req_err
    <2>1. CASE service' = service
      BY <1>a, <2>1, <2>d DEF Disconnected
    <2>2. CASE service # Nil /\ service' = [service EXCEPT !.orphan_since = Now]
      <3>1. IsService(service)
        BY <2>2 DEF SInv
      <3>2. /\ IsService(service') /\ service'.id = service.id
            /\ service'.generation = service.generation /\ service'.props = service.props
            /\ service'.ttl = service.ttl
        <4>1. service.client_id \in Nat
          BY <3>1 DEF IsService
        <4> DEFINE u == HandedOver(service, service.client_id, Now)
        <4>2. /\ IsService(u) /\ u.id = service.id /\ u.generation = service.generation
              /\ u.props = service.props /\ u.ttl = service.ttl
              /\ u = [service EXCEPT !.orphan_since = Now]
          BY <3>1, <4>1, ServiceHandedOver
        <4> HIDE DEF u
        <4> QED BY <2>2, <4>2
      <3>3. publish' = publish
        BY <2>d DEF Disconnected
      <3> QED BY <2>2, <3>2, <3>3 DEF SInv, Published
    <2> QED BY <2>1, <2>2, <2>d DEF Disconnected
  <1>4. CASE orphan_timeout_cb
    BY <1>4, <1>n DEF orphan_timeout_cb
  <1>5. CASE \/ ClientRequest \/ proto_ta_req \/ proto_ta_destroy \/ handle_hello \/ handle_no_hello
             \/ handle_subscribe \/ handle_unsubscribe
    BY <1>5, <1>a DEF ClientRequest, proto_ta_req, proto_ta_destroy, handle_hello, handle_no_hello,
                      handle_subscribe, handle_unsubscribe
  <1>6. CASE handle_services \/ handle_subscriptions \/ handle_clients \/ handle_ping
    BY <1>6, <1>a DEF handle_services, handle_subscriptions, handle_clients, handle_ping
  <1>7. CASE UNCHANGED taVars
    BY <1>7, <1>a DEF taVars
  <1> QED BY <1>1, <1>2, <1>3, <1>4, <1>5, <1>6, <1>7 DEF ProtoTaNext
-----------------------------------------------------------------------------
(* What is told of the service.                                            *)

AllFine(msgs, s) == \E S : msgs \in Seq(S) /\ \A m \in S : Fine(m, s)

\* All responses are well-formed, and those that tell of a service tell of the
\* one in the database, unless it has just left it.
OInv == \E s : AllFine(out, s) /\ (publish # Nil => s = service)

LEMMA FineSeqs ==
    ASSUME NEW s
    PROVE  /\ AllFine(<<>>, s)
           /\ \A m : Fine(m, s) => AllFine(<<m>>, s)
           /\ \A m : Plain(m) => Fine(m, s)
           /\ \A a, b : AllFine(a, s) /\ AllFine(b, s) => AllFine(a \o b, s)
           /\ \A msgs : AllFine(msgs, s) => \A i \in DOMAIN msgs : Fine(msgs[i], s)
  <1>1. AllFine(<<>>, s)
    <2> DEFINE S == {}
    <2>1. <<>> \in Seq(S) /\ \A m \in S : Fine(m, s)
      OBVIOUS
    <2> HIDE DEF S
    <2> QED BY <2>1 DEF AllFine
  <1>2. ASSUME NEW m, Fine(m, s) PROVE AllFine(<<m>>, s)
    <2> DEFINE S == {m}
    <2>1. <<m>> \in Seq(S) /\ \A x \in S : Fine(x, s)
      BY <1>2
    <2> HIDE DEF S
    <2> QED BY <2>1 DEF AllFine
  <1>3. \A m : Plain(m) => Fine(m, s)
    BY DEF Plain, Fine
  <1>4. ASSUME NEW a, NEW b, AllFine(a, s), AllFine(b, s) PROVE AllFine(a \o b, s)
    <2>1. PICK S : a \in Seq(S) /\ \A m \in S : Fine(m, s)
      BY <1>4 DEF AllFine
    <2>2. PICK T : b \in Seq(T) /\ \A m \in T : Fine(m, s)
      BY <1>4 DEF AllFine
    <2> DEFINE U == S \cup T
    <2>3. S \subseteq U /\ T \subseteq U /\ \A m \in U : Fine(m, s)
      BY <2>1, <2>2
    <2> HIDE DEF U
    <2>4. a \in Seq(U) /\ b \in Seq(U)
      BY <2>1, <2>2, <2>3
    <2>5. a \o b \in Seq(U)
      BY <2>4
    <2> QED BY <2>3, <2>5 DEF AllFine
  <1>5. ASSUME NEW msgs, AllFine(msgs, s), NEW i \in DOMAIN msgs PROVE Fine(msgs[i], s)
    <2>1. PICK S : msgs \in Seq(S) /\ \A m \in S : Fine(m, s)
      BY <1>5 DEF AllFine
    <2> QED BY <2>1
  <1> QED BY <1>1, <1>2, <1>3, <1>4, <1>5

LEMMA InitOInv == ProtoTaInit => OInv
  BY FineSeqs DEF ProtoTaInit, OInv

LEMMA OutFine ==
    ASSUME NEW s, AllFine(out', s), publish' # Nil => s = service'
    PROVE  OInv'
  BY DEF OInv

LEMMA MatchedFine ==
    ASSUME RInv, NEW s, IsService(s), NEW match_type \in DOMAIN MatchTypes
    PROVE  AllFine(Matched(s, match_type), s)
  <1>1. CASE sub_ta = Nil
    BY <1>1, FineSeqs DEF Matched
  <1>2. CASE sub_ta # Nil
    <2>1. Fine(notify_sub_match(sub_ta, s, match_type), s)
      BY <1>2, MatchNotified DEF RInv
    <2> QED BY <1>2, <2>1, FineSeqs DEF Matched
  <1> QED BY <1>1, <1>2

LEMMA Notified ==
    /\ "sub_match_type_appeared" \in DOMAIN MatchTypes
    /\ "sub_match_type_modified" \in DOMAIN MatchTypes
    /\ "sub_match_type_disappeared" \in DOMAIN MatchTypes
  BY DEF MatchTypes

LEMMA NotHello ==
    /\ publish_ta # hello_ta /\ unpublish_ta # hello_ta /\ subscribe_ta # hello_ta
    /\ unsubscribe_ta # hello_ta /\ ping_ta # hello_ta /\ services_ta # hello_ta
    /\ subscriptions_ta # hello_ta /\ clients_ta # hello_ta
  BY Commands

LEMMA FailFine ==
    ASSUME ta.type \in proto_ta_types, NEW reason, Fail(reason)
    PROVE  OInv'
  <1>1. Plain(fail(ta, reason)) /\ out' = <<fail(ta, reason)>>
    BY PlainResponses DEF Fail
  <1>2. AllFine(out', service')
    BY <1>1, FineSeqs
  <1> QED BY <1>2, OutFine

\* A response that ends a transaction, after what is said before.
LEMMA CompleteFine ==
    ASSUME ta.type \in proto_ta_types, ta.type # hello_ta, NEW s, NEW msgs, AllFine(msgs, s)
    PROVE  AllFine(msgs \o <<complete(ta, <<>>)>>, s)
  <1>1. Fine(complete(ta, <<>>), s)
    BY PlainResponses, FineSeqs
  <1>2. AllFine(<<complete(ta, <<>>)>>, s)
    BY <1>1, FineSeqs
  <1> QED BY <1>2, FineSeqs

LEMMA ListFine ==
    ASSUME ta.type \in proto_ta_types, ta.type # hello_ta, NEW entries, AllFine(entries, service),
           List(entries), service' = service
    PROVE  OInv'
  <1>1. Fine(accept(ta), service)
    BY PlainResponses, FineSeqs
  <1>2. AllFine(<<accept(ta)>>, service)
    BY <1>1, FineSeqs
  <1>3. AllFine(<<accept(ta)>> \o entries, service)
    BY <1>2, FineSeqs
  <1>4. AllFine(<<accept(ta)>> \o entries \o <<complete(ta, <<>>)>>, service)
    BY <1>3, CompleteFine
  <1>5. out' = <<accept(ta)>> \o entries \o <<complete(ta, <<>>)>>
    BY DEF List
  <1>6. AllFine(out', service)
    BY <1>4, <1>5
  <1> QED BY <1>6, OutFine
LEMMA PublishOInv ==
    ASSUME HInv, RInv, SInv, handle_publish
    PROVE  OInv'
  <1>1. Ready("publish") /\ ta.type = publish_ta /\ publish_ta \in proto_ta_types
    BY Commands, Handled DEF handle_publish, Ready
  <1>2. CASE /\ Granted(NewService) /\ service' = Stored
             /\ out' = (IF Stored = service THEN <<>>
                        ELSE Matched(Stored, IF service = Nil THEN "sub_match_type_appeared"
                                             ELSE "sub_match_type_modified"))
                       \o <<complete(ta, <<>>)>>
    <2>1. IsService(Stored)
      BY <1>1, <1>2, StoredAsPublished DEF Published
    <2> DEFINE told == IF Stored = service THEN <<>>
                       ELSE Matched(Stored, IF service = Nil THEN "sub_match_type_appeared"
                                            ELSE "sub_match_type_modified")
    <2>2. AllFine(told, Stored)
      BY <2>1, MatchedFine, Notified, FineSeqs
    <2>3. out' = told \o <<complete(ta, <<>>)>>
      BY <1>2
    <2> HIDE DEF told
    <2>4. AllFine(told \o <<complete(ta, <<>>)>>, Stored)
      BY <1>1, <2>2, CompleteFine, NotHello
    <2> HIDE DEF Stored
    <2>5. AllFine(out', service')
      BY <1>2, <2>3, <2>4
    <2> QED BY <2>5, OutFine
  <1>3. CASE \E reason : Fail(reason)
    BY <1>1, <1>3, FailFine
  <1> QED BY <1>2, <1>3 DEF handle_publish, NewService, Stored

LEMMA UnpublishOInv ==
    ASSUME HInv, RInv, SInv, handle_unpublish
    PROVE  OInv'
  <1> DEFINE owned == [service EXCEPT !.client_id = client_id, !.orphan_since = Nil]
             told == IF owned = service THEN <<>> ELSE Matched(owned, "sub_match_type_modified")
             gone == Matched(owned, "sub_match_type_disappeared")
  <1>1. ta.type = unpublish_ta /\ unpublish_ta \in proto_ta_types
    BY Commands, Handled DEF handle_unpublish, Ready
  <1>2. CASE /\ service # Nil /\ publish' = Nil
             /\ out' = told \o gone \o <<complete(ta, <<>>)>>
    <2>1. IsService(service) /\ client_id \in Nat
      BY <1>2 DEF SInv, RInv, handle_unpublish, Ready
    <2>2. IsService(owned)
      <3>1. IsService(HandedOver(service, client_id, Nil))
        BY <2>1, ServiceHandedOver
      <3> QED BY <3>1 DEF HandedOver
    <2> HIDE DEF owned
    <2>3. AllFine(told, owned) /\ AllFine(gone, owned)
      BY <2>2, MatchedFine, Notified, FineSeqs
    <2> HIDE DEF told, gone
    <2>4. AllFine(told \o gone, owned)
      BY <2>3, FineSeqs
    <2>5. AllFine(told \o gone \o <<complete(ta, <<>>)>>, owned)
      BY <1>1, <2>4, CompleteFine, NotHello
    <2>6. AllFine(out', owned)
      BY <1>2, <2>5
    <2> QED BY <1>2, <2>6, OutFine
  <1>3. CASE Fail("non-existent-service-id")
    BY <1>1, <1>3, FailFine
  <1> QED BY <1>2, <1>3 DEF handle_unpublish

LEMMA SubscribeOInv ==
    ASSUME HInv, RInv, SInv, handle_subscribe
    PROVE  OInv'
  <1> DEFINE found == IF service = Nil THEN <<>>
                      ELSE <<notify_sub_match(ta, service, "sub_match_type_appeared")>>
  <1>1. ta.type = subscribe_ta /\ subscribe_ta \in proto_ta_types
    BY Commands, Handled DEF handle_subscribe, Ready
  <1>2. CASE out' = <<accept(ta)>> \o found
    <2>1. service' = service
      BY DEF handle_subscribe
    <2>2. AllFine(found, service)
      <3>1. CASE service = Nil
        BY <3>1, FineSeqs
      <3>2. CASE service # Nil
        <4>1. Fine(notify_sub_match(ta, service, "sub_match_type_appeared"), service)
          BY <1>1, <3>2, MatchNotified, Notified DEF SInv
        <4> QED BY <3>2, <4>1, FineSeqs
      <3> QED BY <3>1, <3>2
    <2>3. Fine(accept(ta), service)
      BY <1>1, PlainResponses, FineSeqs
    <2>4. AllFine(<<accept(ta)>>, service)
      BY <2>3, FineSeqs
    <2> HIDE DEF found
    <2>5. AllFine(<<accept(ta)>> \o found, service)
      BY <2>2, <2>4, FineSeqs
    <2>6. AllFine(out', service)
      BY <1>2, <2>5
    <2> QED BY <2>1, <2>6, OutFine
  <1>3. CASE Fail("invalid-filter-syntax") \/ Fail("subscription-id-exists")
    BY <1>1, <1>3, FailFine
  <1> QED BY <1>2, <1>3 DEF handle_subscribe

LEMMA UnsubscribeOInv ==
    ASSUME HInv, RInv, handle_unsubscribe
    PROVE  OInv'
  <1>1. ta.type = unsubscribe_ta /\ unsubscribe_ta \in proto_ta_types
    BY Commands, Handled DEF handle_unsubscribe, Ready
  <1>2. CASE sub_ta # Nil /\ out' = <<complete(ta, <<>>), complete(sub_ta, <<>>)>>
    <2> DEFINE a == complete(ta, <<>>)
               b == complete(sub_ta, <<>>)
               S == {a, b}
    <2>1. sub_ta.type = subscribe_ta /\ subscribe_ta \in proto_ta_types
      BY <1>2, Commands DEF RInv
    <2>2. Plain(a) /\ Plain(b)
      BY <1>1, <2>1, NotHello, PlainResponses
    <2>3. Fine(a, service') /\ Fine(b, service')
      BY <2>2, FineSeqs
    <2> HIDE DEF a, b
    <2>4. <<a, b>> \in Seq(S) /\ \A m \in S : Fine(m, service')
      BY <2>3
    <2> HIDE DEF S
    <2>5. AllFine(out', service')
      BY <1>2, <2>4 DEF AllFine, a, b
    <2> QED BY <2>5, OutFine
  <1>3. CASE Fail("non-existent-subscription-id") \/ Fail("permission-denied")
    BY <1>1, <1>3, FailFine
  <1> QED BY <1>2, <1>3 DEF handle_unsubscribe

LEMMA ListOInv ==
    ASSUME HInv, RInv, SInv, handle_services \/ handle_subscriptions \/ handle_clients
    PROVE  OInv'
  <1>s. service' = service
    BY DEF handle_services, handle_subscriptions, handle_clients
  <1>c. client_id \in Nat
    BY DEF RInv, handle_services, handle_subscriptions, handle_clients, Ready
  <1>1. CASE handle_services
    <2> DEFINE entries == IF service = Nil THEN <<>> ELSE <<notify(ta, service_args(service))>>
    <2>1. ta.type = services_ta /\ services_ta \in proto_ta_types
      BY <1>1, Commands, Handled DEF handle_services, Ready
    <2>2. AllFine(entries, service)
      <3>1. CASE service = Nil
        BY <3>1, FineSeqs
      <3>2. CASE service # Nil
        <4>1. Fine(notify(ta, service_args(service)), service)
          BY <2>1, <3>2, ServiceNotified DEF SInv
        <4> QED BY <3>2, <4>1, FineSeqs
      <3> QED BY <3>1, <3>2
    <2>3. Fail("invalid-filter-syntax") \/ List(entries)
      BY <1>1 DEF handle_services
    <2> HIDE DEF entries
    <2> QED BY <1>s, <2>1, <2>2, <2>3, FailFine, ListFine, NotHello
  <1>2. CASE handle_subscriptions
    <2> DEFINE entries == IF sub_ta = Nil THEN <<>> ELSE <<notify(ta, sub_args(sub_ta, client_id))>>
    <2>1. ta.type = subscriptions_ta /\ subscriptions_ta \in proto_ta_types
      BY <1>2, Commands, Handled DEF handle_subscriptions, Ready
    <2>2. AllFine(entries, service)
      <3>1. CASE sub_ta = Nil
        BY <3>1, FineSeqs
      <3>2. CASE sub_ta # Nil
        <4>1. Plain(notify(ta, sub_args(sub_ta, client_id)))
          BY <1>c, <2>1, <3>2, SubscriptionNotified DEF RInv
        <4> QED BY <3>2, <4>1, FineSeqs
      <3> QED BY <3>1, <3>2
    <2>3. List(entries)
      BY <1>2 DEF handle_subscriptions
    <2> HIDE DEF entries
    <2> QED BY <1>s, <2>1, <2>2, <2>3, ListFine, NotHello
  <1>3. CASE handle_clients
    <2> DEFINE entry == notify(ta, <<Int64(client_id), <<"str", Address>>, Int64(Now)>>)
    <2>1. ta.type = clients_ta /\ clients_ta \in proto_ta_types
      BY <1>3, Commands, Handled DEF handle_clients, Ready
    <2>2. Plain(entry)
      BY <1>c, <2>1, ClientNotified
    <2>3. List(<<entry>>)
      BY <1>3 DEF handle_clients
    <2> HIDE DEF entry
    <2>4. AllFine(<<entry>>, service)
      BY <2>2, FineSeqs
    <2> QED BY <1>s, <2>1, <2>3, <2>4, ListFine, NotHello
  <1> QED BY <1>1, <1>2, <1>3
LEMMA NextOInv == HInv /\ RInv /\ SInv /\ OInv /\ [ProtoTaNext]_taVars => OInv'
  <1> SUFFICES ASSUME HInv, RInv, SInv, OInv, [ProtoTaNext]_taVars PROVE OInv'
    OBVIOUS
  <1>0. ASSUME out' = <<>> PROVE OInv'
    <2>1. AllFine(out', service')
      BY <1>0, FineSeqs
    <2> QED BY <2>1, OutFine
  <1>p. ASSUME NEW m, Plain(m), out' = <<m>> PROVE OInv'
    <2>1. AllFine(out', service')
      BY <1>p, FineSeqs
    <2> QED BY <2>1, OutFine
  <1>1. CASE ClientRequest \/ proto_ta_req \/ proto_ta_destroy \/ term \/ handle_req_err
    BY <1>1, <1>0 DEF ClientRequest, proto_ta_req, proto_ta_destroy, term, handle_req_err, Disconnected
  <1>2. CASE handle_hello
    <2>1. ta.type = hello_ta /\ hello_ta \in proto_ta_types
      BY <1>2, Commands, Handled DEF handle_hello
    <2>2. CASE Complete(<<Int64(PROTO_VERSION)>>)
      <3>1. Plain(complete(ta, <<Int64(PROTO_VERSION)>>))
        BY <2>1, PlainResponses
      <3> QED BY <1>p, <2>2, <3>1 DEF Complete
    <2>3. CASE \E reason : Fail(reason)
      BY <2>1, <2>3, FailFine
    <2> QED BY <1>2, <2>2, <2>3 DEF handle_hello
  <1>3. CASE handle_no_hello
    <2>1. PICK t \in proto_ta_types : Handling(t.cmd)
      BY <1>3 DEF handle_no_hello
    <2>2. ta.type \in proto_ta_types
      BY <2>1, Handled
    <2> QED BY <1>3, <2>2, FailFine DEF handle_no_hello
  <1>4. CASE handle_publish
    BY <1>4, PublishOInv
  <1>5. CASE handle_unpublish
    BY <1>5, UnpublishOInv
  <1>6. CASE handle_subscribe
    BY <1>6, SubscribeOInv
  <1>7. CASE handle_unsubscribe
    BY <1>7, UnsubscribeOInv
  <1>8. CASE handle_services \/ handle_subscriptions \/ handle_clients
    BY <1>8, ListOInv
  <1>9. CASE handle_ping
    <2>1. ta.type = ping_ta /\ ping_ta \in proto_ta_types
      BY <1>9, Commands, Handled DEF handle_ping, Ready
    <2>2. Plain(complete(ta, <<>>)) /\ out' = <<complete(ta, <<>>)>>
      BY <1>9, <2>1, NotHello, PlainResponses DEF handle_ping, Complete
    <2> QED BY <1>p, <2>2
  <1>10. CASE orphan_timeout_cb
    <2>1. /\ service # Nil /\ publish' = Nil
          /\ out' = Matched(service, "sub_match_type_disappeared")
      BY <1>10 DEF orphan_timeout_cb
    <2>2. AllFine(Matched(service, "sub_match_type_disappeared"), service)
      BY <2>1, MatchedFine, Notified DEF SInv
    <2>3. AllFine(out', service)
      BY <2>1, <2>2
    <2> QED BY <2>1, <2>3, OutFine
  <1>11. CASE UNCHANGED taVars
    BY <1>11 DEF taVars, OInv
  <1> QED BY <1>1, <1>2, <1>3, <1>4, <1>5, <1>6, <1>7, <1>8, <1>9, <1>10, <1>11 DEF ProtoTaNext

\* Every response has the fields of its kind and command, no other, and each
\* of its type: the arguments the handlers pass by position always fit.
THEOREM ResponsesFitTheirFields == ProtoTaSpec => []ResponsesWellFormed
  <1>1. OInv => ResponsesWellFormed
    BY FineSeqs DEF OInv, Fine, ResponsesWellFormed
  <1> QED BY <1>1, InitHInv, NextHInv, InitRInv, NextRInv, InitSInv, NextSInv, InitOInv, NextOInv,
             PTL DEF ProtoTaSpec

\* A reader is told of a service what the latest granted publish request said
\* of it, down to the properties, also when that request was granted because
\* nothing in it was new.
THEOREM ReadersAreToldWhatIsPublished == ProtoTaSpec => []PublishedReachesReaders
  <1>1. ASSUME SInv, OInv PROVE PublishedReachesReaders
    <2> SUFFICES ASSUME NEW i \in DOMAIN out, "generation" \in DOMAIN out[i], publish # Nil
                 PROVE  LET published == out[i]["service-props"]
                        IN  /\ \A n \in {"service-id", "generation", "ttl"} : out[i][n] = publish[n]
                            /\ ("orphan-since" \in DOMAIN out[i]) = (service.orphan_since # Nil)
                            /\ NoPairTwice(published) /\ NoPairTwice(publish["service-props"]) =>
                                  \A p \in Pairs(published) \cup Pairs(publish["service-props"]) :
                                      Occurs(published, p[1], p[2]) =
                                          Occurs(publish["service-props"], p[1], p[2])
      BY DEF PublishedReachesReaders
    <2> DEFINE m == out[i]
               published == m["service-props"]
               wanted == publish["service-props"]
    <2>1. Tells(m, service)
      BY <1>1, FineSeqs DEF OInv, Fine
    <2>2. Published(publish, service)
      BY <1>1 DEF SInv
    <2>3. \A n \in {"service-id", "generation", "ttl"} : m[n] = publish[n]
      BY <2>1, <2>2 DEF Tells, Published
    <2>4. ("orphan-since" \in DOMAIN m) = (service.orphan_since # Nil)
      BY <2>1 DEF Tells
    <2>5. ASSUME NoPairTwice(published), NoPairTwice(wanted)
          PROVE  \A p \in Pairs(published) \cup Pairs(wanted) :
                    Occurs(published, p[1], p[2]) = Occurs(wanted, p[1], p[2])
      <3>1. published = props_to_json(service.props)
        BY <2>1 DEF Tells
      <3>2. /\ IsObject(wanted) /\ IsProps(wanted) /\ IsSeq(service.props)
            /\ props_equal(json_to_props(wanted), service.props)
        BY <2>2 DEF Published, IsService
      <3> HIDE DEF published, wanted
      <3>3. Pairs(published) = Pairs(wanted)
        BY <2>5, <3>1, <3>2, EqualProps
      <3> QED BY <2>5, <3>3, SamePairsOccur
    <2> QED BY <2>3, <2>4, <2>5
  <1> QED BY <1>1, InitHInv, NextHInv, InitRInv, NextRInv, InitSInv, NextSInv, InitOInv, NextOInv,
             PTL DEF ProtoTaSpec
=============================================================================
