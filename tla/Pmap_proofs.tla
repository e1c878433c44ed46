---------------------------- MODULE Pmap_proofs -----------------------------
(***************************************************************************)
(* The list of entries of util/pmap.c is a map, for every set of keys and  *)
(* values and every length.  The inductive invariant adds to the types     *)
(* that no key is in the list twice.                                       *)
(***************************************************************************)
EXTENDS Pmap, TLAPS

Unique(p) ==
    \A i, j \in 0..p.len - 1 : p.elems[i].key = p.elems[j].key => i = j

MInv == PmapTypeOK /\ Unique(entries)

\* ValueOf() for any list of entries.
Lookup(p, k) ==
    IF \E i \in 0..p.len - 1 : p.elems[i].key = k
    THEN (CHOOSE e \in {p.elems[i] : i \in 0..p.len - 1} : e.key = k).value
    ELSE Nil

-----------------------------------------------------------------------------
(* The list.                                                               *)

\* What an append leaves: the old elements, then the new one.
LEMMA AppendElem ==
    ASSUME NEW E, NEW p, IsPlist(p, E), NEW e \in E
    PROVE  LET q == plist_append(p, e)
           IN  /\ IsPlist(q, E)
               /\ q.len = p.len + 1
               /\ q.elems[p.len] = e
               /\ \A i \in 0..p.len - 1 : q.elems[i] = p.elems[i]
  <1> DEFINE a == plist_assure_capacity(p, p.len + 1)
             q == plist_append(p, e)
  <1>p. /\ DOMAIN p = {"elems", "capacity", "len"}
        /\ p.capacity \in Nat /\ p.len \in Nat /\ p.len <= p.capacity
        /\ p.elems \in [0..p.capacity - 1 -> E \cup {Junk}]
        /\ \A i \in 0..p.len - 1 : p.elems[i] \in E
    BY DEF IsPlist
  <1>1. /\ DOMAIN a = {"elems", "capacity", "len"}
        /\ a.capacity \in Nat /\ a.capacity > p.len /\ a.len = p.len
        /\ a.elems \in [0..a.capacity - 1 -> E \cup {Junk}]
        /\ \A i \in 0..p.len - 1 : a.elems[i] = p.elems[i]
    <2>1. CASE p.capacity < p.len + 1
      <3> DEFINE n == CAPACITY_ASK_FACTOR * (p.len + 1)
      <3>n. n \in Nat /\ n > p.len
        BY <1>p DEF CAPACITY_ASK_FACTOR
      <3>1. a = [p EXCEPT !.capacity = n, !.elems = ut_realloc(@, n)]
        BY <2>1 DEF plist_assure_capacity
      <3> HIDE DEF n
      <3>2. /\ DOMAIN a = {"elems", "capacity", "len"}
            /\ a.capacity = n /\ a.len = p.len /\ a.elems = ut_realloc(p.elems, n)
        BY <1>p, <3>1
      <3>3. /\ a.elems \in [0..n - 1 -> E \cup {Junk}]
            /\ \A i \in 0..p.len - 1 : a.elems[i] = p.elems[i]
        <4>1. DOMAIN p.elems = 0..p.capacity - 1
          BY <1>p
        <4>2. \A i \in 0..p.len - 1 : i \in DOMAIN p.elems /\ i \in 0..n - 1
          BY <1>p, <3>n, <4>1
        <4>3. a.elems = [i \in 0..n - 1 |-> IF i \in DOMAIN p.elems THEN p.elems[i] ELSE Junk]
          BY <3>2 DEF ut_realloc
        <4>4. \A i \in DOMAIN p.elems : p.elems[i] \in E \cup {Junk}
          BY <1>p, <4>1
        <4> HIDE DEF a
        <4> QED BY <4>2, <4>3, <4>4
      <3> QED BY <3>n, <3>2, <3>3
    <2>2. CASE ~(p.capacity < p.len + 1)
      BY <1>p, <2>2 DEF plist_assure_capacity
    <2> QED BY <2>1, <2>2
  <1> HIDE DEF a
  <1>2. /\ DOMAIN q = {"elems", "capacity", "len"}
        /\ q.capacity = a.capacity /\ q.len = p.len + 1
        /\ q.elems = [a.elems EXCEPT ![p.len] = e]
    BY <1>p, <1>1 DEF plist_append, a
  <1> HIDE DEF q
  <1>3. p.len \in 0..a.capacity - 1
    BY <1>p, <1>1
  <1>4. /\ q.elems \in [0..a.capacity - 1 -> E \cup {Junk}]
        /\ q.elems[p.len] = e
        /\ \A i \in 0..p.len - 1 : q.elems[i] = p.elems[i]
    BY <1>p, <1>1, <1>2, <1>3
  <1>5. \A i \in 0..q.len - 1 : q.elems[i] \in E
    BY <1>p, <1>2, <1>4
  <1>6. q.len \in 0..q.capacity
    BY <1>p, <1>1, <1>2
  <1> QED BY <1>1, <1>2, <1>4, <1>5, <1>6 DEF IsPlist, q

\* What a deletion leaves: the elements in front, and those behind moved down.
LEMMA Delete ==
    ASSUME NEW E, NEW p, IsPlist(p, E), NEW d \in 0..p.len - 1
    PROVE  LET q == plist_del(p, d)
           IN  /\ IsPlist(q, E)
               /\ q.len = p.len - 1
               /\ \A i \in 0..q.len - 1 : q.elems[i] = p.elems[IF d <= i THEN i + 1 ELSE i]
  <1> DEFINE q == plist_del(p, d)
             f == [i \in 0..p.capacity - 1 |-> IF d <= i /\ i < p.len - 1
                                               THEN p.elems[i + 1] ELSE p.elems[i]]
  <1>p. /\ DOMAIN p = {"elems", "capacity", "len"}
        /\ p.capacity \in Nat /\ p.len \in Nat /\ p.len <= p.capacity
        /\ p.elems \in [0..p.capacity - 1 -> E \cup {Junk}]
        /\ \A i \in 0..p.len - 1 : p.elems[i] \in E
    BY DEF IsPlist
  <1>0. q = [p EXCEPT !.elems = f, !.len = p.len - 1]
    BY <1>p DEF plist_del
  <1> HIDE DEF f
  <1>1. /\ DOMAIN q = {"elems", "capacity", "len"}
        /\ q.capacity = p.capacity /\ q.len = p.len - 1
        /\ q.elems = f
    BY <1>p, <1>0
  <1> HIDE DEF q
  <1>2. d \in Nat /\ d < p.len
    BY <1>p
  <1>3. q.elems \in [0..p.capacity - 1 -> E \cup {Junk}]
    BY <1>p, <1>1, <1>2 DEF f
  <1>4. \A i \in 0..q.len - 1 : q.elems[i] = p.elems[IF d <= i THEN i + 1 ELSE i]
    BY <1>p, <1>1, <1>2 DEF f
  <1>5. \A i \in 0..q.len - 1 : q.elems[i] \in E
    BY <1>p, <1>1, <1>2, <1>4
  <1>6. q.len \in 0..q.capacity
    BY <1>p, <1>1, <1>2
  <1> QED BY <1>p, <1>1, <1>3, <1>4, <1>5, <1>6 DEF IsPlist, q

\* A search finds the one element that equals what is looked for.
LEMMA IndexOf ==
    ASSUME NEW p, p.len \in Nat, NEW E,
           \A i, j \in 0..p.len - 1 : p.elems[i] \in E /\ p.elems[j] \in E => i = j
    PROVE  /\ \A i \in 0..p.len - 1 : p.elems[i] \in E => plist_index_of(p, E) = i
           /\ (\A i \in 0..p.len - 1 : p.elems[i] \notin E) => plist_index_of(p, E) = -1
  <1> DEFINE P(i) == p.elems[i] \in E /\ \A j \in 0..i - 1 : p.elems[j] \notin E
             c == CHOOSE i \in 0..p.len - 1 : P(i)
  <1>1. ASSUME NEW i \in 0..p.len - 1, p.elems[i] \in E
        PROVE  plist_index_of(p, E) = i
    <2>1. plist_index_of(p, E) = c
      BY <1>1 DEF plist_index_of
    <2>2. P(i)
      <3> SUFFICES ASSUME NEW j \in 0..i - 1, p.elems[j] \in E PROVE FALSE
        BY <1>1
      <3>1. j \in 0..p.len - 1 /\ j # i
        OBVIOUS
      <3> QED BY <1>1, <3>1
    <2>3. c \in 0..p.len - 1 /\ P(c)
      BY <2>2
    <2> QED BY <1>1, <2>1, <2>3
  <1>2. (\A i \in 0..p.len - 1 : p.elems[i] \notin E) => plist_index_of(p, E) = -1
    BY DEF plist_index_of
  <1> QED BY <1>1, <1>2

-----------------------------------------------------------------------------
(* The map.                                                                *)

\* The value of a key that is in the list is the one next to it.
LEMMA LookupAt ==
    ASSUME NEW p, IsPlist(p, Entry), Unique(p), NEW i \in 0..p.len - 1
    PROVE  Lookup(p, p.elems[i].key) = p.elems[i].value
  <1> DEFINE k == p.elems[i].key
             S == {p.elems[j] : j \in 0..p.len - 1}
             e == CHOOSE x \in S : x.key = k
  <1>1. e \in S /\ e.key = k
    OBVIOUS
  <1>2. PICK j \in 0..p.len - 1 : e = p.elems[j]
    BY <1>1
  <1>3. j = i
    BY <1>1, <1>2 DEF Unique
  <1> QED BY <1>2, <1>3 DEF Lookup

LEMMA LookupNone ==
    ASSUME NEW p, NEW k, \A i \in 0..p.len - 1 : p.elems[i].key # k
    PROVE  Lookup(p, k) = Nil
  BY DEF Lookup

\* index_of() returns where the key is, or -1.
LEMMA KeyIndex ==
    ASSUME MInv, NEW k \in Keys
    PROVE  /\ \A i \in 0..entries.len - 1 : entries.elems[i].key = k => index_of(k) = i
           /\ (\A i \in 0..entries.len - 1 : entries.elems[i].key # k) => index_of(k) = -1
           /\ pmap_has_key(k) <=> index_of(k) >= 0
  <1>1. IsPlist(entries, Entry) /\ Unique(entries)
    BY DEF MInv, PmapTypeOK
  <1>2. entries.len \in Nat /\ \A i \in 0..entries.len - 1 : entries.elems[i] \in Entry
    BY <1>1 DEF IsPlist
  <1>3. \A i \in 0..entries.len - 1 :
           entries.elems[i] \in elist_elem_equal(k) <=> entries.elems[i].key = k
    BY <1>2 DEF Entry, elist_elem_equal
  <1>4. \A i, j \in 0..entries.len - 1 :
           /\ entries.elems[i] \in elist_elem_equal(k)
           /\ entries.elems[j] \in elist_elem_equal(k)
           => i = j
    BY <1>1, <1>3 DEF Unique
  <1>5. /\ \A i \in 0..entries.len - 1 :
              entries.elems[i] \in elist_elem_equal(k) => index_of(k) = i
        /\ (\A i \in 0..entries.len - 1 : entries.elems[i] \notin elist_elem_equal(k))
              => index_of(k) = -1
    BY <1>2, <1>4, IndexOf DEF index_of
  <1>6. pmap_has_key(k) <=> index_of(k) >= 0
    BY DEF pmap_has_key, plist_has, index_of
  <1> QED BY <1>3, <1>5, <1>6

\* A key is in the map, at its index, or it is not.
LEMMA KeyCases ==
    ASSUME MInv, NEW k \in Keys
    PROVE  \/ /\ index_of(k) \in 0..entries.len - 1
              /\ entries.elems[index_of(k)].key = k
              /\ entries.elems[index_of(k)] \in Entry
              /\ Lookup(entries, k) = entries.elems[index_of(k)].value
           \/ /\ index_of(k) = -1
              /\ \A i \in 0..entries.len - 1 : entries.elems[i].key # k
              /\ Lookup(entries, k) = Nil
  <1>1. IsPlist(entries, Entry) /\ Unique(entries)
    BY DEF MInv, PmapTypeOK
  <1>2. ASSUME NEW i \in 0..entries.len - 1, entries.elems[i].key = k
        PROVE  /\ index_of(k) = i /\ entries.elems[i] \in Entry
               /\ Lookup(entries, k) = entries.elems[i].value
    BY <1>1, <1>2, KeyIndex, LookupAt DEF IsPlist
  <1>3. ASSUME \A i \in 0..entries.len - 1 : entries.elems[i].key # k
        PROVE  index_of(k) = -1 /\ Lookup(entries, k) = Nil
    BY <1>3, KeyIndex, LookupNone
  <1> QED BY <1>2, <1>3

\* Adding a new key adds its value and changes no other.
LEMMA AddStep ==
    ASSUME MInv, NEW k \in Keys, NEW v \in Values, pmap_add(k, v)
    PROVE  /\ MInv'
           /\ Lookup(entries, k) = Nil
           /\ \A l \in Keys : Lookup(entries', l) = IF l = k THEN v ELSE Lookup(entries, l)
           /\ \A i \in 0..entries.len - 1 : i \in 0..entries'.len - 1 /\ entries'.elems[i] = entries.elems[i]
  <1> DEFINE e == [key |-> k, value |-> v]
             p == entries
             q == plist_append(p, e)
  <1>1. IsPlist(p, Entry) /\ Unique(p) /\ e \in Entry /\ got \in Values \cup {Nil}
    BY DEF MInv, PmapTypeOK, Entry
  <1>2. /\ IsPlist(q, Entry) /\ q.len = p.len + 1 /\ q.elems[p.len] = e
        /\ \A i \in 0..p.len - 1 : q.elems[i] = p.elems[i]
    BY <1>1, AppendElem
  <1>3. entries' = q /\ got' = got /\ ~pmap_has_key(k)
    BY DEF pmap_add
  <1>4. /\ p.len \in Nat
        /\ \A i \in 0..p.len - 1 : p.elems[i].key # k
        /\ Lookup(p, k) = Nil
    <2>1. index_of(k) = -1
      <3>1. ~(index_of(k) >= 0)
        BY <1>3, KeyIndex
      <3> QED BY <3>1, KeyCases
    <2> QED BY <1>1, <2>1, KeyCases DEF IsPlist
  <1> HIDE DEF q, e
  <1>e. e.key = k /\ e.value = v
    BY DEF e
  <1>5. Unique(q)
    <2> SUFFICES ASSUME NEW i \in 0..q.len - 1, NEW j \in 0..q.len - 1,
                        q.elems[i].key = q.elems[j].key, i < j
                 PROVE  FALSE
      BY <1>2, <1>4 DEF Unique
    <2>1. i \in 0..p.len - 1 /\ q.elems[i] = p.elems[i]
      BY <1>2, <1>4
    <2>2. CASE j = p.len
      BY <1>2, <1>4, <1>e, <2>1, <2>2
    <2>3. CASE j \in 0..p.len - 1
      BY <1>1, <1>2, <1>4, <2>1, <2>3 DEF Unique
    <2> QED BY <1>2, <1>4, <2>2, <2>3
  <1>6. ASSUME NEW l \in Keys
        PROVE  Lookup(q, l) = IF l = k THEN v ELSE Lookup(p, l)
    <2>0. p.len \in 0..q.len - 1 /\ \A i \in 0..p.len - 1 : i \in 0..q.len - 1
      BY <1>2, <1>4
    <2>1. CASE l = k
      BY <1>2, <1>5, <1>e, <2>0, <2>1, LookupAt
    <2>2. CASE l # k /\ \E i \in 0..p.len - 1 : p.elems[i].key = l
      <3>1. PICK i \in 0..p.len - 1 : p.elems[i].key = l
        BY <2>2
      <3>2. Lookup(p, l) = p.elems[i].value
        BY <1>1, <3>1, LookupAt
      <3>3. i \in 0..q.len - 1 /\ q.elems[i] = p.elems[i]
        BY <1>2, <2>0
      <3>4. Lookup(q, l) = q.elems[i].value
        BY <1>2, <1>5, <3>1, <3>3, LookupAt
      <3> QED BY <2>2, <3>2, <3>3, <3>4
    <2>3. CASE l # k /\ \A i \in 0..p.len - 1 : p.elems[i].key # l
      <3>1. \A i \in 0..q.len - 1 : q.elems[i].key # l
        BY <1>2, <1>4, <1>e, <2>3
      <3> QED BY <2>3, <3>1, LookupNone
    <2> QED BY <2>1, <2>2, <2>3
  <1>7. MInv'
    BY <1>1, <1>2, <1>3, <1>5 DEF MInv, PmapTypeOK
  <1> QED BY <1>2, <1>3, <1>4, <1>6, <1>7

\* Deleting a key forgets its value and no other, and keeps the order.
LEMMA DelStep ==
    ASSUME MInv, NEW k \in Keys, pmap_del(k)
    PROVE  /\ MInv'
           /\ Lookup(entries, k) \in Values
           /\ \A l \in Keys : Lookup(entries', l) = IF l = k THEN Nil ELSE Lookup(entries, l)
           /\ \A i \in 0..entries'.len - 1 :
                 LET j == IF index_of(k) <= i THEN i + 1 ELSE i
                 IN  j \in 0..entries.len - 1 /\ entries'.elems[i] = entries.elems[j]
  <1> DEFINE d == index_of(k)
             p == entries
             q == plist_del(p, d)
             From(i) == IF d <= i THEN i + 1 ELSE i
  <1>1. IsPlist(p, Entry) /\ Unique(p) /\ got \in Values \cup {Nil}
    BY DEF MInv, PmapTypeOK
  <1>2. entries' = q /\ got' = got /\ d >= 0
    BY DEF pmap_del
  <1>3. /\ d \in 0..p.len - 1 /\ p.elems[d].key = k
        /\ p.elems[d] \in Entry /\ Lookup(p, k) = p.elems[d].value
    BY <1>2, KeyCases
  <1> HIDE DEF d
  <1>4. /\ IsPlist(q, Entry) /\ q.len = p.len - 1
        /\ \A i \in 0..q.len - 1 : q.elems[i] = p.elems[From(i)]
    BY <1>1, <1>3, Delete
  <1>5. p.len \in Nat
    BY <1>1 DEF IsPlist
  <1> HIDE DEF q
  <1>6. \A i \in 0..q.len - 1 : From(i) \in 0..p.len - 1 /\ From(i) # d
    BY <1>3, <1>4, <1>5
  <1>7. Unique(q)
    <2> SUFFICES ASSUME NEW i \in 0..q.len - 1, NEW j \in 0..q.len - 1,
                        q.elems[i].key = q.elems[j].key
                 PROVE  i = j
      BY DEF Unique
    <2>1. From(i) = From(j)
      BY <1>1, <1>4, <1>6 DEF Unique
    <2> QED BY <1>3, <1>4, <1>5, <2>1
  <1>8. ASSUME NEW l \in Keys
        PROVE  Lookup(q, l) = IF l = k THEN Nil ELSE Lookup(p, l)
    <2>1. CASE \E i \in 0..p.len - 1 : p.elems[i].key = l /\ l # k
      <3>1. PICK j \in 0..p.len - 1 : p.elems[j].key = l /\ l # k
        BY <2>1
      <3>2. j # d
        BY <1>3, <3>1
      <3>3. PICK i \in 0..q.len - 1 : From(i) = j
        <4> DEFINE i == IF j < d THEN j ELSE j - 1
        <4>1. i \in 0..q.len - 1 /\ From(i) = j
          BY <1>3, <1>4, <1>5, <3>2
        <4> QED BY <4>1
      <3>4. q.elems[i] = p.elems[j]
        BY <1>4, <3>3
      <3>5. Lookup(q, l) = q.elems[i].value /\ Lookup(p, l) = p.elems[j].value
        BY <1>1, <1>4, <1>7, <3>1, <3>4, LookupAt
      <3> QED BY <3>1, <3>4, <3>5
    <2>2. CASE l # k /\ \A i \in 0..p.len - 1 : p.elems[i].key # l
      <3>1. \A i \in 0..q.len - 1 : q.elems[i].key # l
        BY <1>4, <1>6, <2>2
      <3> QED BY <2>2, <3>1, LookupNone
    <2>3. CASE l = k
      <3>1. \A i \in 0..q.len - 1 : q.elems[i].key # k
        BY <1>1, <1>3, <1>4, <1>6 DEF Unique
      <3> QED BY <2>3, <3>1, LookupNone
    <2> QED BY <2>1, <2>2, <2>3
  <1>9. MInv'
    BY <1>1, <1>2, <1>4, <1>7 DEF MInv, PmapTypeOK
  <1>10. Lookup(p, k) \in Values
    BY <1>3 DEF Entry
  <1> QED BY <1>2, <1>4, <1>6, <1>8, <1>9, <1>10 DEF d

\* A clear, of an empty map too, leaves no entry.
LEMMA ClearStep ==
    ASSUME MInv, pmap_clear
    PROVE  MInv' /\ entries'.len = 0 /\ \A l \in Keys : Lookup(entries', l) = Nil
  <1>1. IsPlist(entries, Entry) /\ got' = got /\ got \in Values \cup {Nil}
    BY DEF MInv, PmapTypeOK, pmap_clear
  <1>2. IsPlist(entries', Entry) /\ entries'.len = 0
    <2>1. CASE entries.len > 0
      <3>1. entries' = [elems |-> ut_malloc(0), capacity |-> 0, len |-> 0]
        BY <2>1 DEF pmap_clear, plist_clear, plist_create
      <3>2. ut_malloc(0) \in [0..0 - 1 -> Entry \cup {Junk}]
        BY DEF ut_malloc
      <3> QED BY <3>1, <3>2 DEF IsPlist
    <2>2. CASE ~(entries.len > 0)
      <3>1. entries' = entries
        BY <2>2 DEF pmap_clear, plist_clear
      <3>2. entries.len = 0
        BY <1>1, <2>2 DEF IsPlist
      <3> QED BY <1>1, <3>1, <3>2
    <2> QED BY <2>1, <2>2
  <1>3. Unique(entries')
    BY <1>2 DEF Unique
  <1>4. ASSUME NEW l \in Keys PROVE Lookup(entries', l) = Nil
    BY <1>2, LookupNone
  <1> QED BY <1>1, <1>2, <1>3, <1>4 DEF MInv, PmapTypeOK

-----------------------------------------------------------------------------
LEMMA InitMInv == PmapInit => MInv /\ \A l \in Keys : Lookup(entries, l) = Nil
  <1> SUFFICES ASSUME PmapInit PROVE MInv /\ \A l \in Keys : Lookup(entries, l) = Nil
    OBVIOUS
  <1>1. entries = [elems |-> ut_malloc(0), capacity |-> 0, len |-> 0] /\ got = Nil
    BY DEF PmapInit, plist_create
  <1>2. ut_malloc(0) \in [0..0 - 1 -> Entry \cup {Junk}]
    BY DEF ut_malloc
  <1>3. IsPlist(entries, Entry) /\ entries.len = 0
    BY <1>1, <1>2 DEF IsPlist
  <1>4. Unique(entries)
    BY <1>3 DEF Unique
  <1>5. ASSUME NEW l \in Keys PROVE Lookup(entries, l) = Nil
    BY <1>3, LookupNone
  <1> QED BY <1>1, <1>3, <1>4, <1>5 DEF MInv, PmapTypeOK

\* A lookup changes nothing and returns the value of the key.
LEMMA GetStep ==
    ASSUME MInv, NEW k \in Keys, pmap_get(k)
    PROVE  MInv' /\ entries' = entries /\ got' = Lookup(entries, k)
  <1>1. /\ entries' = entries
        /\ got' = IF index_of(k) < 0 THEN Nil ELSE plist_get(entries, index_of(k)).value
    BY DEF pmap_get
  <1>2. got' = Lookup(entries, k) /\ got' \in Values \cup {Nil}
    BY <1>1, KeyCases DEF plist_get, Entry
  <1> QED BY <1>1, <1>2 DEF MInv, PmapTypeOK

LEMMA NextMInv == MInv /\ [PmapNext]_pmap_vars => MInv'
  <1> SUFFICES ASSUME MInv, [PmapNext]_pmap_vars PROVE MInv'
    OBVIOUS
  <1>1. CASE UNCHANGED pmap_vars
    BY <1>1 DEF pmap_vars, MInv, PmapTypeOK
  <1> QED BY <1>1, AddStep, GetStep, DelStep, ClearStep DEF PmapNext

\* No place of the block that has not been written is ever an entry, and the
\* block is never overrun.
THEOREM MapTypeCorrect == PmapSpec => []PmapTypeOK
  <1>1. MInv => PmapTypeOK
    BY DEF MInv
  <1> QED BY <1>1, InitMInv, NextMInv, PTL DEF PmapSpec

\* The list of entries implements a map.
THEOREM MapRefinement == PmapSpec => ImplementsMap
  <1> DEFINE m == [k \in Keys |-> ValueOf(k)]
  <1>v. m = [k \in Keys |-> Lookup(entries, k)]
    BY DEF ValueOf, Lookup
  <1>1. PmapInit => AbstractMap!Init
    BY <1>v, InitMInv DEF AbstractMap!Init, PmapInit
  <1>2. ASSUME MInv, [PmapNext]_pmap_vars
        PROVE  [AbstractMap!Next]_<<m, got>>
    <2>v. m' = [k \in Keys |-> Lookup(entries', k)]
      BY DEF ValueOf, Lookup
    <2>1. ASSUME NEW k \in Keys, NEW v \in Values, pmap_add(k, v)
          PROVE  AbstractMap!Add(k, v)
      <3>1. /\ Lookup(entries, k) = Nil
            /\ \A l \in Keys : Lookup(entries', l) = IF l = k THEN v ELSE Lookup(entries, l)
        BY <1>2, <2>1, AddStep
      <3>2. m[k] = Nil
        BY <1>v, <3>1
      <3>3. m' = [m EXCEPT ![k] = v]
        BY <1>v, <2>v, <3>1
      <3>4. got' = got
        BY <2>1 DEF pmap_add
      <3> QED BY <3>2, <3>3, <3>4 DEF AbstractMap!Add
    <2>2. ASSUME NEW k \in Keys, pmap_get(k)
          PROVE  AbstractMap!Get(k)
      BY <1>2, <1>v, <2>2, <2>v, GetStep DEF AbstractMap!Get
    <2>3. ASSUME NEW k \in Keys, pmap_del(k)
          PROVE  AbstractMap!Del(k)
      <3>1. /\ Lookup(entries, k) \in Values
            /\ \A l \in Keys : Lookup(entries', l) = IF l = k THEN Nil ELSE Lookup(entries, l)
        BY <1>2, <2>3, DelStep
      <3>2. m[k] # Nil
        BY <1>v, <3>1, ValuesAssumption
      <3>3. m' = [m EXCEPT ![k] = Nil]
        BY <1>v, <2>v, <3>1
      <3>4. got' = got
        BY <2>3 DEF pmap_del
      <3> QED BY <3>2, <3>3, <3>4 DEF AbstractMap!Del
    <2>4. CASE pmap_clear
      BY <1>2, <1>v, <2>4, <2>v, ClearStep DEF AbstractMap!Next, AbstractMap!Clear, pmap_clear
    <2>5. CASE UNCHANGED pmap_vars
      BY <1>v, <2>5, <2>v DEF pmap_vars
    <2> QED BY <1>2, <2>1, <2>2, <2>3, <2>4, <2>5 DEF PmapNext, AbstractMap!Next
  <1> QED BY <1>1, <1>2, InitMInv, NextMInv, PTL DEF PmapSpec, ImplementsMap, AbstractMap!Spec

\* Iteration keeps the order in which entries were added.
THEOREM OrderIsKept == PmapSpec => IterationOrderKept
  <1> DEFINE A == \A i, j \in 0..entries.len - 1, m, n \in 0..entries'.len - 1 :
                     /\ i < j
                     /\ entries'.elems[m].key = entries.elems[i].key
                     /\ entries'.elems[n].key = entries.elems[j].key
                     => m < n
  <1>1. ASSUME MInv, [PmapNext]_pmap_vars PROVE [A]_pmap_vars
    <2>0. MInv'
      BY <1>1, NextMInv
    <2>t. /\ Unique(entries) /\ Unique(entries')
          /\ entries.len \in Nat /\ entries'.len \in Nat
      BY <1>1, <2>0 DEF MInv, PmapTypeOK, IsPlist
    <2> SUFFICES ASSUME PmapNext,
                        NEW i \in 0..entries.len - 1, NEW j \in 0..entries.len - 1,
                        NEW m \in 0..entries'.len - 1, NEW n \in 0..entries'.len - 1,
                        i < j,
                        entries'.elems[m].key = entries.elems[i].key,
                        entries'.elems[n].key = entries.elems[j].key
                 PROVE  m < n
      BY <1>1
    <2>1. ASSUME NEW k \in Keys, NEW v \in Values, pmap_add(k, v)
          PROVE  m < n
      <3>1. \A x \in 0..entries.len - 1 :
               x \in 0..entries'.len - 1 /\ entries'.elems[x] = entries.elems[x]
        BY <1>1, <2>1, AddStep
      <3>2. m = i /\ n = j
        BY <2>t, <3>1 DEF Unique
      <3> QED BY <3>2
    <2>2. ASSUME NEW k \in Keys, pmap_get(k) PROVE m < n
      <3>1. entries' = entries
        BY <2>2 DEF pmap_get
      <3>2. m = i /\ n = j
        BY <2>t, <3>1 DEF Unique
      <3> QED BY <3>2
    <2>3. ASSUME NEW k \in Keys, pmap_del(k) PROVE m < n
      <3> DEFINE d == index_of(k)
                 From(x) == IF d <= x THEN x + 1 ELSE x
      <3>1. \A x \in 0..entries'.len - 1 :
               From(x) \in 0..entries.len - 1 /\ entries'.elems[x] = entries.elems[From(x)]
        BY <1>1, <2>3, DelStep
      <3>2. d \in Int
        BY <1>1, <2>3, <2>t, KeyCases
      <3> HIDE DEF d
      <3>3. From(m) = i /\ From(n) = j
        BY <2>t, <3>1 DEF Unique
      <3> QED BY <2>t, <3>2, <3>3
    <2>4. CASE pmap_clear
      BY <1>1, <2>4, ClearStep
    <2> QED BY <2>1, <2>2, <2>3, <2>4 DEF PmapNext
  <1> QED BY <1>1, InitMInv, NextMInv, PTL DEF PmapSpec, IterationOrderKept
=============================================================================
