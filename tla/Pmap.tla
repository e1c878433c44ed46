-------------------------------- MODULE Pmap --------------------------------
(***************************************************************************)
(* The map of util/pmap.c, from 64 bit keys to pointers: a list of entries *)
(* in the order they were added, searched from the front.  The database's  *)
(* clients, services and subscriptions, those of a connection, the orphan  *)
(* timers and a connection's transactions are in such maps.                *)
(***************************************************************************)
EXTENDS Plist

CONSTANTS
    Keys,
    Values,
    MaxEntries   \* largest map the caller builds (a bound)

ASSUME EntriesAssumption == MaxEntries \in Nat

ASSUME ValuesAssumption == Nil \notin Values /\ Junk \notin [key: Keys, value: Values]

VARIABLES entries, got

pmap_vars == <<entries, got>>

Entry == [key: Keys, value: Values]

PmapTypeOK ==
    /\ IsPlist(entries, Entry)
    /\ got \in Values \cup {Nil}

-----------------------------------------------------------------------------
\* elist_elem_equal() compares the keys only.
elist_elem_equal(k) == [key: {k}, value: Values]

index_of(k) == plist_index_of(entries, elist_elem_equal(k))

pmap_has_key(k) == plist_has(entries, elist_elem_equal(k))

pmap_size == entries.len

\* The two asserts, that a key is added once and deleted while it is there,
\* are the caller's part: for the database, see RefCounts.
pmap_add(k, v) ==
    /\ ~pmap_has_key(k)
    /\ pmap_size < MaxEntries
    /\ entries' = plist_append(entries, [key |-> k, value |-> v])
    /\ UNCHANGED got

pmap_get(k) ==
    /\ got' = IF index_of(k) < 0 THEN Nil ELSE plist_get(entries, index_of(k)).value
    /\ UNCHANGED entries

pmap_del(k) ==
    /\ index_of(k) >= 0
    /\ entries' = plist_del(entries, index_of(k))
    /\ UNCHANGED got

pmap_clear ==
    /\ entries' = plist_clear(entries)
    /\ UNCHANGED got

PmapInit == entries = plist_create /\ got = Nil

PmapNext ==
    \/ \E k \in Keys, v \in Values : pmap_add(k, v)
    \/ \E k \in Keys : pmap_get(k)
    \/ \E k \in Keys : pmap_del(k)
    \/ pmap_clear

PmapSpec == PmapInit /\ [][PmapNext]_pmap_vars

-----------------------------------------------------------------------------
\* The value the map has for key k, wherever the entry is.
ValueOf(k) ==
    IF \E i \in 0..entries.len - 1 : entries.elems[i].key = k
    THEN (CHOOSE e \in {entries.elems[i] : i \in 0..entries.len - 1} : e.key = k).value
    ELSE Nil

AbstractMap == INSTANCE PointerMap WITH map <- [k \in Keys |-> ValueOf(k)]

\* The list of entries is a map: through growth, deletions anywhere in the
\* list and clears, a lookup returns what was added under the key and has not
\* been deleted since, or NULL.
ImplementsMap == AbstractMap!Spec

\* Iteration with pmap_foreach() goes by age: plist_del() closes the gap, and no
\* operation swaps two entries that it keeps.
IterationOrderKept ==
    [][\A i, j \in 0..entries.len - 1, m, n \in 0..entries'.len - 1 :
          /\ i < j
          /\ entries'.elems[m].key = entries.elems[i].key
          /\ entries'.elems[n].key = entries.elems[j].key
          => m < n]_pmap_vars
=============================================================================
