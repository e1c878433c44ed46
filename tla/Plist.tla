------------------------------- MODULE Plist --------------------------------
(***************************************************************************)
(* The pointer list of util/plist.c, an array that grows: operators from   *)
(* a struct plist to a struct plist.  Clients' connections, the server's   *)
(* connections, filters' operands and the entries of every pmap are in     *)
(* such lists.                                                             *)
(***************************************************************************)
EXTENDS Memory

CAPACITY_ASK_FACTOR == 2

\* A list whose elements are in E: the block is as long as it says, and its
\* first len places have been written.
IsPlist(p, E) ==
    /\ DOMAIN p = {"elems", "capacity", "len"}
    /\ p.capacity \in Nat
    /\ p.len \in 0..p.capacity
    /\ p.elems \in [0..p.capacity - 1 -> E \cup {Junk}]
    /\ \A i \in 0..p.len - 1 : p.elems[i] \in E

plist_create == [elems |-> ut_malloc(0), capacity |-> 0, len |-> 0]

plist_assure_capacity(p, n) ==
    IF p.capacity < n
    THEN [p EXCEPT !.capacity = CAPACITY_ASK_FACTOR * n,
                   !.elems = ut_realloc(@, CAPACITY_ASK_FACTOR * n)]
    ELSE p

plist_append_Unassured(p, e) ==
    LET q == plist_assure_capacity(p, p.len)
    IN  [q EXCEPT !.elems[p.len] = e, !.len = p.len + 1]
plist_append(p, e) ==
    LET q == plist_assure_capacity(p, p.len + 1)
    IN  [q EXCEPT !.elems[p.len] = e, !.len = p.len + 1]

plist_get(p, idx) == p.elems[idx]

plist_del_FillingFromEnd(p, idx) ==
    [p EXCEPT !.elems = [@ EXCEPT ![idx] = p.elems[p.len - 1]], !.len = p.len - 1]
plist_del_OneShort(p, idx) ==
    [p EXCEPT !.elems = [i \in DOMAIN @ |-> IF idx <= i /\ i < p.len - 2
                                            THEN p.elems[i + 1] ELSE p.elems[i]],
              !.len = p.len - 1]
\* The elements behind the deleted one move down one place.
plist_del(p, idx) ==
    [p EXCEPT !.elems = [i \in DOMAIN @ |-> IF idx <= i /\ i < p.len - 1
                                            THEN p.elems[i + 1] ELSE p.elems[i]],
              !.len = p.len - 1]

plist_clear(p) == IF p.len > 0 THEN plist_create ELSE p

\* The index of the first element that equals the one looked for, which is to
\* say is in E; -1 when there is none.
plist_index_of(p, E) ==
    IF \E i \in 0..p.len - 1 : p.elems[i] \in E
    THEN CHOOSE i \in 0..p.len - 1 : /\ p.elems[i] \in E
                                     /\ \A j \in 0..i - 1 : p.elems[j] \notin E
    ELSE -1

plist_has(p, E) == plist_index_of(p, E) >= 0
=============================================================================
