-------------------------- MODULE RefCounts_proofs --------------------------
(***************************************************************************)
(* Proofs about RefCounts: the invariants NoUseAfterFree, AssertsHold and  *)
(* NothingLeaks and the action property IterationStable.                   *)
(*                                                                         *)
(* The inductive invariant is that the program is at one of the points of  *)
(* RefCountsPoints_proofs, and that no statement left alters a list that   *)
(* is iterated over.  First the steps of sd_destroy(), then every step,    *)
(* iterations, the calls and the theorems.                                 *)
(***************************************************************************)
EXTENDS RefCountsPoints_proofs

-----------------------------------------------------------------------------
(* sd_destroy(): a list gives back its references.                          *)

SweepDone(t, d, t2, d2, h, m, i) ==
    /\ Safe(t, d) /\ d2 = d
    /\ ~(i <= Len(d.map[h][m])) => t2 = Tail(t)
    /\ i <= Len(d.map[h][m]) =>
          /\ Starts(t2, Dec(d.map[h][m][i]))
          /\ Next2(t, Tail(t2), Foreach(h, m, i + 1, "dec_ref", h))

LEMMA SweepTurn ==
    ASSUME NEW t, NEW d, NEW t2, NEW d2, Step(t, d, t2, d2), NEW h, NEW m, NEW i,
           Starts(t, Foreach(h, m, i, "dec_ref", h)), h \in d.heap
    PROVE  SweepDone(t, d, t2, d2, h, m, i)
<1>1. Safe(t, d)
  BY SafeList
<1>2. /\ d2 = d
      /\ ~(i <= Len(d.map[h][m])) => t2 = Tail(t)
      /\ i <= Len(d.map[h][m]) =>
            /\ Starts(t2, Called(d, "dec_ref", d.map[h][m][i], h))
            /\ Next2(t, Tail(t2), Foreach(h, m, i + 1, "dec_ref", h))
  BY DEF Step, DoesForeach, Callbacks
<1>3. Called(d, "dec_ref", d.map[h][m][i], h) = Dec(d.map[h][m][i])
  BY DEF Called
<1>. QED  BY <1>1, <1>2, <1>3 DEF SweepDone

LEMMA ClearStep ==
    ASSUME NEW t, NEW d, NEW t2, NEW d2, Step(t, d, t2, d2), NEW h, NEW m,
           Starts(t, Clear(h, m)), h \in d.heap
    PROVE  Safe(t, d) /\ t2 = Tail(t) /\ d2 = Cleared(d, h, m)
<1>1. Safe(t, d)
  BY SafeList
<1>. QED  BY <1>1 DEF Step, DoesClear

\* A service or subscription that the database still has keeps a reference.
LEMMA SweepAnchored ==
    ASSUME NEW d, TypeOK(d), NEW h \in Hosts, NEW m \in Maps, NEW i \in Nat \ {0},
           i <= Len(d.map[h][m]), NEW L, NEW X, Falling(Swept(d, h, m, i), L, X),
           d.map[h][m][i] \notin X, m # "clients", h = Db => m = "timers"
    PROVE  LET x == d.map[h][m][i]
           IN  /\ x \in Objects /\ x \in d.heap /\ d.ref[x] >= 2
               /\ Falling(Swept(Dropped(d, x), h, m, i + 1), L, X)
<1>. DEFINE x == d.map[h][m][i]
            v == Swept(d, h, m, i)
            w == Swept(Dropped(d, x), h, m, i + 1)
<1>1. /\ x \in Kind(m) /\ x \in Objects /\ <<h, m>> \in Places(v.map, x)
      /\ Touches(v, w, x) /\ w.heap = v.heap /\ w.ref[x] = v.ref[x] - 1
      /\ Places(w.map, x) = Places(v.map, x) \ {<<h, m>>}
  BY SweepDrop, SMTT(30)
<1>2. v.heap = d.heap /\ v.ref = d.ref
  BY SweptList
<1>3. Falling(v, L, X) /\ x \notin X
  OBVIOUS
<1>. HIDE DEF v, w, x
<1>4. Counted(v, L, x)
  BY <1>1, <1>3 DEF Falling, Torn
<1>5. x \in v.heap
  BY <1>1, <1>4 DEF Counted
<1>6. x \notin Clients /\ (x \in Services \/ x \in Subs)
  BY <1>1, DistinctConstants DEF Kind, Objects, Maps
<1>7. PICK a : /\ a \in Places(v.map, x) /\ a # <<h, m>>
               /\ x \in Services => a = <<Db, "services">>
               /\ x \in Subs => a = <<Db, "subs">>
  <2>1. x \in Services => <<Db, "services">> \in Places(v.map, x)
    BY <1>3, <1>5, Kinds DEF Falling, Anchored
  <2>2. x \in Subs => <<Db, "subs">> \in Places(v.map, x)
    BY <1>3, <1>5, Kinds DEF Falling, Anchored
  <2>3. <<Db, "services">> # <<h, m>> /\ <<Db, "subs">> # <<h, m>>
    OBVIOUS
  <2>4. ~(x \in Services /\ x \in Subs)
    BY DistinctConstants
  <2>. QED  BY <1>6, <2>1, <2>2, <2>3, <2>4
<1>8. v.ref[x] >= 2
  BY <1>1, <1>4, <1>7, CountedTwice
<1>9. a \in Places(w.map, x)
  BY <1>1, <1>7
<1>10. Counted(w, L, x)
  BY <1>1, <1>4, <1>6, <1>9, CountedLess
<1>11. Falling(w, L, X)
  <2>1. X \subseteq X \cup {x}
    OBVIOUS
  <2>2. x \in Services /\ x \in w.heap => <<Db, "services">> \in Places(w.map, x)
    BY <1>7, <1>9
  <2>3. x \in Subs /\ x \in w.heap => <<Db, "subs">> \in Places(w.map, x)
    BY <1>7, <1>9
  <2>. QED  BY <1>1, <1>3, <1>10, <2>1, <2>2, <2>3, FallingStep
<1>12. x \in d.heap /\ d.ref[x] >= 2
  BY <1>2, <1>5, <1>8
<1>. QED  BY <1>1, <1>11, <1>12 DEF w, x

LEMMA DroppedOK ==
    ASSUME NEW d, TypeOK(d), NEW o \in Objects
    PROVE  LET e == Dropped(d, o)
           IN  /\ TypeOK(e) /\ e.heap = d.heap /\ e.map = d.map /\ e.active = d.active
               /\ e.inactive = d.inactive
<1>1. d.ref[o] - 1 \in Int
  BY DEF TypeOK
<1>2. Touches(d, Dropped(d, o), o) /\ Dropped(d, o).heap = d.heap /\ Dropped(d, o).map = d.map
  BY <1>1, WithRefOK DEF Dropped
<1>. QED  BY <1>2 DEF Touches

LEMMA Timers1Step ==
    ASSUME NEW t, NEW d, NEW t2, NEW d2, Step(t, d, t2, d2), NEW i \in Nat \ {0},
           Timers1(t, d, i)
    PROVE  Safe(t, d) /\ Reached(t2, d2)
<1>. DEFINE q == d.map[Db]["timers"]
            x == q[i]
            v == Swept(d, Db, "timers", i)
<1>1. /\ Starts(t, Foreach(Db, "timers", i, "dec_ref", Db)) /\ Down1c(Tail(t))
      /\ TypeOK(d) /\ Falling(v, {}, {})
  BY DEF Timers1, Down1
<1>2. Db \in Hosts /\ "timers" \in Maps /\ Db \in d.heap
  <2>1. Db \in v.heap
    BY <1>1, FallingType
  <2>2. v.heap = d.heap
    BY <1>1, MapNames, SweptList
  <2>. QED  BY <2>1, <2>2, MapNames
<1>3. SweepDone(t, d, t2, d2, Db, "timers", i)
  BY <1>1, <1>2, SweepTurn
<1>4. Safe(t, d) /\ d2 = d
  BY <1>3 DEF SweepDone
<1>5. CASE ~(i <= Len(q))
  <2>1. t2 = Tail(t)
    BY <1>3, <1>5 DEF SweepDone
  <2>2. Timers2(t2, d2)
    BY <1>1, <1>2, <1>4, <1>5, <2>1, SweptLast DEF Timers2
  <2>. QED  BY <1>4, <2>2 DEF Reached, Point, DownPoint
<1>6. CASE i <= Len(q)
  <2>1. Starts(t2, Dec(x)) /\ Next2(t, Tail(t2), Foreach(Db, "timers", i + 1, "dec_ref", Db))
    BY <1>3, <1>6 DEF SweepDone
  <2>2. Down1(Tail(t2), i + 1) /\ i + 1 \in Nat \ {0}
    <3>1. i + 1 \in Nat \ {0}
      OBVIOUS
    <3>2. Down1(Tail(t2), i + 1)
      BY <1>1, <2>1 DEF Down1, Next2
    <3>. QED  BY <3>1, <3>2
  <2>3. PICK L : L = {}
    OBVIOUS
  <2>4. Falling(v, L, L) /\ x \notin L
    BY <1>1, <2>3
  <2>5. /\ x \in Objects /\ x \in d.heap /\ d.ref[x] >= 2
        /\ Falling(Swept(Dropped(d, x), Db, "timers", i + 1), L, L)
    BY <1>1, <1>2, <1>6, <2>4, SweepAnchored
  <2>6. TypeOK(Dropped(d, x))
    BY <1>1, <2>5, DroppedOK
  <2>7. Timers1(Tail(t2), Dropped(d, x), i + 1)
    BY <2>2, <2>3, <2>5, <2>6 DEF Timers1
  <2>8. Point(Tail(t2), Dropped(d, x))
    BY <2>2, <2>7 DEF Point, DownPoint
  <2>. HIDE DEF x
  <2>. QED  BY <1>1, <1>4, <2>1, <2>5, <2>8, DropReached
<1>. QED  BY <1>5, <1>6

LEMMA Timers2Step ==
    ASSUME NEW t, NEW d, NEW t2, NEW d2, Step(t, d, t2, d2), Timers2(t, d)
    PROVE  Safe(t, d) /\ Reached(t2, d2)
<1>. DEFINE e == Cleared(d, Db, "timers")
<1>1. /\ Starts(t, Clear(Db, "timers")) /\ Down2(Tail(t), 1) /\ TypeOK(d) /\ Falling(e, {}, {})
  BY DEF Timers2, Down1c
<1>2. e.heap = d.heap /\ e.map[Db]["timers"] = <<>>
  BY <1>1, MapNames, ClearedList
<1>3. TypeOK(e) /\ Db \in e.heap
  BY <1>1, FallingType
<1>4. Safe(t, d) /\ t2 = Tail(t) /\ d2 = e
  BY <1>1, <1>2, <1>3, ClearStep
<1>. HIDE DEF e
<1>5. Swept(e, Db, "clients", 1) = e
  BY <1>3, MapNames, SweptFirst
<1>6. Clients1(t2, d2, 1) /\ 1 \in Nat \ {0}
  BY <1>1, <1>2, <1>3, <1>4, <1>5 DEF Clients1, Empty
<1>. QED  BY <1>4, <1>6 DEF Reached, Point, DownPoint

LEMMA Clients1Step ==
    ASSUME NEW t, NEW d, NEW t2, NEW d2, Step(t, d, t2, d2), NEW i \in Nat \ {0},
           Clients1(t, d, i)
    PROVE  Safe(t, d) /\ Reached(t2, d2)
<1>. DEFINE q == d.map[Db]["clients"]
            c == q[i]
            v == Swept(d, Db, "clients", i)
            w == Swept(d, Db, "clients", i + 1)
<1>1. /\ Starts(t, Foreach(Db, "clients", i, "dec_ref", Db)) /\ Down2c(Tail(t))
      /\ TypeOK(d) /\ Falling(v, {}, {}) /\ Empty(d, "timers")
  BY DEF Clients1, Down2
<1>2. Db \in Hosts /\ "clients" \in Maps /\ Db \in d.heap
  <2>1. Db \in v.heap
    BY <1>1, FallingType
  <2>2. v.heap = d.heap
    BY <1>1, MapNames, SweptList
  <2>. QED  BY <2>1, <2>2, MapNames
<1>3. SweepDone(t, d, t2, d2, Db, "clients", i)
  BY <1>1, <1>2, SweepTurn
<1>4. Safe(t, d) /\ d2 = d
  BY <1>3 DEF SweepDone
<1>5. CASE ~(i <= Len(q))
  <2>1. t2 = Tail(t)
    BY <1>3, <1>5 DEF SweepDone
  <2>2. Clients2(t2, d2)
    BY <1>1, <1>2, <1>4, <1>5, <2>1, SweptLast DEF Clients2
  <2>. QED  BY <1>4, <2>2 DEF Reached, Point, DownPoint
<1>6. CASE i <= Len(q)
  <2>1. Starts(t2, Dec(c)) /\ Next2(t, Tail(t2), Foreach(Db, "clients", i + 1, "dec_ref", Db))
    BY <1>3, <1>6 DEF SweepDone
  <2>2. Down2(Tail(t2), i + 1) /\ i + 1 \in Nat \ {0}
    <3>1. i + 1 \in Nat \ {0}
      OBVIOUS
    <3>2. Down2(Tail(t2), i + 1)
      BY <1>1, <2>1 DEF Down2, Next2
    <3>. QED  BY <3>1, <3>2
  <2>3. /\ c \in Clients /\ c \in Objects /\ <<Db, "clients">> \in Places(v.map, c)
        /\ Touches(v, w, c) /\ w.heap = v.heap /\ w.ref = v.ref
        /\ Places(w.map, c) = Places(v.map, c) \ {<<Db, "clients">>}
    BY <1>1, <1>2, <1>6, SweepStep, Kinds
  <2>. HIDE DEF c, v, w
  <2>4. Counted(v, {}, c)
    BY <1>1, <2>3 DEF Falling, Torn
  <2>5. Places(v.map, c) = {<<Db, "clients">>}
    BY <2>3, <2>4 DEF Counted
  <2>6. v.ref[c] = 1 /\ c \in v.heap
    BY <2>4, <2>5, CountedOnce
  <2>7. Held(w, c, 1, {})
    BY <2>3, <2>5, <2>6 DEF Held
  <2>8. Falling(w, {}, {c})
    <3>1. {} \subseteq {c} \cup {c} /\ c \notin Services /\ c \notin Subs /\ c \in {c}
      BY <2>3, DistinctConstants
    <3>. QED  BY <1>1, <2>3, <3>1, FallingStep
  <2>9. Raze1(t2, d2, c, i + 1)
    BY <1>1, <1>4, <2>1, <2>2, <2>7, <2>8 DEF Raze1, w
  <2>. QED  BY <1>4, <2>2, <2>3, <2>9 DEF Reached, Point, RazePoint
<1>. QED  BY <1>5, <1>6

LEMMA Clients2Step ==
    ASSUME NEW t, NEW d, NEW t2, NEW d2, Step(t, d, t2, d2), Clients2(t, d)
    PROVE  Safe(t, d) /\ Reached(t2, d2)
<1>. DEFINE e == Cleared(d, Db, "clients")
<1>1. /\ Starts(t, Clear(Db, "clients")) /\ Down3(Tail(t), 1) /\ TypeOK(d) /\ Falling(e, {}, {})
      /\ Empty(d, "timers")
  BY DEF Clients2, Down2c
<1>2. /\ e.heap = d.heap /\ e.map[Db]["clients"] = <<>>
      /\ e.map[Db]["timers"] = d.map[Db]["timers"]
  BY <1>1, MapNames, ClearedList
<1>3. TypeOK(e) /\ Db \in e.heap /\ Structure(e, {})
  BY <1>1, FallingType
<1>4. Safe(t, d) /\ t2 = Tail(t) /\ d2 = e
  BY <1>1, <1>2, <1>3, ClearStep
<1>. HIDE DEF e
<1>5. Swept(e, Db, "services", 1) = e
  BY <1>3, MapNames, SweptFirst
<1>6. \A c \in Clients : Owned(e, {}, c) = {}
  <2>. SUFFICES ASSUME NEW c \in Clients
                PROVE  Owned(e, {}, c) = {}
    OBVIOUS
  <2>1. Counted(e, {}, c)
    BY <1>1 DEF Falling, Torn, Objects
  <2>2. <<Db, "clients">> \notin Places(e.map, c)
    <3>1. ~Contains(e.map[Db]["clients"], c)
      BY <1>2 DEF Contains
    <3>. QED  BY <3>1, PlaceOf, MapNames
  <2>3. Places(e.map, c) = {}
    BY <2>1, <2>2 DEF Counted
  <2>. QED  BY <2>1, <2>3 DEF Counted
<1>7. e.heap \cap Conns = {}
  BY <1>3, <1>6 DEF Structure
<1>8. Bare(e) /\ Anchored(e, "subs")
  BY <1>1, <1>2, <1>7 DEF Bare, Falling, Empty
<1>9. Services1(t2, d2, 1) /\ 1 \in Nat \ {0}
  BY <1>1, <1>3, <1>4, <1>5, <1>8 DEF Services1
<1>. QED  BY <1>4, <1>9 DEF Reached, Point, DownPoint

-----------------------------------------------------------------------------
(* sd_destroy(): a client with its connections.                             *)

LEMMA WithListRecord ==
    ASSUME NEW d, IsData(d), NEW h, NEW m, NEW q
    PROVE  WithList(d, h, m, q) =
              [heap |-> d.heap, ref |-> d.ref, map |-> SetList(d.map, h, m, q),
               active |-> d.active, inactive |-> d.inactive, connected |-> d.connected,
               svc |-> d.svc]
<1>. DEFINE M == SetList(d.map, h, m, q)
<1>1. WithList(d, h, m, q) = [d EXCEPT !.map = M]
  BY DEF WithList
<1>. HIDE DEF M
<1>2. [d EXCEPT !.map = M] =
         [heap |-> d.heap, ref |-> d.ref, map |-> M,
          active |-> d.active, inactive |-> d.inactive, connected |-> d.connected,
          svc |-> d.svc]
  BY DEF IsData
<1>. QED  BY <1>1, <1>2 DEF M

LEMMA DisownedSwept ==
    ASSUME NEW d, TypeOK(d), NEW h, NEW m, NEW i, NEW c \in Clients
    PROVE  Disowned(Swept(d, h, m, i), c) = Swept(Disowned(d, c), h, m, i)
<1>. DEFINE q == SubSeq(d.map[h][m], i, Len(d.map[h][m]))
            M == SetList(d.map, h, m, q)
            a == [d.active EXCEPT ![c] = Nil]
            b == [d.inactive EXCEPT ![c] = <<>>]
            e == Disowned(d, c)
            v == Swept(d, h, m, i)
            u == [heap |-> d.heap, ref |-> d.ref, map |-> M, active |-> a, inactive |-> b,
                  connected |-> d.connected, svc |-> d.svc]
<1>1. IsData(d)
  BY DEF TypeOK
<1>2. /\ IsData(e) /\ e.active = a /\ e.inactive = b
      /\ e.heap = d.heap /\ e.ref = d.ref /\ e.map = d.map
      /\ e.connected = d.connected /\ e.svc = d.svc
  BY <1>1, DisownedFields
<1>3. v = [heap |-> d.heap, ref |-> d.ref, map |-> M, active |-> d.active,
           inactive |-> d.inactive, connected |-> d.connected, svc |-> d.svc]
  BY <1>1, WithListRecord DEF Swept
<1>. HIDE DEF M, e, v
<1>4. Disowned(v, c) = u
  BY <1>3 DEF Disowned
<1>5. Swept(e, h, m, i) = WithList(e, h, m, q)
  BY <1>2 DEF Swept
<1>6. SetList(e.map, h, m, q) = M
  BY <1>2 DEF M
<1>7. WithList(e, h, m, q) =
         [heap |-> e.heap, ref |-> e.ref, map |-> SetList(e.map, h, m, q), active |-> e.active,
          inactive |-> e.inactive, connected |-> e.connected, svc |-> e.svc]
  BY <1>2, WithListRecord
<1>8. WithList(e, h, m, q) = u
  BY <1>2, <1>6, <1>7
<1>. QED  BY <1>4, <1>5, <1>8 DEF e, v

LEMMA WithRefRecord ==
    ASSUME NEW d, IsData(d), NEW o, NEW n
    PROVE  WithRef(d, o, n) =
              [heap |-> d.heap, ref |-> [d.ref EXCEPT ![o] = n], map |-> d.map,
               active |-> d.active, inactive |-> d.inactive, connected |-> d.connected,
               svc |-> d.svc]
<1>. DEFINE M == [d.ref EXCEPT ![o] = n]
<1>1. WithRef(d, o, n) = [d EXCEPT !.ref = M]
  BY DEF WithRef
<1>. HIDE DEF M
<1>2. [d EXCEPT !.ref = M] =
         [heap |-> d.heap, ref |-> M, map |-> d.map,
          active |-> d.active, inactive |-> d.inactive, connected |-> d.connected,
          svc |-> d.svc]
  BY DEF IsData
<1>. QED  BY <1>1, <1>2 DEF M

LEMMA DisownedDropped ==
    ASSUME NEW d, TypeOK(d), NEW o, NEW c \in Clients
    PROVE  Disowned(Dropped(d, o), c) = Dropped(Disowned(d, c), o)
<1>. DEFINE n == d.ref[o] - 1
            R == [d.ref EXCEPT ![o] = n]
            a == [d.active EXCEPT ![c] = Nil]
            b == [d.inactive EXCEPT ![c] = <<>>]
            e == Disowned(d, c)
            v == Dropped(d, o)
            u == [heap |-> d.heap, ref |-> R, map |-> d.map, active |-> a, inactive |-> b,
                  connected |-> d.connected, svc |-> d.svc]
<1>1. IsData(d)
  BY DEF TypeOK
<1>2. /\ IsData(e) /\ e.active = a /\ e.inactive = b
      /\ e.heap = d.heap /\ e.ref = d.ref /\ e.map = d.map
      /\ e.connected = d.connected /\ e.svc = d.svc
  BY <1>1, DisownedFields
<1>3. v = [heap |-> d.heap, ref |-> R, map |-> d.map, active |-> d.active,
           inactive |-> d.inactive, connected |-> d.connected, svc |-> d.svc]
  BY <1>1, WithRefRecord DEF Dropped
<1>. HIDE DEF R, e, v
<1>4. Disowned(v, c) = u
  BY <1>3 DEF Disowned
<1>5. Dropped(e, o) = WithRef(e, o, n)
  BY <1>2 DEF Dropped
<1>6. [e.ref EXCEPT ![o] = n] = R
  BY <1>2 DEF R
<1>. HIDE DEF n
<1>7. WithRef(e, o, n) =
         [heap |-> e.heap, ref |-> [e.ref EXCEPT ![o] = n], map |-> e.map, active |-> e.active,
          inactive |-> e.inactive, connected |-> e.connected, svc |-> e.svc]
  BY <1>2, WithRefRecord
<1>8. WithRef(e, o, n) = u
  BY <1>2, <1>6, <1>7
<1>. QED  BY <1>4, <1>5, <1>8 DEF e, v

LEMMA SweptUnheaped ==
    ASSUME NEW d, TypeOK(d), NEW h, NEW m, NEW i, NEW x
    PROVE  Swept(Unheaped(d, x), h, m, i) = Unheaped(Swept(d, h, m, i), x)
<1>. DEFINE q == SubSeq(d.map[h][m], i, Len(d.map[h][m]))
            M == SetList(d.map, h, m, q)
            H == d.heap \ {x}
            e == Unheaped(d, x)
            v == Swept(d, h, m, i)
            u == [heap |-> H, ref |-> d.ref, map |-> M, active |-> d.active,
                  inactive |-> d.inactive, connected |-> d.connected, svc |-> d.svc]
<1>1. IsData(d)
  BY DEF TypeOK
<1>2. /\ IsData(e) /\ e.active = d.active /\ e.inactive = d.inactive
      /\ e.heap = H /\ e.ref = d.ref /\ e.map = d.map
      /\ e.connected = d.connected /\ e.svc = d.svc
  BY UnheapedFields DEF TypeOK
<1>3. v = [heap |-> d.heap, ref |-> d.ref, map |-> M, active |-> d.active,
           inactive |-> d.inactive, connected |-> d.connected, svc |-> d.svc]
  BY <1>1, WithListRecord DEF Swept
<1>. HIDE DEF M, e, v
<1>4. Unheaped(v, x) = u
  BY <1>3 DEF Unheaped
<1>5. Swept(e, h, m, i) = WithList(e, h, m, q)
  BY <1>2 DEF Swept
<1>6. SetList(e.map, h, m, q) = M
  BY <1>2 DEF M
<1>. HIDE DEF q, H
<1>7. WithList(e, h, m, q) =
         [heap |-> e.heap, ref |-> e.ref, map |-> SetList(e.map, h, m, q), active |-> e.active,
          inactive |-> e.inactive, connected |-> e.connected, svc |-> e.svc]
  BY <1>2, WithListRecord
<1>8. WithList(e, h, m, q) = u
  BY <1>2, <1>6, <1>7
<1>. QED  BY <1>4, <1>5, <1>8 DEF e, v

LEMMA SetListOther ==
    ASSUME NEW mp, MapsOK(mp), NEW h \in Hosts, NEW m \in Maps, NEW p,
           NEW h2 \in Hosts, NEW m2 \in Maps, NEW q, h # h2
    PROVE  SetList(SetList(mp, h, m, p), h2, m2, q) = SetList(SetList(mp, h2, m2, q), h, m, p)
<1>1. mp \in [Hosts -> [Maps -> Seq(Objects)]]
  BY DEF MapsOK
<1>. DEFINE a == [mp[h] EXCEPT ![m] = p]
            b == [mp[h2] EXCEPT ![m2] = q]
<1>2. /\ SetList(mp, h, m, p) = [mp EXCEPT ![h] = a]
      /\ SetList(mp, h2, m2, q) = [mp EXCEPT ![h2] = b]
  BY DEF SetList
<1>3. SetList(mp, h, m, p)[h2] = mp[h2] /\ SetList(mp, h2, m2, q)[h] = mp[h]
  BY <1>1, <1>2
<1>4. /\ SetList(SetList(mp, h, m, p), h2, m2, q) = [SetList(mp, h, m, p) EXCEPT ![h2] = b]
      /\ SetList(SetList(mp, h2, m2, q), h, m, p) = [SetList(mp, h2, m2, q) EXCEPT ![h] = a]
  BY <1>3 DEF SetList
<1>. HIDE DEF a, b
<1>5. [[mp EXCEPT ![h] = a] EXCEPT ![h2] = b] = [[mp EXCEPT ![h2] = b] EXCEPT ![h] = a]
  BY <1>1
<1>. QED  BY <1>2, <1>4, <1>5

LEMMA SweptCleared ==
    ASSUME NEW d, TypeOK(d), NEW h \in Hosts, NEW m \in Maps, NEW i,
           NEW h2 \in Hosts, NEW m2 \in Maps, h # h2
    PROVE  Swept(Cleared(d, h2, m2), h, m, i) = Cleared(Swept(d, h, m, i), h2, m2)
<1>. DEFINE q == SubSeq(d.map[h][m], i, Len(d.map[h][m]))
            e == Cleared(d, h2, m2)
            v == Swept(d, h, m, i)
            M == SetList(SetList(d.map, h2, m2, <<>>), h, m, q)
            u == [heap |-> d.heap, ref |-> d.ref, map |-> M, active |-> d.active,
                  inactive |-> d.inactive, connected |-> d.connected, svc |-> d.svc]
<1>1. IsData(d) /\ MapsOK(d.map)
  BY DEF TypeOK
<1>2. /\ IsData(e) /\ e.map = SetList(d.map, h2, m2, <<>>)
      /\ e.heap = d.heap /\ e.ref = d.ref /\ e.active = d.active
      /\ e.inactive = d.inactive /\ e.connected = d.connected /\ e.svc = d.svc
  BY <1>1, WithListFields DEF Cleared
<1>3. /\ IsData(v) /\ v.map = SetList(d.map, h, m, q)
      /\ v.heap = d.heap /\ v.ref = d.ref /\ v.active = d.active
      /\ v.inactive = d.inactive /\ v.connected = d.connected /\ v.svc = d.svc
  BY <1>1, WithListFields DEF Swept
<1>4. e.map[h][m] = d.map[h][m]
  BY ClearedList
<1>. HIDE DEF e, v
<1>5. Swept(e, h, m, i) = WithList(e, h, m, q)
  BY <1>4 DEF Swept
<1>6. Cleared(v, h2, m2) = WithList(v, h2, m2, <<>>)
  BY DEF Cleared
<1>. HIDE DEF q
<1>7. SetList(e.map, h, m, q) = M /\ SetList(v.map, h2, m2, <<>>) = M
  BY <1>1, <1>2, <1>3, SetListOther
<1>8. WithList(e, h, m, q) =
         [heap |-> e.heap, ref |-> e.ref, map |-> SetList(e.map, h, m, q), active |-> e.active,
          inactive |-> e.inactive, connected |-> e.connected, svc |-> e.svc]
  BY <1>2, WithListRecord
<1>9. WithList(v, h2, m2, <<>>) =
         [heap |-> v.heap, ref |-> v.ref, map |-> SetList(v.map, h2, m2, <<>>),
          active |-> v.active, inactive |-> v.inactive, connected |-> v.connected,
          svc |-> v.svc]
  BY <1>3, WithListRecord
<1>. HIDE DEF M
<1>10. WithList(e, h, m, q) = u
  BY <1>2, <1>7, <1>8
<1>11. WithList(v, h2, m2, <<>>) = u
  BY <1>3, <1>7, <1>9
<1>. QED  BY <1>5, <1>6, <1>10, <1>11 DEF e, v

LEMMA SweptElsewhere ==
    ASSUME NEW d, TypeOK(d), NEW h \in Hosts, NEW m \in Maps, NEW i \in Nat \ {0},
           NEW h2 \in Hosts, NEW m2 \in Maps, h2 # h
    PROVE  Swept(d, h, m, i).map[h2][m2] = d.map[h2][m2]
BY SweptList

LEMMA RazedSweep ==
    ASSUME NEW d, TypeOK(d), NEW c \in Clients, NEW k \in Conns, NEW i \in Nat \ {0},
           NEW n \in Nat \ {0}, NEW m \in {"services", "subs"}, n <= Len(d.map[k][m]), NEW K,
           Razed(Swept(Swept(d, Db, "clients", i), k, m, n), c, K)
    PROVE  LET x == d.map[k][m][n]
           IN  /\ x \in Objects /\ x \in d.heap /\ d.ref[x] >= 2
               /\ Razed(Swept(Swept(Dropped(d, x), Db, "clients", i), k, m, n + 1), c, K)
<1>. DEFINE x == d.map[k][m][n]
            e == Swept(d, Db, "clients", i)
            f == Disowned(e, c)
            g == Dropped(e, x)
            v == Swept(e, k, m, n)
            w == Swept(g, k, m, n + 1)
            L == {c} \X K
            X == {c}
<1>1. /\ k \in Hosts /\ k # Db /\ Db \in Hosts /\ m \in Maps /\ "timers" \in Maps
      /\ "clients" \in Maps /\ m # "clients" /\ n + 1 \in Nat \ {0}
  BY MapNames, DistinctConstants
<1>2. /\ TypeOK(e) /\ e.heap = d.heap /\ e.ref = d.ref /\ e.map[k][m] = d.map[k][m]
  BY <1>1, SweptList
<1>3. Held(v, c, 0, {}) /\ TypeOK(v) /\ Falling(Disowned(v, c), L, X) /\ Empty(v, "timers")
  BY DEF Razed
<1>4. TypeOK(f) /\ f.heap = d.heap /\ f.ref = d.ref /\ f.map[k][m] = d.map[k][m]
  BY <1>2, DisownedType
<1>5. Disowned(v, c) = Swept(f, k, m, n)
  BY <1>2, DisownedSwept
<1>6. x \in Kind(m) /\ x \in Objects /\ Touches(v, w, x)
  <2>. DEFINE y == e.map[k][m][n]
              u == Swept(Dropped(e, y), k, m, n + 1)
  <2>1. n <= Len(e.map[k][m]) /\ y = x
    BY <1>2
  <2>2. u = w
    BY <2>1
  <2>. HIDE DEF e, x, w
  <2>3. y \in Kind(m) /\ y \in Objects /\ Touches(v, u, y)
    BY <1>1, <1>2, <2>1, SweepDrop
  <2>. HIDE DEF y, u
  <2>. QED  BY <2>1, <2>2, <2>3
<1>7. x # c /\ x \notin X
  BY <1>6, DistinctConstants, Kinds
<1>8. x \in f.heap /\ f.ref[x] >= 2 /\ Falling(Swept(Dropped(f, x), k, m, n + 1), L, X)
  <2>1. n <= Len(f.map[k][m]) /\ f.map[k][m][n] = x
    BY <1>4
  <2>2. Falling(Swept(f, k, m, n), L, X)
    BY <1>3, <1>5
  <2>. HIDE DEF f, L, X
  <2>. QED  BY <1>1, <1>4, <1>7, <2>1, <2>2, SweepAnchored
<1>9. Dropped(f, x) = Disowned(g, c)
  BY <1>2, DisownedDropped
<1>10. TypeOK(g) /\ g.map = e.map
  BY <1>2, <1>6, DroppedOK
<1>11. Swept(Disowned(g, c), k, m, n + 1) = Disowned(w, c)
  BY <1>10, DisownedSwept
<1>12. Swept(Dropped(d, x), Db, "clients", i) = g
  BY SweptDropped
<1>13. Empty(w, "timers")
  <2>1. w.map[Db]["timers"] = g.map[Db]["timers"]
    <3>. DEFINE p == n + 1
                u == Swept(g, k, m, p)
    <3>1. p \in Nat \ {0} /\ u = w
      OBVIOUS
    <3>. HIDE DEF e, g, p, w
    <3>2. u.map[Db]["timers"] = g.map[Db]["timers"]
      BY <1>1, <1>10, <3>1, SweptElsewhere
    <3>. QED  BY <3>1, <3>2
  <2>2. v.map[Db]["timers"] = e.map[Db]["timers"]
    BY <1>1, <1>2, SweptList
  <2>. QED  BY <1>3, <1>10, <2>1, <2>2 DEF Empty
<1>. HIDE DEF x, e, f, g, v, w, L, X
<1>14. Held(w, c, 0, {}) /\ TypeOK(w)
  <2>1. c \in Objects \ {x}
    BY <1>7 DEF Objects
  <2>. QED  BY <1>3, <1>6, <2>1, SameHeld DEF Touches
<1>15. Falling(Disowned(w, c), L, X)
  BY <1>8, <1>9, <1>11
<1>16. Razed(w, c, K)
  BY <1>13, <1>14, <1>15 DEF Razed, L, X
<1>17. x \in d.heap /\ d.ref[x] >= 2
  BY <1>4, <1>8
<1>. QED  BY <1>6, <1>12, <1>16, <1>17 DEF w, x

LEMMA SameConns ==
    ASSUME NEW d, NEW e, e.active = d.active, e.inactive = d.inactive, NEW c, NEW j
    PROVE  ConnsFrom(e, c, j) = ConnsFrom(d, c, j)
BY DEF ConnsFrom, ConnsOf

LEMMA RazedHeap ==
    ASSUME NEW v, NEW c \in Clients, NEW K, NEW k \in Conns, k \in K, Razed(v, c, K)
    PROVE  k \in v.heap /\ c \in v.heap
<1>. DEFINE e == Disowned(v, c)
            L == {c} \X K
<1>1. TypeOK(v) /\ Falling(e, L, {c}) /\ c \in v.heap /\ <<c, k>> \in L
  BY DEF Razed, Held
<1>2. e.heap = v.heap
  BY <1>1, DisownedType
<1>. HIDE DEF e, L
<1>3. Structure(e, L)
  BY <1>1, FallingType
<1>4. k \in e.heap
  BY <1>1, <1>3 DEF Structure, Owned
<1>. QED  BY <1>1, <1>2, <1>4

LEMMA Raze1Step ==
    ASSUME NEW t, NEW d, NEW t2, NEW d2, Step(t, d, t2, d2), NEW c \in Clients,
           NEW i \in Nat \ {0}, Raze1(t, d, c, i)
    PROVE  Safe(t, d) /\ Reached(t2, d2)
<1>. DEFINE v == Swept(d, Db, "clients", i)
            e == Dropped(d, c)
            w == Dropped(v, c)
            K == ConnsFrom(e, c, 1)
<1>1. /\ Starts(t, Dec(c)) /\ Down2(Tail(t), i) /\ TypeOK(d) /\ Held(v, c, 1, {})
      /\ Falling(v, {}, {c}) /\ Empty(d, "timers")
  BY DEF Raze1
<1>2. /\ TypeOK(v) /\ v.heap = d.heap /\ v.ref = d.ref /\ v.active = d.active
      /\ v.inactive = d.inactive /\ v.map[Db]["timers"] = d.map[Db]["timers"]
  BY <1>1, MapNames, SweptList
<1>3. c \in d.heap /\ d.ref[c] = 1 /\ d.ref[c] > 0 /\ c \in Objects
  BY <1>1, <1>2 DEF Held, Objects
<1>4. Safe(t, d)
  BY <1>1, <1>3, SafeCount
<1>5. d2 = e /\ Starts(t2, DestroyConns(c, 1)) /\ Next2(t, Tail(t2), Free(c))
  BY <1>1, <1>3 DEF Step, DoesDec
<1>6. TypeOK(e) /\ e.active = d.active /\ e.inactive = d.inactive
  BY <1>1, <1>3, DroppedOK
<1>7. Swept(e, Db, "clients", i) = w
  BY <1>1, SweptDropped
<1>8. K = Own(e, c)
  BY <1>6, ConnsLeft
<1>. HIDE DEF v, e, K
<1>9. Touches(v, w, c) /\ w.map = v.map /\ Held(w, c, 1 - 1, {})
  BY <1>1, <1>2, <1>3, DropHeld
<1>. HIDE DEF w
<1>10. TypeOK(w) /\ Held(w, c, 0, {})
  BY <1>9 DEF Touches
<1>11. Own(w, c) = K
  <2>1. w.active = v.active /\ w.inactive = v.inactive
    BY <1>9 DEF Touches
  <2>. QED  BY <1>2, <1>6, <1>8, <2>1 DEF Own
<1>12. Falling(w, {}, {c})
  <2>1. {c} \subseteq {c} \cup {c} /\ c \in {c} /\ c \notin Services /\ c \notin Subs
    BY DistinctConstants
  <2>. QED  BY <1>1, <1>9, <2>1, FallingStep
<1>13. Falling(Disowned(w, c), {c} \X Own(w, c), {c})
  BY <1>12, FallingDisowned
<1>14. Empty(w, "timers")
  BY <1>1, <1>2, <1>9 DEF Empty
<1>15. Razed(w, c, K)
  BY <1>10, <1>11, <1>13, <1>14 DEF Razed
<1>16. Raze2Tail(t2, c, i, 1)
  BY <1>1, <1>5 DEF Raze2Tail, Raze8Tail, Next2
<1>17. Raze2(t2, d2, c, i, 1)
  BY <1>5, <1>6, <1>7, <1>15, <1>16 DEF Raze2, K
<1>18. 1 \in Nat \ {0}
  OBVIOUS
<1>. QED  BY <1>4, <1>17, <1>18 DEF Reached, Point, RazePoint

LEMMA Raze2Step ==
    ASSUME NEW t, NEW d, NEW t2, NEW d2, Step(t, d, t2, d2), NEW c \in Clients,
           NEW i \in Nat \ {0}, NEW j \in Nat \ {0}, Raze2(t, d, c, i, j)
    PROVE  Safe(t, d) /\ Reached(t2, d2)
<1>. DEFINE v == Swept(d, Db, "clients", i)
            q == ConnsOf(d, c)
            K == ConnsFrom(d, c, j)
            N == ConnsFrom(d, c, j + 1)
<1>1. /\ Starts(t, DestroyConns(c, j)) /\ Raze8Tail(Tail(t), c, i) /\ TypeOK(d) /\ Razed(v, c, K)
  BY DEF Raze2, Raze2Tail
<1>2. v.heap = d.heap /\ TypeOK(v)
  BY <1>1, MapNames, SweptList
<1>3. Safe(t, d)
  <2>1. c \in d.heap
    BY <1>1, <1>2 DEF Razed, Held
  <2>. QED  BY <1>1, <2>1, SafeClient
<1>4. CASE ~(j <= Len(q))
  <2>1. d2 = d /\ t2 = Tail(t)
    BY <1>1, <1>4 DEF Step, DoesDestroy
  <2>2. K = {}
    BY <1>1, <1>4, ConnsLeft
  <2>3. Raze8(t2, d2, c, i)
    BY <1>1, <2>1, <2>2 DEF Raze8
  <2>. QED  BY <1>3, <2>3 DEF Reached, Point, RazePoint
<1>5. CASE j <= Len(q)
  <2>. DEFINE k == q[j]
  <2>1. PICK r : d2 = d /\ ConnProgram(t2, k, r) /\ Next2(t, r, DestroyConns(c, j + 1))
    BY <1>1, <1>5 DEF Step, DoesDestroy
  <2>2. K = N \cup {k} /\ k \notin N /\ k \in Conns
    BY <1>1, <1>5, ConnsLeft
  <2>3. j + 1 \in Nat \ {0} /\ 1 \in Nat \ {0}
    OBVIOUS
  <2>4. Swept(v, k, "services", 1) = v
    BY <1>2, <2>2, MapNames, SweptFirst
  <2>. HIDE DEF k, v
  <2>5. RazedConn(d, Swept(v, k, "services", 1), c, j + 1, k)
    BY <1>1, <2>2, <2>4 DEF RazedConn
  <2>6. Raze2Tail(r, c, i, j + 1)
    BY <1>1, <2>1 DEF Next2, Raze2Tail
  <2>7. Raze3Tail(t2, c, i, j + 1, k, 1)
    BY <2>1, <2>6 DEF ConnProgram, Raze3Tail, Raze4Tail, Raze5Tail, Raze6Tail, Raze7Tail
  <2>8. Raze3(t2, d2, c, i, j + 1, k, 1)
    BY <2>1, <2>5, <2>7 DEF Raze3, v
  <2>. QED  BY <1>3, <2>2, <2>3, <2>8 DEF Reached, Point, RazePoint
<1>. QED  BY <1>4, <1>5

LEMMA ClearedOK ==
    ASSUME NEW d, TypeOK(d), NEW h \in Hosts, NEW m \in Maps
    PROVE  TypeOK(Cleared(d, h, m))
<1>. DEFINE i == Len(d.map[h][m]) + 1
<1>1. d.map[h][m] \in Seq(Kind(m))
  BY ListOK
<1>2. i \in Nat \ {0} /\ ~(i <= Len(d.map[h][m]))
  <2>1. Len(d.map[h][m]) \in Nat
    BY <1>1
  <2>. QED  BY <2>1
<1>. HIDE DEF i
<1>3. Swept(d, h, m, i) = Cleared(d, h, m)
  BY <1>2, SweptLast
<1>. QED  BY <1>2, <1>3, SweptList

LEMMA Raze3Step ==
    ASSUME NEW t, NEW d, NEW t2, NEW d2, Step(t, d, t2, d2), NEW c \in Clients,
           NEW i \in Nat \ {0}, NEW j \in Nat \ {0}, NEW k \in Conns, NEW n \in Nat \ {0},
           Raze3(t, d, c, i, j, k, n)
    PROVE  Safe(t, d) /\ Reached(t2, d2)
<1>. DEFINE m == "services"
            q == d.map[k][m]
            x == q[n]
            e == Swept(d, Db, "clients", i)
            v == Swept(e, k, m, n)
            K == ConnsFrom(d, c, j) \cup {k}
<1>1. /\ Starts(t, Foreach(k, m, n, "dec_ref", k)) /\ Raze4Tail(Tail(t), c, i, j, k)
      /\ TypeOK(d) /\ k \notin ConnsFrom(d, c, j) /\ Razed(v, c, K)
      /\ k \in K
  BY DEF Raze3, Raze3Tail, RazedConn
<1>2. k \in Hosts /\ k # Db /\ m \in Maps /\ Db \in Hosts /\ "clients" \in Maps
  BY MapNames, DistinctConstants
<1>3. TypeOK(e) /\ e.heap = d.heap /\ e.map[k][m] = q
  BY <1>1, <1>2, SweptList
<1>4. v.heap = d.heap
  BY <1>2, <1>3, SweptList
<1>5. k \in d.heap
  <2>. HIDE DEF v, K
  <2>. QED  BY <1>1, <1>4, RazedHeap
<1>6. SweepDone(t, d, t2, d2, k, m, n)
  BY <1>1, <1>5, SweepTurn
<1>7. Safe(t, d) /\ d2 = d
  BY <1>6 DEF SweepDone
<1>8. CASE ~(n <= Len(q))
  <2>1. t2 = Tail(t)
    BY <1>6, <1>8 DEF SweepDone
  <2>2. v = Cleared(e, k, m)
    BY <1>2, <1>3, <1>8, SweptLast
  <2>3. Raze4(t2, d2, c, i, j, k)
    BY <1>1, <1>7, <2>1, <2>2 DEF Raze4, RazedConn
  <2>. QED  BY <1>7, <2>3 DEF Reached, Point, RazePoint
<1>9. CASE n <= Len(q)
  <2>. DEFINE f == Dropped(d, x)
              w == Swept(Swept(f, Db, "clients", i), k, m, n + 1)
  <2>1. Starts(t2, Dec(x)) /\ Next2(t, Tail(t2), Foreach(k, m, n + 1, "dec_ref", k))
    BY <1>6, <1>9 DEF SweepDone
  <2>2. n + 1 \in Nat \ {0} /\ m \in {"services", "subs"}
    OBVIOUS
  <2>3. Raze3Tail(Tail(t2), c, i, j, k, n + 1)
    BY <1>1, <2>1 DEF Raze3Tail, Next2
  <2>4. x \in Objects /\ x \in d.heap /\ d.ref[x] >= 2 /\ Razed(w, c, K)
    <3>. HIDE DEF K, m
    <3>. QED  BY <1>1, <1>9, <2>2, RazedSweep
  <2>5. TypeOK(f) /\ f.map = d.map /\ f.active = d.active /\ f.inactive = d.inactive
    BY <1>1, <2>4, DroppedOK
  <2>. HIDE DEF f
  <2>6. ConnsFrom(f, c, j) = ConnsFrom(d, c, j)
    BY <2>5, SameConns
  <2>7. RazedConn(f, w, c, j, k)
    BY <1>1, <2>4, <2>5, <2>6 DEF RazedConn
  <2>8. Raze3(Tail(t2), f, c, i, j, k, n + 1)
    BY <1>1, <2>3, <2>5, <2>7 DEF Raze3
  <2>9. Point(Tail(t2), Dropped(d, x))
    BY <2>2, <2>8 DEF Point, RazePoint, f
  <2>. HIDE DEF x
  <2>. QED  BY <1>1, <1>7, <2>1, <2>4, <2>9, DropReached
<1>. QED  BY <1>8, <1>9

LEMMA Raze4Step ==
    ASSUME NEW t, NEW d, NEW t2, NEW d2, Step(t, d, t2, d2), NEW c \in Clients,
           NEW i \in Nat \ {0}, NEW j \in Nat \ {0}, NEW k \in Conns, Raze4(t, d, c, i, j, k)
    PROVE  Safe(t, d) /\ Reached(t2, d2)
<1>. DEFINE e == Swept(d, Db, "clients", i)
            v == Cleared(e, k, "services")
            a == Cleared(d, k, "services")
            f == Swept(a, Db, "clients", i)
            K == ConnsFrom(d, c, j) \cup {k}
<1>1. /\ Starts(t, Clear(k, "services")) /\ Raze5Tail(Tail(t), c, i, j, k, 1)
      /\ TypeOK(d) /\ k \notin ConnsFrom(d, c, j) /\ Razed(v, c, K) /\ k \in K
  BY DEF Raze4, Raze4Tail, RazedConn
<1>2. /\ k \in Hosts /\ k # Db /\ "services" \in Maps /\ Db \in Hosts /\ "clients" \in Maps
      /\ "subs" \in Maps /\ "services" \in Maps
  BY MapNames, DistinctConstants
<1>3. /\ a.heap = d.heap /\ a.active = d.active /\ a.inactive = d.inactive
      /\ a.map[k]["services"] = <<>>
  BY <1>1, <1>2, ClearedList
<1>4. Safe(t, d) /\ t2 = Tail(t) /\ d2 = a
  <2>1. TypeOK(e) /\ e.heap = d.heap
    BY <1>1, <1>2, SweptList
  <2>2. v.heap = d.heap
    BY <1>2, <2>1, ClearedList
  <2>. HIDE DEF v, K
  <2>3. k \in d.heap
    BY <1>1, <2>2, RazedHeap
  <2>. QED  BY <1>1, <2>3, ClearStep
<1>5. TypeOK(a) /\ ConnsFrom(a, c, j) = ConnsFrom(d, c, j)
  <2>1. TypeOK(a)
    BY <1>1, <1>2, ClearedOK
  <2>. HIDE DEF a
  <2>. QED  BY <1>3, <2>1, SameConns
<1>6. f = v /\ TypeOK(f)
  <2>1. f = v
    BY <1>1, <1>2, SweptCleared
  <2>. QED  BY <1>1, <2>1 DEF Razed
<1>7. Razed(f, c, K)
  BY <1>1, <1>6
<1>. HIDE DEF f, a
<1>8. Swept(f, k, "subs", 1) = f
  BY <1>6, <1>2, SweptFirst
<1>9. RazedConn(d2, Swept(f, k, "subs", 1), c, j, k)
  BY <1>1, <1>4, <1>5, <1>7, <1>8 DEF RazedConn, a
<1>10. Raze5(t2, d2, c, i, j, k, 1) /\ 1 \in Nat \ {0}
  BY <1>1, <1>3, <1>4, <1>5, <1>9 DEF Raze5, f
<1>. QED  BY <1>4, <1>10 DEF Reached, Point, RazePoint

LEMMA Raze5Step ==
    ASSUME NEW t, NEW d, NEW t2, NEW d2, Step(t, d, t2, d2), NEW c \in Clients,
           NEW i \in Nat \ {0}, NEW j \in Nat \ {0}, NEW k \in Conns, NEW n \in Nat \ {0},
           Raze5(t, d, c, i, j, k, n)
    PROVE  Safe(t, d) /\ Reached(t2, d2)
<1>. DEFINE m == "subs"
            q == d.map[k][m]
            x == q[n]
            e == Swept(d, Db, "clients", i)
            v == Swept(e, k, m, n)
            K == ConnsFrom(d, c, j) \cup {k}
<1>1. /\ Starts(t, Foreach(k, m, n, "dec_ref", k)) /\ Raze6Tail(Tail(t), c, i, j, k)
      /\ TypeOK(d) /\ k \notin ConnsFrom(d, c, j) /\ Razed(v, c, K)
      /\ k \in K /\ d.map[k]["services"] = <<>>
  BY DEF Raze5, Raze5Tail, RazedConn
<1>2. k \in Hosts /\ k # Db /\ m \in Maps /\ Db \in Hosts /\ "clients" \in Maps
  BY MapNames, DistinctConstants
<1>3. TypeOK(e) /\ e.heap = d.heap /\ e.map[k][m] = q
  BY <1>1, <1>2, SweptList
<1>4. v.heap = d.heap
  BY <1>2, <1>3, SweptList
<1>5. k \in d.heap
  <2>. HIDE DEF v, K
  <2>. QED  BY <1>1, <1>4, RazedHeap
<1>6. SweepDone(t, d, t2, d2, k, m, n)
  BY <1>1, <1>5, SweepTurn
<1>7. Safe(t, d) /\ d2 = d
  BY <1>6 DEF SweepDone
<1>8. CASE ~(n <= Len(q))
  <2>1. t2 = Tail(t)
    BY <1>6, <1>8 DEF SweepDone
  <2>2. v = Cleared(e, k, m)
    BY <1>2, <1>3, <1>8, SweptLast
  <2>3. Raze6(t2, d2, c, i, j, k)
    BY <1>1, <1>7, <2>1, <2>2 DEF Raze6, RazedConn
  <2>. QED  BY <1>7, <2>3 DEF Reached, Point, RazePoint
<1>9. CASE n <= Len(q)
  <2>. DEFINE f == Dropped(d, x)
              w == Swept(Swept(f, Db, "clients", i), k, m, n + 1)
  <2>1. Starts(t2, Dec(x)) /\ Next2(t, Tail(t2), Foreach(k, m, n + 1, "dec_ref", k))
    BY <1>6, <1>9 DEF SweepDone
  <2>2. n + 1 \in Nat \ {0} /\ m \in {"services", "subs"}
    OBVIOUS
  <2>3. Raze5Tail(Tail(t2), c, i, j, k, n + 1)
    BY <1>1, <2>1 DEF Raze5Tail, Next2
  <2>4. x \in Objects /\ x \in d.heap /\ d.ref[x] >= 2 /\ Razed(w, c, K)
    <3>. HIDE DEF K, m
    <3>. QED  BY <1>1, <1>9, <2>2, RazedSweep
  <2>5. TypeOK(f) /\ f.map = d.map /\ f.active = d.active /\ f.inactive = d.inactive
    BY <1>1, <2>4, DroppedOK
  <2>. HIDE DEF f
  <2>6. ConnsFrom(f, c, j) = ConnsFrom(d, c, j)
    BY <2>5, SameConns
  <2>7. RazedConn(f, w, c, j, k)
    BY <1>1, <2>4, <2>5, <2>6 DEF RazedConn
  <2>8. Raze5(Tail(t2), f, c, i, j, k, n + 1)
    BY <1>1, <2>3, <2>5, <2>7 DEF Raze5
  <2>9. Point(Tail(t2), Dropped(d, x))
    BY <2>2, <2>8 DEF Point, RazePoint, f
  <2>. HIDE DEF x
  <2>. QED  BY <1>1, <1>7, <2>1, <2>4, <2>9, DropReached
<1>. QED  BY <1>8, <1>9

LEMMA Raze6Step ==
    ASSUME NEW t, NEW d, NEW t2, NEW d2, Step(t, d, t2, d2), NEW c \in Clients,
           NEW i \in Nat \ {0}, NEW j \in Nat \ {0}, NEW k \in Conns, Raze6(t, d, c, i, j, k)
    PROVE  Safe(t, d) /\ Reached(t2, d2)
<1>. DEFINE e == Swept(d, Db, "clients", i)
            v == Cleared(e, k, "subs")
            a == Cleared(d, k, "subs")
            f == Swept(a, Db, "clients", i)
            K == ConnsFrom(d, c, j) \cup {k}
<1>1. /\ Starts(t, Clear(k, "subs")) /\ Raze7Tail(Tail(t), c, i, j, k)
      /\ TypeOK(d) /\ k \notin ConnsFrom(d, c, j) /\ Razed(v, c, K) /\ k \in K
      /\ d.map[k]["services"] = <<>>
  BY DEF Raze6, Raze6Tail, RazedConn
<1>2. /\ k \in Hosts /\ k # Db /\ "subs" \in Maps /\ Db \in Hosts /\ "clients" \in Maps
      /\ "subs" \in Maps /\ "services" \in Maps
  BY MapNames, DistinctConstants
<1>3. /\ a.heap = d.heap /\ a.active = d.active /\ a.inactive = d.inactive
      /\ a.map[k]["subs"] = <<>> /\ a.map[k]["services"] = d.map[k]["services"]
  BY <1>1, <1>2, ClearedList
<1>4. Safe(t, d) /\ t2 = Tail(t) /\ d2 = a
  <2>1. TypeOK(e) /\ e.heap = d.heap
    BY <1>1, <1>2, SweptList
  <2>2. v.heap = d.heap
    BY <1>2, <2>1, ClearedList
  <2>. HIDE DEF v, K
  <2>3. k \in d.heap
    BY <1>1, <2>2, RazedHeap
  <2>. QED  BY <1>1, <2>3, ClearStep
<1>5. TypeOK(a) /\ ConnsFrom(a, c, j) = ConnsFrom(d, c, j)
  <2>1. TypeOK(a)
    BY <1>1, <1>2, ClearedOK
  <2>. HIDE DEF a
  <2>. QED  BY <1>3, <2>1, SameConns
<1>6. f = v /\ TypeOK(f)
  <2>1. f = v
    BY <1>1, <1>2, SweptCleared
  <2>. QED  BY <1>1, <2>1 DEF Razed
<1>7. Razed(f, c, K)
  BY <1>1, <1>6
<1>. HIDE DEF f, a
<1>9. RazedConn(d2, f, c, j, k)
  BY <1>1, <1>4, <1>5, <1>7 DEF RazedConn, a
<1>10. Raze7(t2, d2, c, i, j, k)
  BY <1>1, <1>3, <1>4, <1>5, <1>9 DEF Raze7, f
<1>. QED  BY <1>4, <1>10 DEF Reached, Point, RazePoint

LEMMA Raze7Step ==
    ASSUME NEW t, NEW d, NEW t2, NEW d2, Step(t, d, t2, d2), NEW c \in Clients,
           NEW i \in Nat \ {0}, NEW j \in Nat \ {0}, NEW k \in Conns, Raze7(t, d, c, i, j, k)
    PROVE  Safe(t, d) /\ Reached(t2, d2)
<1>. DEFINE v == Swept(d, Db, "clients", i)
            e == Unheaped(d, k)
            w == Unheaped(v, k)
            N == ConnsFrom(d, c, j)
            K == N \cup {k}
            a == Disowned(v, c)
<1>1. /\ Starts(t, Free(k)) /\ Raze2Tail(Tail(t), c, i, j) /\ TypeOK(d)
      /\ k \notin N /\ Razed(v, c, K) /\ k \in K
      /\ d.map[k]["services"] = <<>> /\ d.map[k]["subs"] = <<>>
  BY DEF Raze7, Raze7Tail, RazedConn
<1>2. k \in Hosts /\ k # Db /\ Db \in Hosts /\ k \notin Clients
  BY MapNames, DistinctConstants DEF Objects
<1>3. /\ TypeOK(v) /\ v.heap = d.heap
      /\ v.map[k]["services"] = <<>> /\ v.map[k]["subs"] = <<>>
  <2>1. TypeOK(v) /\ v.heap = d.heap
    BY <1>1, MapNames, SweptList
  <2>2. /\ v.map[k]["services"] = d.map[k]["services"]
        /\ v.map[k]["subs"] = d.map[k]["subs"]
    BY <1>1, <1>2, MapNames, SweptElsewhere
  <2>. QED  BY <1>1, <2>1, <2>2
<1>4. Safe(t, d)
  <2>. HIDE DEF v, K
  <2>1. k \in d.heap
    BY <1>1, <1>3, RazedHeap
  <2>. QED  BY <1>1, <2>1, SafeFree
<1>5. t2 = Tail(t) /\ d2 = e
  BY <1>1, <1>2 DEF Step, DoesFree
<1>6. TypeOK(e) /\ ConnsFrom(e, c, j) = N
  <2>1. TypeOK(e) /\ e.active = d.active /\ e.inactive = d.inactive
    BY <1>1, UnheapedFields
  <2>. HIDE DEF e
  <2>. QED  BY <2>1, SameConns
<1>7. Swept(e, Db, "clients", i) = w
  BY <1>1, SweptUnheaped
<1>8. TypeOK(w) /\ w.map = v.map
  BY <1>3, UnheapedFields
<1>9. Held(w, c, 0, {})
  <2>1. Held(v, c, 0, {}) /\ c \in Objects
    BY <1>1 DEF Razed, Objects
  <2>. QED  BY <1>3, <2>1, UnheapedHeld
<1>10. Disowned(w, c) = Unheaped(a, k)
  BY <1>3, DisownedUnheaped
<1>11. a.map = v.map
  BY <1>3, DisownedType
<1>12. Falling(Unheaped(a, k), {c} \X N, {c})
  <2>. DEFINE L == {c} \X K
              M == {c} \X N
              X == {c}
  <2>. HIDE DEF N
  <2>1. Without(L, M, c, k)
    BY <1>1, WithoutFrom
  <2>2. Falling(a, L, X)
    BY <1>1 DEF Razed
  <2>. HIDE DEF a, L, M, X
  <2>3. Falling(Unheaped(a, k), M, X)
    BY <1>3, <1>11, <2>1, <2>2, FallingConnFreed
  <2>. QED  BY <2>3 DEF M, X
<1>13. Empty(w, "timers")
  BY <1>1, <1>8 DEF Razed, Empty
<1>14. Razed(w, c, N)
  BY <1>8, <1>9, <1>10, <1>12, <1>13 DEF Razed
<1>15. Raze2(t2, d2, c, i, j)
  BY <1>1, <1>5, <1>6, <1>7, <1>14 DEF Raze2
<1>. QED  BY <1>4, <1>15 DEF Reached, Point, RazePoint

LEMMA Raze8Step ==
    ASSUME NEW t, NEW d, NEW t2, NEW d2, Step(t, d, t2, d2), NEW c \in Clients,
           NEW i \in Nat \ {0}, Raze8(t, d, c, i)
    PROVE  Safe(t, d) /\ Reached(t2, d2)
<1>. DEFINE v == Swept(d, Db, "clients", i)
            a == Disowned(d, c)
            b == Disowned(v, c)
            e == Unheaped(a, c)
            w == Unheaped(b, c)
<1>1. /\ Starts(t, Free(c)) /\ Down2(Tail(t), i) /\ TypeOK(d) /\ TypeOK(v) /\ Held(v, c, 0, {})
      /\ Falling(b, {c} \X {}, {c}) /\ Empty(v, "timers")
  BY DEF Raze8, Raze8Tail, Razed
<1>2. /\ v.heap = d.heap /\ Db \in Hosts /\ "timers" \in Maps
      /\ v.map[Db]["timers"] = d.map[Db]["timers"] /\ c \in Objects
  BY <1>1, MapNames, SweptList DEF Objects
<1>3. Safe(t, d)
  <2>1. c \in d.heap
    BY <1>1, <1>2 DEF Held
  <2>. QED  BY <1>1, <2>1, SafeFree
<1>4. t2 = Tail(t) /\ d2 = e
  BY <1>1 DEF Step, DoesFree
<1>5. TypeOK(a) /\ a.map = d.map
  BY <1>1, DisownedType
<1>6. /\ TypeOK(b) /\ b.heap = v.heap /\ b.ref = v.ref /\ b.map = v.map /\ Own(b, c) = {}
  BY <1>1, DisownedType
<1>7. TypeOK(e) /\ e.map = d.map
  BY <1>5, UnheapedFields
<1>8. Swept(e, Db, "clients", i) = w
  <2>1. b = Swept(a, Db, "clients", i)
    BY <1>1, DisownedSwept
  <2>2. Swept(e, Db, "clients", i) = Unheaped(Swept(a, Db, "clients", i), c)
    BY <1>5, SweptUnheaped
  <2>. QED  BY <2>1, <2>2
<1>. HIDE DEF a, b, e, v
<1>9. w = Freed(b, c) /\ Places(b.map, c) = {}
  BY <1>1, <1>2, <1>6, UnheapedFreed DEF Held
<1>10. Touches(b, w, c) /\ Gone(w, c)
  BY <1>2, <1>6, <1>9, FreeHeld
<1>. HIDE DEF w
<1>11. Own(w, c) = {} /\ Owned(w, {}, c) = {}
  <2>1. Own(w, c) = {}
    BY <1>6, <1>10, TouchesOwned
  <2>. QED  BY <2>1 DEF Owned
<1>12. Counted(w, {}, c)
  BY <1>10, <1>11, CountedNone
<1>13. Falling(w, {}, {})
  <2>1. {c} \X {} = {}
    OBVIOUS
  <2>2. Falling(b, {}, {c})
    BY <1>1, <2>1
  <2>3. {c} \subseteq {} \cup {c} /\ c \notin Services /\ c \notin Subs
    BY DistinctConstants
  <2>. QED  BY <1>10, <1>12, <2>2, <2>3, FallingStep
<1>14. Clients1(t2, d2, i)
  BY <1>1, <1>2, <1>4, <1>7, <1>8, <1>13 DEF Clients1, Empty
<1>. QED  BY <1>3, <1>14 DEF Reached, Point, DownPoint

LEMMA SweptBeside ==
    ASSUME NEW d, TypeOK(d), NEW h \in Hosts, NEW m \in Maps, NEW i \in Nat \ {0},
           NEW m2 \in Maps, m2 # m
    PROVE  Swept(d, h, m, i).map[h][m2] = d.map[h][m2]
BY SweptList

-----------------------------------------------------------------------------
(* sd_destroy(): the services and the subscriptions, then the database.     *)

\* Without connections or timers an object is in one map at most.
LEMMA BarePlaces ==
    ASSUME NEW d, Bare(d), NEW o \in Services \cup Subs, NEW m \in {"services", "subs"},
           o \in Kind(m)
    PROVE  Places(d.map, o) \subseteq {<<Db, m>>}
<1>1. /\ Counted(d, {}, o) /\ TypeOK(d) /\ d.heap \cap Conns = {}
      /\ d.map[Db]["timers"] = <<>>
  BY DEF Bare, Torn, Structure, Empty, Objects
<1>. SUFFICES ASSUME NEW x \in Places(d.map, o)
              PROVE  x = <<Db, m>>
  OBVIOUS
<1>2. x \in Hosts \X Maps /\ o \in Kind(x[2])
  BY <1>1, PlaceKind DEF TypeOK
<1>3. x[1] \in d.heap /\ x[1] \in Hosts /\ x[2] \in Maps /\ x = <<x[1], x[2]>>
  BY <1>1, <1>2 DEF Counted
<1>4. x[1] = Db
  BY <1>1, <1>3 DEF Hosts
<1>5. x[2] # "timers"
  <2>1. ~Contains(d.map[Db]["timers"], o)
    BY <1>1 DEF Contains
  <2>2. <<Db, "timers">> \notin Places(d.map, o)
    BY <2>1, PlaceOf, MapNames
  <2>. QED  BY <1>3, <1>4, <2>2
<1>6. x[2] = m
  BY <1>2, <1>3, <1>5, DistinctConstants, Kinds DEF Maps
<1>. QED  BY <1>3, <1>4, <1>6

LEMMA BareSweep ==
    ASSUME NEW d, TypeOK(d), NEW m \in {"services", "subs"}, NEW i \in Nat \ {0},
           i <= Len(d.map[Db][m]), Bare(Swept(d, Db, m, i))
    PROVE  LET x == d.map[Db][m][i]
               w == Swept(Freed(d, x), Db, m, i + 1)
           IN  /\ x \in Services \cup Subs /\ x \in Kind(m) /\ x \in d.heap /\ d.ref[x] = 1
               /\ TypeOK(Freed(d, x)) /\ Freed(d, x).map = d.map
               /\ Touches(Swept(d, Db, m, i), w, x) /\ Gone(w, x) /\ Bare(w)
<1>. DEFINE x == d.map[Db][m][i]
            v == Swept(d, Db, m, i)
            e == Freed(d, x)
            w == Swept(e, Db, m, i + 1)
<1>1. Db \in Hosts /\ m \in Maps /\ "clients" \in Maps /\ "timers" \in Maps
  BY MapNames
<1>2. x \in Kind(m) /\ x \in Objects /\ <<Db, m>> \in Places(v.map, x)
  BY <1>1, SweepStep
<1>3. x \in Services \cup Subs /\ x \notin Clients
  BY <1>2, Kinds, DistinctConstants
<1>4. v.heap = d.heap /\ v.ref = d.ref
  BY <1>1, SweptList
<1>5. Places(v.map, x) = {<<Db, m>>}
  <2>. HIDE DEF x, v
  <2>1. Bare(v)
    BY DEF v
  <2>. QED  BY <1>2, <1>3, <2>1, BarePlaces
<1>6. Counted(v, {}, x) /\ Torn(v, {}, {})
  BY <1>2 DEF Bare, Torn
<1>7. x \in d.heap /\ d.ref[x] = 1
  <2>. DEFINE a == <<Db, m>>
  <2>. HIDE DEF v, x, a
  <2>1. Places(v.map, x) = {a}
    BY <1>5 DEF a
  <2>2. x \in v.heap /\ v.ref[x] = 1
    BY <1>6, <2>1, CountedOnce
  <2>. QED  BY <1>4, <2>2
<1>8. TypeOK(e) /\ e.map = d.map
  BY <1>2, FreedOK DEF Touches
<1>9. Touches(v, w, x) /\ Gone(w, x)
  BY <1>1, <1>5, SweepFree
<1>10. \A m2 \in {"clients", "timers"} : w.map[Db][m2] = v.map[Db][m2]
  <2>. SUFFICES ASSUME NEW m2 \in {"clients", "timers"}
                PROVE  w.map[Db][m2] = v.map[Db][m2]
    OBVIOUS
  <2>. DEFINE p == i + 1
  <2>1. p \in Nat \ {0} /\ m2 # m /\ m2 \in Maps
    BY <1>1
  <2>. HIDE DEF e, p
  <2>2. Swept(e, Db, m, p).map[Db][m2] = e.map[Db][m2]
    BY <1>1, <1>8, <2>1, SweptBeside
  <2>3. v.map[Db][m2] = d.map[Db][m2]
    BY <1>1, <2>1, SweptBeside
  <2>. QED  BY <1>8, <2>2, <2>3 DEF p
<1>11. Torn(w, {}, {})
  <2>. HIDE DEF v, w, x
  <2>1. Counted(w, {}, x)
    BY <1>3, <1>9, CountedNone
  <2>2. {} \subseteq {} \cup {x}
    OBVIOUS
  <2>. QED  BY <1>6, <1>9, <2>1, <2>2, TornStep
<1>12. w.heap \cap Conns = {}
  BY <1>9, MapNames DEF Bare, Touches
<1>13. Bare(w)
  BY <1>10, <1>11, <1>12 DEF Bare, Empty
<1>. QED  BY <1>2, <1>3, <1>7, <1>8, <1>9, <1>13

LEMMA Services1Step ==
    ASSUME NEW t, NEW d, NEW t2, NEW d2, Step(t, d, t2, d2), NEW i \in Nat \ {0},
           Services1(t, d, i)
    PROVE  Safe(t, d) /\ Reached(t2, d2)
<1>. DEFINE m == "services"
            q == d.map[Db][m]
            x == q[i]
            v == Swept(d, Db, m, i)
<1>1. /\ Starts(t, Foreach(Db, m, i, "dec_ref", Db)) /\ Down3c(Tail(t))
      /\ TypeOK(d) /\ Bare(v) /\ Anchored(v, "subs")
  BY DEF Services1, Down3
<1>2. Db \in Hosts /\ m \in Maps /\ Db \in d.heap
  <2>1. Db \in v.heap
    BY <1>1 DEF Bare, Torn, Structure
  <2>2. v.heap = d.heap
    BY <1>1, MapNames, SweptList
  <2>. QED  BY <2>1, <2>2, MapNames
<1>3. SweepDone(t, d, t2, d2, Db, m, i)
  BY <1>1, <1>2, SweepTurn
<1>4. Safe(t, d) /\ d2 = d
  BY <1>3 DEF SweepDone
<1>5. CASE ~(i <= Len(q))
  <2>1. t2 = Tail(t)
    BY <1>3, <1>5 DEF SweepDone
  <2>2. Services2(t2, d2)
    BY <1>1, <1>2, <1>4, <1>5, <2>1, SweptLast DEF Services2
  <2>. QED  BY <1>4, <2>2 DEF Reached, Point, DownPoint
<1>6. CASE i <= Len(q)
  <2>. DEFINE e == Freed(d, x)
              w == Swept(e, Db, m, i + 1)
  <2>1. Starts(t2, Dec(x)) /\ Next2(t, Tail(t2), Foreach(Db, m, i + 1, "dec_ref", Db))
    BY <1>3, <1>6 DEF SweepDone
  <2>2. i + 1 \in Nat \ {0} /\ m \in {"services", "subs"}
    OBVIOUS
  <2>3. Down3(Tail(t2), i + 1)
    BY <1>1, <2>1 DEF Down3, Next2
  <2>4. /\ x \in Services \cup Subs /\ x \in Kind(m) /\ x \in d.heap /\ d.ref[x] = 1
        /\ TypeOK(e) /\ e.map = d.map /\ Touches(v, w, x) /\ Gone(w, x) /\ Bare(w)
    <3>. HIDE DEF m
    <3>. QED  BY <1>1, <1>6, <2>2, BareSweep
  <2>. HIDE DEF e, v, w
  <2>6. Anchored(w, "subs")
    <3>1. x \notin Kind("subs") /\ "subs" \in Maps
      BY <2>4, Kinds, DistinctConstants, MapNames
    <3>. QED  BY <1>1, <2>4, <3>1, AnchoredStep
  <2>7. Services1(Tail(t2), e, i + 1)
    BY <2>3, <2>4, <2>6 DEF Services1, w
  <2>8. Point(Tail(t2), Freed(d, x))
    BY <2>2, <2>7 DEF Point, DownPoint, e
  <2>. HIDE DEF x
  <2>. QED  BY <1>1, <1>4, <2>1, <2>4, <2>8, FreeReached
<1>. QED  BY <1>5, <1>6

LEMMA Services2Step ==
    ASSUME NEW t, NEW d, NEW t2, NEW d2, Step(t, d, t2, d2), Services2(t, d)
    PROVE  Safe(t, d) /\ Reached(t2, d2)
<1>. DEFINE e == Cleared(d, Db, "services")
<1>1. /\ Starts(t, Clear(Db, "services")) /\ Down4(Tail(t), 1) /\ TypeOK(d) /\ Bare(e)
      /\ Anchored(e, "subs")
  BY DEF Services2, Down3c
<1>2. e.heap = d.heap /\ e.map[Db]["services"] = <<>>
  BY <1>1, MapNames, ClearedList
<1>3. TypeOK(e) /\ Db \in e.heap
  BY <1>1 DEF Bare, Torn, Structure
<1>4. Safe(t, d) /\ t2 = Tail(t) /\ d2 = e
  BY <1>1, <1>2, <1>3, ClearStep
<1>. HIDE DEF e
<1>5. Swept(e, Db, "subs", 1) = e
  BY <1>3, MapNames, SweptFirst
<1>6. Subscriptions1(t2, d2, 1) /\ 1 \in Nat \ {0}
  BY <1>1, <1>2, <1>3, <1>4, <1>5 DEF Subscriptions1, Empty
<1>. QED  BY <1>4, <1>6 DEF Reached, Point, DownPoint

LEMMA Subscriptions1Step ==
    ASSUME NEW t, NEW d, NEW t2, NEW d2, Step(t, d, t2, d2), NEW i \in Nat \ {0},
           Subscriptions1(t, d, i)
    PROVE  Safe(t, d) /\ Reached(t2, d2)
<1>. DEFINE m == "subs"
            q == d.map[Db][m]
            x == q[i]
            v == Swept(d, Db, m, i)
<1>1. /\ Starts(t, Foreach(Db, m, i, "dec_ref", Db)) /\ Down4c(Tail(t))
      /\ TypeOK(d) /\ Bare(v) /\ Empty(d, "services")
  BY DEF Subscriptions1, Down4
<1>2. Db \in Hosts /\ m \in Maps /\ Db \in d.heap
  <2>1. Db \in v.heap
    BY <1>1 DEF Bare, Torn, Structure
  <2>2. v.heap = d.heap
    BY <1>1, MapNames, SweptList
  <2>. QED  BY <2>1, <2>2, MapNames
<1>3. SweepDone(t, d, t2, d2, Db, m, i)
  BY <1>1, <1>2, SweepTurn
<1>4. Safe(t, d) /\ d2 = d
  BY <1>3 DEF SweepDone
<1>5. CASE ~(i <= Len(q))
  <2>1. t2 = Tail(t)
    BY <1>3, <1>5 DEF SweepDone
  <2>2. Subscriptions2(t2, d2)
    BY <1>1, <1>2, <1>4, <1>5, <2>1, SweptLast DEF Subscriptions2
  <2>. QED  BY <1>4, <2>2 DEF Reached, Point, DownPoint
<1>6. CASE i <= Len(q)
  <2>. DEFINE e == Freed(d, x)
              w == Swept(e, Db, m, i + 1)
  <2>1. Starts(t2, Dec(x)) /\ Next2(t, Tail(t2), Foreach(Db, m, i + 1, "dec_ref", Db))
    BY <1>3, <1>6 DEF SweepDone
  <2>2. i + 1 \in Nat \ {0} /\ m \in {"services", "subs"}
    OBVIOUS
  <2>3. Down4(Tail(t2), i + 1)
    BY <1>1, <2>1 DEF Down4, Next2
  <2>4. /\ x \in Services \cup Subs /\ x \in Kind(m) /\ x \in d.heap /\ d.ref[x] = 1
        /\ TypeOK(e) /\ e.map = d.map /\ Touches(v, w, x) /\ Gone(w, x) /\ Bare(w)
    <3>. HIDE DEF m
    <3>. QED  BY <1>1, <1>6, <2>2, BareSweep
  <2>. HIDE DEF e, v, w
  <2>6. Empty(e, "services")
    BY <1>1, <2>4 DEF Empty
  <2>7. Subscriptions1(Tail(t2), e, i + 1)
    BY <2>3, <2>4, <2>6 DEF Subscriptions1, w
  <2>8. Point(Tail(t2), Freed(d, x))
    BY <2>2, <2>7 DEF Point, DownPoint, e
  <2>. HIDE DEF x
  <2>. QED  BY <1>1, <1>4, <2>1, <2>4, <2>8, FreeReached
<1>. QED  BY <1>5, <1>6

LEMMA Subscriptions2Step ==
    ASSUME NEW t, NEW d, NEW t2, NEW d2, Step(t, d, t2, d2), Subscriptions2(t, d)
    PROVE  Safe(t, d) /\ Reached(t2, d2)
<1>. DEFINE e == Cleared(d, Db, "subs")
<1>1. /\ Starts(t, Clear(Db, "subs")) /\ Down5(Tail(t)) /\ TypeOK(d) /\ Bare(e)
      /\ Empty(d, "services")
  BY DEF Subscriptions2, Down4c
<1>2. /\ e.heap = d.heap /\ e.map[Db]["subs"] = <<>>
      /\ e.map[Db]["services"] = d.map[Db]["services"]
  BY <1>1, MapNames, ClearedList
<1>3. TypeOK(e) /\ Db \in e.heap
  BY <1>1 DEF Bare, Torn, Structure
<1>4. Safe(t, d) /\ t2 = Tail(t) /\ d2 = e
  BY <1>1, <1>2, <1>3, ClearStep
<1>. HIDE DEF e
<1>5. Database(t2, d2)
  BY <1>1, <1>2, <1>4 DEF Database, Empty
<1>. QED  BY <1>4, <1>5 DEF Reached, Point, DownPoint

LEMMA DatabaseStep ==
    ASSUME NEW t, NEW d, NEW t2, NEW d2, Step(t, d, t2, d2), Database(t, d)
    PROVE  Safe(t, d) /\ Reached(t2, d2)
<1>1. /\ Starts(t, Free(Db)) /\ Tail(t) = <<>> /\ Bare(d)
      /\ Empty(d, "services") /\ Empty(d, "subs")
  BY DEF Database, Down5, Only
<1>2. /\ TypeOK(d) /\ Db \in d.heap /\ Db \notin Clients /\ d.heap \cap Conns = {}
      /\ Empty(d, "timers") /\ Empty(d, "clients")
  BY <1>1, DistinctConstants DEF Bare, Torn, Structure, Objects
<1>3. Safe(t, d)
  BY <1>1, <1>2, SafeFree
<1>4. t2 = <<>> /\ d2 = Unheaped(d, Db)
  BY <1>1, <1>2 DEF Step, DoesFree
<1>5. d2.heap = d.heap \ {Db} /\ d2.ref = d.ref
  BY <1>2, <1>4, UnheapedFields
<1>6. ASSUME NEW o \in Objects
      PROVE  o \notin d.heap /\ d.ref[o] = 0
  <2>1. Counted(d, {}, o)
    BY <1>1 DEF Bare, Torn
  <2>2. Places(d.map, o) = {}
    <3>. SUFFICES ASSUME NEW x \in Places(d.map, o)
                  PROVE  FALSE
      OBVIOUS
    <3>1. x \in Hosts \X Maps /\ Contains(d.map[x[1]][x[2]], o)
      BY DEF Places
    <3>2. x[1] \in d.heap /\ x[1] \in Hosts /\ x[2] \in Maps
      BY <2>1, <3>1 DEF Counted
    <3>3. x[1] = Db
      BY <1>2, <3>2 DEF Hosts
    <3>4. d.map[Db][x[2]] = <<>>
      BY <1>1, <1>2, <3>2 DEF Maps, Empty
    <3>. QED  BY <3>1, <3>3, <3>4 DEF Contains
  <2>3. Cardinality({}) = 0
    BY FS_EmptySet
  <2>. QED  BY <2>1, <2>2, <2>3 DEF Counted
<1>7. d2.heap = {}
  BY <1>2, <1>5, <1>6 DEF TypeOK, Hosts
<1>8. Ended(t2, d2)
  BY <1>4, <1>5, <1>6, <1>7 DEF Ended
<1>. QED  BY <1>3, <1>8 DEF Reached, Point

-----------------------------------------------------------------------------
(* Every point is left safely and for another one.                          *)

LEMMA ClientStep ==
    ASSUME NEW t, NEW d, NEW t2, NEW d2, Step(t, d, t2, d2), ClientPoint(t, d)
    PROVE  Safe(t, d) /\ Reached(t2, d2)
<1>1. PICK c \in Clients :
         \/ Connect1(t, d, c) \/ Connect2(t, d, c) \/ Reconnect(t, d, c)
         \/ Leave1(t, d, {}, c) \/ Leave2(t, d, c) \/ Leave3(t, d, c) \/ Destroy2(t, d, c)
         \/ \E i \in Nat \ {0} : Destroy1(t, d, c, i, {})
         \/ \E k \in Conns :
               \/ Subs4(t, d, c, k) \/ Keep(t, d, c, k)
               \/ Conn1(t, d, c, k) \/ Conn2(t, d, c, k) \/ Conn3(t, d, c, k)
               \/ Conn4(t, d, c, k) \/ Conn5(t, d, c, k)
               \/ \E i \in Nat \ {0} :
                     \/ Subs1(t, d, c, k, i) \/ Subs2(t, d, c, k, i) \/ Subs3(t, d, c, k, i)
                     \/ Orphan1(t, d, c, k, i) \/ Orphan2(t, d, c, k, i)
  BY DEF ClientPoint
<1>2. CASE Connect1(t, d, c) \/ Connect2(t, d, c) \/ Reconnect(t, d, c)
  BY <1>2, Connect1Step, Connect2Step, ReconnectStep
<1>3. CASE Leave1(t, d, {}, c) \/ Leave2(t, d, c) \/ Leave3(t, d, c) \/ Destroy2(t, d, c)
  BY <1>3, Leave1Step, Leave2Step, Leave3Step, Destroy2Step
<1>4. CASE \E i \in Nat \ {0} : Destroy1(t, d, c, i, {})
  BY <1>4, Destroy1Step
<1>5. ASSUME NEW k \in Conns,
             \/ Subs4(t, d, c, k) \/ Keep(t, d, c, k)
             \/ Conn1(t, d, c, k) \/ Conn2(t, d, c, k) \/ Conn3(t, d, c, k)
             \/ Conn4(t, d, c, k) \/ Conn5(t, d, c, k)
      PROVE  Safe(t, d) /\ Reached(t2, d2)
  BY <1>5, Subs4Step, KeepStep, ConnEmptyStep, Conn5Step
<1>6. ASSUME NEW k \in Conns, NEW i \in Nat \ {0},
             \/ Subs1(t, d, c, k, i) \/ Subs2(t, d, c, k, i) \/ Subs3(t, d, c, k, i)
             \/ Orphan1(t, d, c, k, i) \/ Orphan2(t, d, c, k, i)
      PROVE  Safe(t, d) /\ Reached(t2, d2)
  BY <1>6, Subs1Step, Subs2Step, Subs3Step, Orphan1Step, Orphan2Step
<1>. QED  BY <1>1, <1>2, <1>3, <1>4, <1>5, <1>6

LEMMA ServiceStep ==
    ASSUME NEW t, NEW d, NEW t2, NEW d2, Step(t, d, t2, d2), ServicePoint(t, d)
    PROVE  Safe(t, d) /\ Reached(t2, d2)
<1>1. PICK c \in Clients, s \in Services :
         \/ Capture1(t, d, c, s) \/ Capture3(t, d, c, s)
         \/ Removal0(t, d, c, s) \/ Removal5(t, d, {}, c, s) \/ Removal6(t, d, c, s)
         \/ Removal7(t, d, c, s) \/ Removal8(t, d, c, s) \/ Removal10(t, d, c, s)
         \/ \E k \in Conns :
               \/ Publish1(t, d, c, s, k) \/ Publish3(t, d, c, s, k) \/ Publish4(t, d, c, s, k)
               \/ Capture2(t, d, c, s, k) \/ Commit1(t, d, c, s, k)
               \/ Removal1(t, d, c, s, k) \/ Removal2(t, d, c, s, k)
               \/ Removal3(t, d, c, s, k) \/ Removal4(t, d, c, s, k)
  BY DEF ServicePoint
<1>2. CASE Capture1(t, d, c, s) \/ Capture3(t, d, c, s)
  BY <1>2, Capture1Step, Capture3Step
<1>3. CASE \/ Removal0(t, d, c, s) \/ Removal5(t, d, {}, c, s) \/ Removal6(t, d, c, s)
           \/ Removal7(t, d, c, s) \/ Removal8(t, d, c, s) \/ Removal10(t, d, c, s)
  BY <1>3, Removal0Step, Removal5Step, Removal6Step, Removal7Step, Removal8Step, Removal10Step
<1>4. ASSUME NEW k \in Conns,
             \/ Publish1(t, d, c, s, k) \/ Publish3(t, d, c, s, k) \/ Publish4(t, d, c, s, k)
             \/ Capture2(t, d, c, s, k) \/ Commit1(t, d, c, s, k)
      PROVE  Safe(t, d) /\ Reached(t2, d2)
  BY <1>4, Publish1Step, Publish3Step, Publish4Step, Capture2Step, Commit1Step
<1>5. ASSUME NEW k \in Conns,
             \/ Removal1(t, d, c, s, k) \/ Removal2(t, d, c, s, k)
             \/ Removal3(t, d, c, s, k) \/ Removal4(t, d, c, s, k)
      PROVE  Safe(t, d) /\ Reached(t2, d2)
  BY <1>5, Removal1Step, Removal2Step, Removal3Step, Removal4Step
<1>. QED  BY <1>1, <1>2, <1>3, <1>4, <1>5

LEMMA SubStep ==
    ASSUME NEW t, NEW d, NEW t2, NEW d2, Step(t, d, t2, d2), SubPoint(t, d)
    PROVE  Safe(t, d) /\ Reached(t2, d2)
<1>1. PICK b \in Subs :
         \/ \E c \in Clients : Unsubscribe2(t, d, c, b)
         \/ \E c \in Clients, k \in Conns :
               \/ Subscribe1(t, d, c, b, k) \/ Subscribe2(t, d, c, b, k)
               \/ Unsubscribe1(t, d, c, b, k)
         \/ \E i \in Nat \ {0} :
               Subscribe3(t, d, b, i) \/ \E s \in Services : Subscribe4(t, d, b, s, i)
  BY DEF SubPoint
<1>2. CASE \E c \in Clients : Unsubscribe2(t, d, c, b)
  BY <1>2, Unsubscribe2Step
<1>3. CASE \E c \in Clients, k \in Conns :
              \/ Subscribe1(t, d, c, b, k) \/ Subscribe2(t, d, c, b, k)
              \/ Unsubscribe1(t, d, c, b, k)
  BY <1>3, Subscribe1Step, Subscribe2Step, Unsubscribe1Step
<1>4. CASE \E i \in Nat \ {0} :
              Subscribe3(t, d, b, i) \/ \E s \in Services : Subscribe4(t, d, b, s, i)
  BY <1>4, Subscribe3Step, Subscribe4Step
<1>. QED  BY <1>1, <1>2, <1>3, <1>4

LEMMA RazeStep ==
    ASSUME NEW t, NEW d, NEW t2, NEW d2, Step(t, d, t2, d2), RazePoint(t, d)
    PROVE  Safe(t, d) /\ Reached(t2, d2)
<1>1. PICK c \in Clients, i \in Nat \ {0} :
         \/ Raze1(t, d, c, i) \/ Raze8(t, d, c, i)
         \/ \E j \in Nat \ {0} :
               \/ Raze2(t, d, c, i, j)
               \/ \E k \in Conns :
                     \/ Raze4(t, d, c, i, j, k) \/ Raze6(t, d, c, i, j, k)
                     \/ Raze7(t, d, c, i, j, k)
                     \/ \E n \in Nat \ {0} :
                           Raze3(t, d, c, i, j, k, n) \/ Raze5(t, d, c, i, j, k, n)
  BY DEF RazePoint
<1>2. CASE Raze1(t, d, c, i) \/ Raze8(t, d, c, i)
  BY <1>2, Raze1Step, Raze8Step
<1>3. CASE \E j \in Nat \ {0} : Raze2(t, d, c, i, j)
  BY <1>3, Raze2Step
<1>4. ASSUME NEW j \in Nat \ {0}, NEW k \in Conns,
             \/ Raze4(t, d, c, i, j, k) \/ Raze6(t, d, c, i, j, k) \/ Raze7(t, d, c, i, j, k)
      PROVE  Safe(t, d) /\ Reached(t2, d2)
  BY <1>4, Raze4Step, Raze6Step, Raze7Step
<1>5. ASSUME NEW j \in Nat \ {0}, NEW k \in Conns, NEW n \in Nat \ {0},
             Raze3(t, d, c, i, j, k, n) \/ Raze5(t, d, c, i, j, k, n)
      PROVE  Safe(t, d) /\ Reached(t2, d2)
  BY <1>5, Raze3Step, Raze5Step
<1>. QED  BY <1>1, <1>2, <1>3, <1>4, <1>5

LEMMA DownStep ==
    ASSUME NEW t, NEW d, NEW t2, NEW d2, Step(t, d, t2, d2), DownPoint(t, d)
    PROVE  Safe(t, d) /\ Reached(t2, d2)
<1>1. CASE \/ Timers2(t, d) \/ Clients2(t, d) \/ Services2(t, d) \/ Subscriptions2(t, d)
           \/ Database(t, d)
  BY <1>1, Timers2Step, Clients2Step, Services2Step, Subscriptions2Step, DatabaseStep
<1>2. CASE \E i \in Nat \ {0} :
              Timers1(t, d, i) \/ Clients1(t, d, i) \/ Services1(t, d, i) \/ Subscriptions1(t, d, i)
  BY <1>2, Timers1Step, Clients1Step, Services1Step, Subscriptions1Step
<1>. QED  BY <1>1, <1>2 DEF DownPoint

LEMMA ToldStep ==
    ASSUME NEW t, NEW d, NEW t2, NEW d2, Step(t, d, t2, d2), NEW s \in Services, Told(t, d, s)
    PROVE  Safe(t, d) /\ Reached(t2, d2)
<1>1. PICK c \in Clients :
         \/ \E k \in Conns, i \in Nat : Orphan3(t, d, c, k, i, s)
         \/ \E k \in Conns : Publish2(t, d, c, s, k) \/ Commit2(t, d, c, s, k)
         \/ Removal9(t, d, c, s)
  BY DEF Told
<1>2. CASE \E k \in Conns, i \in Nat : Orphan3(t, d, c, k, i, s)
  BY <1>2, Orphan3Step
<1>3. CASE \E k \in Conns : Publish2(t, d, c, s, k) \/ Commit2(t, d, c, s, k)
  BY <1>3, Publish2Step, Commit2Step
<1>4. CASE Removal9(t, d, c, s)
  BY <1>4, Removal9Step
<1>. QED  BY <1>1, <1>2, <1>3, <1>4

LEMMA PointStep ==
    ASSUME NEW t, NEW d, NEW t2, NEW d2, Step(t, d, t2, d2), t # <<>>, Reached(t, d)
    PROVE  Safe(t, d) /\ Reached(t2, d2)
<1>1. CASE Telling(t, d) \/ Dropping(t, d) \/ Freeing(t, d)
  BY <1>1, TellingStep, DroppingStep, FreeingStep
<1>2. CASE ClientPoint(t, d) \/ ServicePoint(t, d) \/ SubPoint(t, d)
  BY <1>2, ClientStep, ServiceStep, SubStep
<1>3. CASE RazePoint(t, d) \/ DownPoint(t, d) \/ \E s \in Services : Told(t, d, s)
  BY <1>3, RazeStep, DownStep, ToldStep
<1>4. ~Idle(t, d) /\ ~Ended(t, d)
  BY DEF Idle, Ended
<1>. QED  BY <1>1, <1>2, <1>3, <1>4 DEF Reached, Point

-----------------------------------------------------------------------------
(* A statement can always be run, so that what every step shows of the state *)
(* before it holds of every state with a statement left.                     *)

\* Only one of the statements is at the head.
LEMMA OtherStatements ==
    ASSUME NEW t, NEW d, NEW t2, NEW d2
    PROVE  /\ Head(t).op # "inc_ref" => DoesInc(t, d, t2, d2)
           /\ Head(t).op # "dec_ref" => DoesDec(t, d, t2, d2)
           /\ Head(t).op # "free" => DoesFree(t, d, t2, d2)
           /\ Head(t).op # "add" => DoesAdd(t, d, t2, d2)
           /\ Head(t).op # "del" => DoesDel(t, d, t2, d2)
           /\ Head(t).op # "clear" => DoesClear(t, d, t2, d2)
           /\ Head(t).op # "foreach" => DoesForeach(t, d, t2, d2)
           /\ Head(t).op # "notify" => DoesNotify(t, d, t2, d2)
           /\ Head(t).op # "commit" => DoesCommit(t, d, t2, d2)
           /\ Head(t).op # "maintain_orphans" => DoesMaintain(t, d, t2, d2)
           /\ Head(t).op # "capture_service" => DoesCapture(t, d, t2, d2)
           /\ Head(t).op # "remove_service" => DoesRemove(t, d, t2, d2)
           /\ Head(t).op # "conn_create" => DoesConnect(t, d, t2, d2)
           /\ Head(t).op # "keep_conn" => DoesKeep(t, d, t2, d2)
           /\ Head(t).op # "drop_conn" => DoesDrop(t, d, t2, d2)
           /\ Head(t).op # "destroy_conns" => DoesDestroy(t, d, t2, d2)
           /\ Head(t).op # "drop_client" => DoesLeave(t, d, t2, d2)
<1>1. Head(t).op # "inc_ref" => DoesInc(t, d, t2, d2)
  BY DEF DoesInc, Starts, Inc
<1>2. Head(t).op # "dec_ref" => DoesDec(t, d, t2, d2)
  BY DEF DoesDec, Starts, Dec
<1>3. Head(t).op # "free" => DoesFree(t, d, t2, d2)
  BY DEF DoesFree, Starts, Free
<1>4. Head(t).op # "add" => DoesAdd(t, d, t2, d2)
  BY DEF DoesAdd, Starts, Add
<1>5. Head(t).op # "del" => DoesDel(t, d, t2, d2)
  BY DEF DoesDel, Starts, Del
<1>6. Head(t).op # "clear" => DoesClear(t, d, t2, d2)
  BY DEF DoesClear, Starts, Clear
<1>7. Head(t).op # "foreach" => DoesForeach(t, d, t2, d2)
  BY DEF DoesForeach, Starts, Foreach
<1>8. Head(t).op # "notify" => DoesNotify(t, d, t2, d2)
  BY DEF DoesNotify, Starts, Notify
<1>9. Head(t).op # "commit" => DoesCommit(t, d, t2, d2)
  BY DEF DoesCommit, Starts, Commit
<1>10. Head(t).op # "maintain_orphans" => DoesMaintain(t, d, t2, d2)
  BY DEF DoesMaintain, Starts, Maintain
<1>11. Head(t).op # "capture_service" => DoesCapture(t, d, t2, d2)
  BY DEF DoesCapture, Starts, Capture
<1>12. Head(t).op # "remove_service" => DoesRemove(t, d, t2, d2)
  BY DEF DoesRemove, Starts, Only, RemoveService
<1>13. Head(t).op # "conn_create" => DoesConnect(t, d, t2, d2)
  BY DEF DoesConnect, Starts, NewConn
<1>14. Head(t).op # "keep_conn" => DoesKeep(t, d, t2, d2)
  BY DEF DoesKeep, Starts, KeepConn
<1>15. Head(t).op # "drop_conn" => DoesDrop(t, d, t2, d2)
  BY DEF DoesDrop, Starts, DropConn
<1>16. Head(t).op # "destroy_conns" => DoesDestroy(t, d, t2, d2)
  BY DEF DoesDestroy, Starts, DestroyConns
<1>17. Head(t).op # "drop_client" => DoesLeave(t, d, t2, d2)
  BY DEF DoesLeave, Starts, DropClient
<1>. QED  BY <1>1, <1>2, <1>3, <1>4, <1>5, <1>6, <1>7, <1>8, <1>9, <1>10, <1>11, <1>12,
             <1>13, <1>14, <1>15, <1>16, <1>17

\* What a program starts with and is followed by can be given.
LEMMA SomeNext ==
    ASSUME NEW t, IsSeq(t), t # <<>>, NEW a
    PROVE  \E t2 : Next2(t, t2, a)
<1>1. IsSeq(Tail(t))
  BY TailSeq
<1>. QED  BY <1>1, Push1 DEF Next2

LEMMA SomeNext2 ==
    ASSUME NEW t, IsSeq(t), t # <<>>, NEW a, NEW b
    PROVE  \E t2 : Starts(t2, a) /\ Next2(t, Tail(t2), b)
<1>. DEFINE r == Prog1(b, Tail(t))
<1>1. IsSeq(r) /\ Starts(r, b) /\ Tail(r) = Tail(t)
  BY TailSeq, Push1
<1>. HIDE DEF r
<1>2. Starts(Prog1(a, r), a) /\ Tail(Prog1(a, r)) = r
  BY <1>1, Push1
<1>. QED  BY <1>1, <1>2 DEF Next2

LEMMA SomeCount ==
    ASSUME NEW t, IsSeq(t), t # <<>>, NEW d
    PROVE  /\ \E t2, d2 : DoesInc(t, d, t2, d2)
           /\ \E t2, d2 : DoesDec(t, d, t2, d2)
           /\ \E t2, d2 : DoesFree(t, d, t2, d2)
<1>. DEFINE a == Head(t).o
<1>1. /\ \A o : Starts(t, Inc(o)) => o = a
      /\ \A o : Starts(t, Dec(o)) => o = a
      /\ \A o : Starts(t, Free(o)) => o = a
  BY DEF Starts, Inc, Dec, Free
<1>. HIDE DEF a
<1>2. DoesInc(t, d, Tail(t), Inced(d, a))
  BY <1>1 DEF DoesInc
<1>3. \E t2, d2 : DoesDec(t, d, t2, d2)
  <2>1. CASE d.ref[a] # 1
    <3>1. DoesDec(t, d, Tail(t), Dropped(d, a))
      BY <1>1, <2>1 DEF DoesDec
    <3>. QED  BY <3>1
  <2>2. CASE d.ref[a] = 1 /\ a \notin Clients
    <3>1. PICK t2 : Next2(t, t2, Free(a))
      BY SomeNext
    <3>2. DoesDec(t, d, t2, Dropped(d, a))
      BY <1>1, <2>2, <3>1 DEF DoesDec
    <3>. QED  BY <3>2
  <2>3. CASE d.ref[a] = 1 /\ a \in Clients
    <3>1. PICK t2 : Starts(t2, DestroyConns(a, 1)) /\ Next2(t, Tail(t2), Free(a))
      BY SomeNext2
    <3>2. DoesDec(t, d, t2, Dropped(d, a))
      BY <1>1, <2>3, <3>1 DEF DoesDec
    <3>. QED  BY <3>2
  <2>. QED  BY <2>1, <2>2, <2>3
<1>4. \E t2, d2 : DoesFree(t, d, t2, d2)
  <2>1. CASE a \in Clients
    <3>1. DoesFree(t, d, Tail(t), Unheaped(Disowned(d, a), a))
      BY <1>1, <2>1 DEF DoesFree
    <3>. QED  BY <3>1
  <2>2. CASE a \notin Clients
    <3>1. DoesFree(t, d, Tail(t), Unheaped(d, a))
      BY <1>1, <2>2 DEF DoesFree
    <3>. QED  BY <3>1
  <2>. QED  BY <2>1, <2>2
<1>. QED  BY <1>2, <1>3, <1>4

LEMMA SomeList ==
    ASSUME NEW t, IsSeq(t), t # <<>>, NEW d
    PROVE  /\ \E t2, d2 : DoesAdd(t, d, t2, d2)
           /\ \E t2, d2 : DoesDel(t, d, t2, d2)
           /\ \E t2, d2 : DoesClear(t, d, t2, d2)
           /\ \E t2, d2 : DoesForeach(t, d, t2, d2)
           /\ \E t2, d2 : DoesNotify(t, d, t2, d2)
<1>. DEFINE a == Head(t)
<1>1. /\ \A h, m, o, c : Starts(t, Add(h, m, o, c)) => h = a.h /\ m = a.m /\ o = a.o
      /\ \A h, m, o, c : Starts(t, Del(h, m, o, c)) => h = a.h /\ m = a.m /\ o = a.o
      /\ \A h, m : Starts(t, Clear(h, m)) => h = a.o /\ m = a.m
      /\ \A h, m, i, o, cb : Starts(t, Foreach(h, m, i, cb, o)) =>
            h = a.h /\ m = a.m /\ i = a.i /\ cb = a.cb /\ o = a.o
  BY DEF Starts, Add, Del, Clear, Foreach
<1>. HIDE DEF a
<1>2. DoesAdd(t, d, Tail(t), Put(d, a.h, a.m, a.o))
  BY <1>1 DEF DoesAdd
<1>3. \E t2, d2 : DoesDel(t, d, t2, d2)
  <2>1. PICK t2 : Next2(t, t2, Dec(a.o))
    BY SomeNext
  <2>2. DoesDel(t, d, t2, Taken(d, a.h, a.m, a.o))
    BY <1>1, <2>1 DEF DoesDel
  <2>. QED  BY <2>2
<1>4. DoesClear(t, d, Tail(t), Cleared(d, a.o, a.m))
  BY <1>1 DEF DoesClear
<1>5. \E t2, d2 : DoesForeach(t, d, t2, d2)
  <2>. DEFINE list == d.map[a.h][a.m]
              b == Called(d, a.cb, list[a.i], a.o)
              f == Foreach(a.h, a.m, a.i + 1, a.cb, a.o)
  <2>1. CASE ~(a.i <= Len(list))
    <3>1. DoesForeach(t, d, Tail(t), d)
      BY <1>1, <2>1 DEF DoesForeach
    <3>. QED  BY <3>1
  <2>2. CASE a.i <= Len(list)
    <3>. HIDE DEF b, f
    <3>1. PICK t2 : Starts(t2, b) /\ Next2(t, Tail(t2), f)
      BY SomeNext2
    <3>2. DoesForeach(t, d, t2, d)
      BY <1>1, <2>2, <3>1 DEF DoesForeach, b, f
    <3>. QED  BY <3>2
  <2>. QED  BY <2>1, <2>2
<1>6. DoesNotify(t, d, Tail(t), d)
  BY DEF DoesNotify
<1>. QED  BY <1>2, <1>3, <1>4, <1>5, <1>6

LEMMA SomeService ==
    ASSUME NEW t, IsSeq(t), t # <<>>, NEW d
    PROVE  /\ \E t2, d2 : DoesCommit(t, d, t2, d2)
           /\ \E t2, d2 : DoesMaintain(t, d, t2, d2)
           /\ \E t2, d2 : DoesCapture(t, d, t2, d2)
           /\ \E t2, d2 : DoesRemove(t, d, t2, d2)
<1>. DEFINE a == Head(t)
<1>1. /\ \A s, c, orphan, change : Starts(t, Commit(s, c, orphan, change)) =>
            s = a.o /\ c = a.c /\ orphan = a.orphan /\ change = a.change
      /\ \A s, change : Starts(t, Maintain(s, change)) => s = a.o /\ change = a.change
      /\ \A c, s : Starts(t, Capture(c, s)) => c = a.o /\ s = a.s
      /\ \A c, s : Only(t, RemoveService(c, s)) => c = a.o /\ s = a.s
  BY DEF Starts, Only, Commit, Maintain, Capture, RemoveService
<1>. HIDE DEF a
<1>2. \E t2, d2 : DoesCommit(t, d, t2, d2)
  <2>. DEFINE v == [client_id |-> a.c, orphan |-> a.orphan,
                    was_orphan |-> a.change # "added" /\ d.svc[a.o].orphan]
              f == Foreach(Db, "subs", 1, "notify_sub_service_changed", a.o)
              g == Maintain(a.o, a.change)
  <2>. HIDE DEF f, g
  <2>1. PICK t2 : Starts(t2, f) /\ Next2(t, Tail(t2), g)
    BY SomeNext2
  <2>2. DoesCommit(t, d, t2, Committed(d, a.o, v))
    BY <1>1, <2>1 DEF DoesCommit, f, g
  <2>. QED  BY <2>2
<1>3. \E t2, d2 : DoesMaintain(t, d, t2, d2)
  <2>. DEFINE s == a.o
              is == d.svc[s].orphan /\ a.change # "removed"
              was == d.svc[s].was_orphan
  <2>1. CASE is /\ ~was
    <3>1. DoesMaintain(t, d, Tail(t), Put(d, Db, "timers", s))
      BY <1>1, <2>1 DEF DoesMaintain
    <3>. QED  BY <3>1
  <2>2. CASE was /\ ~is
    <3>1. PICK t2 : Next2(t, t2, Dec(s))
      BY SomeNext
    <3>2. DoesMaintain(t, d, t2, Taken(d, Db, "timers", s))
      BY <1>1, <2>2, <3>1 DEF DoesMaintain
    <3>. QED  BY <3>2
  <2>3. CASE is <=> was
    <3>1. DoesMaintain(t, d, Tail(t), d)
      BY <1>1, <2>3 DEF DoesMaintain
    <3>. QED  BY <3>1
  <2>. QED  BY <2>1, <2>2, <2>3
<1>4. \E t2, d2 : DoesCapture(t, d, t2, d2)
  <2>. DEFINE victim == Lookup(d, d.svc[a.s].client_id)
              k == IF victim = Nil THEN Nil ELSE ServiceConn(d, victim, a.s)
              f == Del(k, "services", a.s, victim)
              g == Add(d.active[a.o], "services", a.s, a.o)
  <2>. HIDE DEF f, g
  <2>1. PICK t2 : Starts(t2, f) /\ Next2(t, Tail(t2), g)
    BY SomeNext2
  <2>2. DoesCapture(t, d, t2, d)
    BY <1>1, <2>1 DEF DoesCapture, f, g
  <2>. QED  BY <2>2
<1>5. \E t2, d2 : DoesRemove(t, d, t2, d2)
  <2>. DEFINE k == ServiceConn(d, a.o, a.s)
  <2>. HIDE DEF k
  <2>1. Remove1(RemoveProgram(a.o, a.s, k), a.o, a.s, k)
    BY RunRemove
  <2>2. DoesRemove(t, d, RemoveProgram(a.o, a.s, k), d)
    BY <1>1, <2>1 DEF DoesRemove, k
  <2>. QED  BY <2>2
<1>. QED  BY <1>2, <1>3, <1>4, <1>5

LEMMA SomeClient ==
    ASSUME NEW t, IsSeq(t), t # <<>>, NEW d
    PROVE  /\ \E t2, d2 : DoesConnect(t, d, t2, d2)
           /\ \E t2, d2 : DoesKeep(t, d, t2, d2)
           /\ \E t2, d2 : DoesDrop(t, d, t2, d2)
           /\ \E t2, d2 : DoesDestroy(t, d, t2, d2)
           /\ \E t2, d2 : DoesLeave(t, d, t2, d2)
<1>. DEFINE a == Head(t)
<1>1. /\ \A c : Starts(t, NewConn(c)) => c = a.o
      /\ \A c, k : Starts(t, KeepConn(c, k)) => c = a.o /\ k = a.k
      /\ \A c, k : Starts(t, DropConn(c, k)) => c = a.o /\ k = a.k
      /\ \A c, i : Starts(t, DestroyConns(c, i)) => c = a.o /\ i = a.i
      /\ \A c : Starts(t, DropClient(c)) => c = a.o
  BY DEF Starts, NewConn, KeepConn, DropConn, DestroyConns, DropClient
<1>. HIDE DEF a
<1>2. IsSeq(Tail(t))
  BY TailSeq
<1>3. \E t2, d2 : DoesConnect(t, d, t2, d2)
  <2>1. CASE Conns \ d.heap = {}
    BY <2>1 DEF DoesConnect
  <2>2. CASE Conns \ d.heap # {}
    <3>1. PICK k \in Conns \ d.heap : TRUE
      BY <2>2
    <3>2. DoesConnect(t, d, Tail(t), WithConn(d, a.o, k))
      BY <1>1, <3>1 DEF DoesConnect
    <3>. QED  BY <3>2
  <2>. QED  BY <2>1, <2>2
<1>4. \E t2 : ConnProgram(t2, a.k, Tail(t))
  BY <1>2, RunConn
<1>5. \E t2, d2 : DoesKeep(t, d, t2, d2)
  <2>1. CASE Idles(d, a.k)
    <3>1. PICK t2 : ConnProgram(t2, a.k, Tail(t))
      BY <1>4
    <3>2. DoesKeep(t, d, t2, d)
      BY <1>1, <2>1, <3>1 DEF DoesKeep
    <3>. QED  BY <3>2
  <2>2. CASE ~Idles(d, a.k)
    <3>1. DoesKeep(t, d, Tail(t), WithInactive(d, a.o, Append(d.inactive[a.o], a.k)))
      BY <1>1, <2>2 DEF DoesKeep
    <3>. QED  BY <3>1
  <2>. QED  BY <2>1, <2>2
<1>6. \E t2, d2 : DoesDrop(t, d, t2, d2)
  <2>1. CASE Idles(d, a.k)
    <3>1. PICK t2 : ConnProgram(t2, a.k, Tail(t))
      BY <1>4
    <3>2. DoesDrop(t, d, t2, WithInactive(d, a.o, Deleted(d.inactive[a.o], a.k)))
      BY <1>1, <2>1, <3>1 DEF DoesDrop
    <3>. QED  BY <3>2
  <2>2. CASE ~Idles(d, a.k)
    <3>1. DoesDrop(t, d, Tail(t), d)
      BY <1>1, <2>2 DEF DoesDrop
    <3>. QED  BY <3>1
  <2>. QED  BY <2>1, <2>2
<1>7. \E t2, d2 : DoesDestroy(t, d, t2, d2)
  <2>. DEFINE q == ConnsOf(d, a.o)
  <2>1. CASE ~(a.i <= Len(q))
    <3>1. DoesDestroy(t, d, Tail(t), d)
      BY <1>1, <2>1 DEF DoesDestroy
    <3>. QED  BY <3>1
  <2>2. CASE a.i <= Len(q)
    <3>. DEFINE f == DestroyConns(a.o, a.i + 1)  k == q[a.i]  r == Prog1(f, Tail(t))
    <3>. HIDE DEF f, k
    <3>1. IsSeq(r) /\ Starts(r, f) /\ Tail(r) = Tail(t)
      BY <1>2, Push1
    <3>. HIDE DEF r
    <3>2. PICK t2 : ConnProgram(t2, k, r)
      BY <3>1, RunConn
    <3>3. DoesDestroy(t, d, t2, d)
      BY <1>1, <2>2, <3>1, <3>2 DEF DoesDestroy, Next2, f, k
    <3>. QED  BY <3>3
  <2>. QED  BY <2>1, <2>2
<1>8. \E t2, d2 : DoesLeave(t, d, t2, d2)
  <2>1. CASE Stale(d, a.o)
    <3>1. PICK t2 : Next2(t, t2, Del(Db, "clients", a.o, a.o))
      BY SomeNext
    <3>2. DoesLeave(t, d, t2, d)
      BY <1>1, <2>1, <3>1 DEF DoesLeave
    <3>. QED  BY <3>2
  <2>2. CASE ~Stale(d, a.o)
    <3>1. DoesLeave(t, d, Tail(t), d)
      BY <1>1, <2>2 DEF DoesLeave
    <3>. QED  BY <3>1
  <2>. QED  BY <2>1, <2>2
<1>. QED  BY <1>3, <1>5, <1>6, <1>7, <1>8

LEMMA SomeStep ==
    ASSUME NEW t, IsSeq(t), t # <<>>, NEW d
    PROVE  \E t2, d2 : Step(t, d, t2, d2)
<1>. DEFINE op == Head(t).op
<1>. HIDE DEF op
<1>1. CASE op = "inc_ref"
  <2>1. PICK t2, d2 : DoesInc(t, d, t2, d2)
    BY SomeCount
  <2>2. Step(t, d, t2, d2)
    BY <1>1, <2>1, OtherStatements DEF Step, op
  <2>. QED  BY <2>2
<1>2. CASE op = "dec_ref"
  <2>1. PICK t2, d2 : DoesDec(t, d, t2, d2)
    BY SomeCount
  <2>2. Step(t, d, t2, d2)
    BY <1>2, <2>1, OtherStatements DEF Step, op
  <2>. QED  BY <2>2
<1>3. CASE op = "free"
  <2>1. PICK t2, d2 : DoesFree(t, d, t2, d2)
    BY SomeCount
  <2>2. Step(t, d, t2, d2)
    BY <1>3, <2>1, OtherStatements DEF Step, op
  <2>. QED  BY <2>2
<1>4. CASE op = "add"
  <2>1. PICK t2, d2 : DoesAdd(t, d, t2, d2)
    BY SomeList
  <2>2. Step(t, d, t2, d2)
    BY <1>4, <2>1, OtherStatements DEF Step, op
  <2>. QED  BY <2>2
<1>5. CASE op = "del"
  <2>1. PICK t2, d2 : DoesDel(t, d, t2, d2)
    BY SomeList
  <2>2. Step(t, d, t2, d2)
    BY <1>5, <2>1, OtherStatements DEF Step, op
  <2>. QED  BY <2>2
<1>6. CASE op = "clear"
  <2>1. PICK t2, d2 : DoesClear(t, d, t2, d2)
    BY SomeList
  <2>2. Step(t, d, t2, d2)
    BY <1>6, <2>1, OtherStatements DEF Step, op
  <2>. QED  BY <2>2
<1>7. CASE op = "foreach"
  <2>1. PICK t2, d2 : DoesForeach(t, d, t2, d2)
    BY SomeList
  <2>2. Step(t, d, t2, d2)
    BY <1>7, <2>1, OtherStatements DEF Step, op
  <2>. QED  BY <2>2
<1>8. CASE op = "notify"
  <2>1. PICK t2, d2 : DoesNotify(t, d, t2, d2)
    BY SomeList
  <2>2. Step(t, d, t2, d2)
    BY <1>8, <2>1, OtherStatements DEF Step, op
  <2>. QED  BY <2>2
<1>9. CASE op = "commit"
  <2>1. PICK t2, d2 : DoesCommit(t, d, t2, d2)
    BY SomeService
  <2>2. Step(t, d, t2, d2)
    BY <1>9, <2>1, OtherStatements DEF Step, op
  <2>. QED  BY <2>2
<1>10. CASE op = "maintain_orphans"
  <2>1. PICK t2, d2 : DoesMaintain(t, d, t2, d2)
    BY SomeService
  <2>2. Step(t, d, t2, d2)
    BY <1>10, <2>1, OtherStatements DEF Step, op
  <2>. QED  BY <2>2
<1>11. CASE op = "capture_service"
  <2>1. PICK t2, d2 : DoesCapture(t, d, t2, d2)
    BY SomeService
  <2>2. Step(t, d, t2, d2)
    BY <1>11, <2>1, OtherStatements DEF Step, op
  <2>. QED  BY <2>2
<1>12. CASE op = "remove_service"
  <2>1. PICK t2, d2 : DoesRemove(t, d, t2, d2)
    BY SomeService
  <2>2. Step(t, d, t2, d2)
    BY <1>12, <2>1, OtherStatements DEF Step, op
  <2>. QED  BY <2>2
<1>13. CASE op = "conn_create"
  <2>1. PICK t2, d2 : DoesConnect(t, d, t2, d2)
    BY SomeClient
  <2>2. Step(t, d, t2, d2)
    BY <1>13, <2>1, OtherStatements DEF Step, op
  <2>. QED  BY <2>2
<1>14. CASE op = "keep_conn"
  <2>1. PICK t2, d2 : DoesKeep(t, d, t2, d2)
    BY SomeClient
  <2>2. Step(t, d, t2, d2)
    BY <1>14, <2>1, OtherStatements DEF Step, op
  <2>. QED  BY <2>2
<1>15. CASE op = "drop_conn"
  <2>1. PICK t2, d2 : DoesDrop(t, d, t2, d2)
    BY SomeClient
  <2>2. Step(t, d, t2, d2)
    BY <1>15, <2>1, OtherStatements DEF Step, op
  <2>. QED  BY <2>2
<1>16. CASE op = "destroy_conns"
  <2>1. PICK t2, d2 : DoesDestroy(t, d, t2, d2)
    BY SomeClient
  <2>2. Step(t, d, t2, d2)
    BY <1>16, <2>1, OtherStatements DEF Step, op
  <2>. QED  BY <2>2
<1>17. CASE op = "drop_client"
  <2>1. PICK t2, d2 : DoesLeave(t, d, t2, d2)
    BY SomeClient
  <2>2. Step(t, d, t2, d2)
    BY <1>17, <2>1, OtherStatements DEF Step, op
  <2>. QED  BY <2>2
<1>18. CASE op \notin {"inc_ref", "dec_ref", "free", "add", "del", "clear", "foreach", "notify",
                     "commit", "maintain_orphans", "capture_service", "remove_service",
                     "conn_create", "keep_conn", "drop_conn", "destroy_conns", "drop_client"}
  <2>1. Step(t, d, t, d)
    BY <1>18, OtherStatements DEF Step, op
  <2>. QED  BY <2>1
<1>. QED  BY <1>1, <1>2, <1>3, <1>4, <1>5, <1>6, <1>7, <1>8, <1>9,
             <1>10, <1>11, <1>12, <1>13, <1>14, <1>15, <1>16, <1>17, <1>18

LEMMA ReachedSafe ==
    ASSUME NEW t, NEW d, IsSeq(t), Reached(t, d)
    PROVE  Safe(t, d)
<1>1. CASE t = <<>>
  BY <1>1 DEF Safe
<1>2. CASE t # <<>>
  BY <1>2, SomeStep, PointStep
<1>. QED  BY <1>1, <1>2

-----------------------------------------------------------------------------
(* The data has its type at every point at which a statement is left.       *)

LEMMA ServicePointType ==
    ASSUME NEW t, NEW d, ServicePoint(t, d)
    PROVE  TypeOK(d)
<1>1. PICK c \in Clients, s \in Services :
         \/ Capture1(t, d, c, s) \/ Capture3(t, d, c, s)
         \/ Removal0(t, d, c, s) \/ Removal5(t, d, {}, c, s) \/ Removal6(t, d, c, s)
         \/ Removal7(t, d, c, s) \/ Removal8(t, d, c, s) \/ Removal10(t, d, c, s)
         \/ \E k \in Conns :
               \/ Publish1(t, d, c, s, k) \/ Publish3(t, d, c, s, k) \/ Publish4(t, d, c, s, k)
               \/ Capture2(t, d, c, s, k) \/ Commit1(t, d, c, s, k)
               \/ Removal1(t, d, c, s, k) \/ Removal2(t, d, c, s, k)
               \/ Removal3(t, d, c, s, k) \/ Removal4(t, d, c, s, k)
  BY DEF ServicePoint
<1>2. \E X : Good(d, {}, X)
  <2>1. CASE \/ Capture1(t, d, c, s) \/ Capture3(t, d, c, s)
             \/ \E k \in Conns : Capture2(t, d, c, s, k) \/ Commit1(t, d, c, s, k)
    BY <2>1 DEF Capture1, Capture2, Capture3, Commit1
  <2>2. CASE \E k \in Conns :
                Publish1(t, d, c, s, k) \/ Publish3(t, d, c, s, k) \/ Publish4(t, d, c, s, k)
    BY <2>2 DEF Publish1, Publish3, Publish4, NewService
  <2>3. CASE \/ Removal0(t, d, c, s) \/ Removal5(t, d, {}, c, s) \/ Removal6(t, d, c, s)
             \/ Removal7(t, d, c, s) \/ Removal8(t, d, c, s) \/ Removal10(t, d, c, s)
    BY <2>3 DEF Removal0, Removal5, Removal6, Removal7, Removal8, Removal10
  <2>4. CASE \E k \in Conns : \/ Removal1(t, d, c, s, k) \/ Removal2(t, d, c, s, k)
                              \/ Removal3(t, d, c, s, k) \/ Removal4(t, d, c, s, k)
    BY <2>4 DEF Removal1, Removal2, Removal3, Removal4
  <2>. QED  BY <1>1, <2>1, <2>2, <2>3, <2>4
<1>. QED  BY <1>2, GoodType

LEMMA SubPointType ==
    ASSUME NEW t, NEW d, SubPoint(t, d)
    PROVE  TypeOK(d)
<1>1. \E X : Good(d, {}, X)
  BY DEF SubPoint, Subscribe1, Subscribe2, Subscribe3, Subscribe4, Unsubscribe1, Unsubscribe2
<1>. QED  BY <1>1, GoodType

LEMMA ToldType ==
    ASSUME NEW t, NEW d, NEW s, Told(t, d, s)
    PROVE  TypeOK(d)
<1>1. \E L, X : Good(d, L, X)
  BY DEF Told, Orphan3, ServicesLeaving, Publish2, NewService, Commit2, Removal9
<1>. QED  BY <1>1, GoodType

LEMMA ClientPointType ==
    ASSUME NEW t, NEW d, ClientPoint(t, d)
    PROVE  TypeOK(d)
<1>1. PICK c \in Clients :
         \/ Connect1(t, d, c) \/ Connect2(t, d, c) \/ Reconnect(t, d, c)
         \/ Leave1(t, d, {}, c) \/ Leave2(t, d, c) \/ Leave3(t, d, c) \/ Destroy2(t, d, c)
         \/ \E i \in Nat \ {0} : Destroy1(t, d, c, i, {})
         \/ \E k \in Conns :
               \/ Subs4(t, d, c, k) \/ Keep(t, d, c, k)
               \/ Conn1(t, d, c, k) \/ Conn2(t, d, c, k) \/ Conn3(t, d, c, k)
               \/ Conn4(t, d, c, k) \/ Conn5(t, d, c, k)
               \/ \E i \in Nat \ {0} :
                     \/ Subs1(t, d, c, k, i) \/ Subs2(t, d, c, k, i) \/ Subs3(t, d, c, k, i)
                     \/ Orphan1(t, d, c, k, i) \/ Orphan2(t, d, c, k, i)
  BY DEF ClientPoint
<1>2. CASE \/ Connect1(t, d, c) \/ Connect2(t, d, c) \/ Reconnect(t, d, c)
           \/ Leave1(t, d, {}, c) \/ Leave2(t, d, c) \/ Leave3(t, d, c)
  <2>1. \E X : Good(d, {}, X)
    BY <1>2 DEF Connect1, Connect2, Reconnect, NewClient, Leave1, Leave2, Leave3
  <2>. QED  BY <2>1, GoodType
<1>3. CASE Destroy2(t, d, c) \/ \E i \in Nat \ {0} : Destroy1(t, d, c, i, {})
  BY <1>3 DEF Destroy1, Destroy2, Dying
<1>4. ASSUME NEW k \in Conns,
             Conn1(t, d, c, k) \/ Conn2(t, d, c, k) \/ Conn3(t, d, c, k)
             \/ Conn4(t, d, c, k) \/ Conn5(t, d, c, k)
      PROVE  TypeOK(d)
  <2>1. \E r : LooseConn(r, d, c, k)
    BY <1>4 DEF Conn1, Conn2, Conn3, Conn4, Conn5
  <2>. QED  BY <2>1, LooseHeld
<1>5. ASSUME NEW k \in Conns, Keep(t, d, c, k)
      PROVE  TypeOK(d)
  <2>1. \E L, X : Good(d, L, X)
    BY <1>5 DEF Keep
  <2>. QED  BY <2>1, GoodType
<1>6. ASSUME NEW k \in Conns, NEW i \in Nat \ {0},
             Subs4(t, d, c, k) \/ Subs3(t, d, c, k, i)
      PROVE  TypeOK(d)
  BY <1>6 DEF Subs3, Subs4
<1>7. ASSUME NEW k \in Conns, NEW i \in Nat \ {0},
             \/ Subs1(t, d, c, k, i) \/ Subs2(t, d, c, k, i)
             \/ Orphan1(t, d, c, k, i) \/ Orphan2(t, d, c, k, i)
      PROVE  TypeOK(d)
  <2>1. \E L, X : Good(d, L, X)
    BY <1>7 DEF Subs1, Subs2, SubsLeaving, Orphan1, Orphan2, ServicesLeaving
  <2>. QED  BY <2>1, GoodType
<1>8. 1 \in Nat \ {0}
  OBVIOUS
<1>. QED  BY <1>1, <1>2, <1>3, <1>4, <1>5, <1>6, <1>7, <1>8

LEMMA ReachedType ==
    ASSUME NEW t, NEW d, t # <<>>, Reached(t, d)
    PROVE  TypeOK(d)
<1>1. CASE Telling(t, d)
  BY <1>1, ToldType DEF Telling, ToldFrom
<1>2. CASE Dropping(t, d) \/ Freeing(t, d)
  BY <1>2 DEF Dropping, Freeing
<1>3. CASE ClientPoint(t, d) \/ ServicePoint(t, d) \/ SubPoint(t, d)
  BY <1>3, ClientPointType, ServicePointType, SubPointType
<1>4. CASE RazePoint(t, d)
  <2>1. PICK c \in Clients, i \in Nat \ {0} :
           \/ Raze1(t, d, c, i) \/ Raze8(t, d, c, i)
           \/ \E j \in Nat \ {0} :
                 \/ Raze2(t, d, c, i, j)
                 \/ \E k \in Conns :
                       \/ Raze4(t, d, c, i, j, k) \/ Raze6(t, d, c, i, j, k)
                       \/ Raze7(t, d, c, i, j, k)
                       \/ \E n \in Nat \ {0} :
                             Raze3(t, d, c, i, j, k, n) \/ Raze5(t, d, c, i, j, k, n)
    BY <1>4 DEF RazePoint
  <2>2. CASE Raze1(t, d, c, i) \/ Raze8(t, d, c, i) \/ \E j \in Nat \ {0} : Raze2(t, d, c, i, j)
    BY <2>2 DEF Raze1, Raze8, Raze2
  <2>3. ASSUME NEW j \in Nat \ {0}, NEW k \in Conns,
               \/ Raze4(t, d, c, i, j, k) \/ Raze6(t, d, c, i, j, k) \/ Raze7(t, d, c, i, j, k)
        PROVE  TypeOK(d)
    BY <2>3 DEF Raze4, Raze6, Raze7, RazedConn
  <2>4. ASSUME NEW j \in Nat \ {0}, NEW k \in Conns, NEW n \in Nat \ {0},
               Raze3(t, d, c, i, j, k, n) \/ Raze5(t, d, c, i, j, k, n)
        PROVE  TypeOK(d)
    BY <2>4 DEF Raze3, Raze5, RazedConn
  <2>. QED  BY <2>1, <2>2, <2>3, <2>4
<1>5. CASE DownPoint(t, d)
  BY <1>5 DEF DownPoint, Timers1, Timers2, Clients1, Clients2, Services1, Services2,
              Subscriptions1, Subscriptions2, Database, Bare, Torn, Structure
<1>6. CASE \E s \in Services : Told(t, d, s)
  BY <1>6, ToldType
<1>7. ~Idle(t, d) /\ ~Ended(t, d)
  BY DEF Idle, Ended
<1>. QED  BY <1>1, <1>2, <1>3, <1>4, <1>5, <1>6, <1>7 DEF Reached, Point

-----------------------------------------------------------------------------
(* Iteration.  Alters says which lists a statement and all that it calls    *)
(* may change, judged by the statement alone; a calm program has nothing    *)
(* before the end of an iteration that alters the list iterated over.       *)

Alters(a, h, m) ==
    \/ a.op \in {"capture_service", "remove_service"}
    \/ a.op \in {"add", "del"} /\ a.h = h /\ a.m = m
    \/ a.op = "clear" /\ a.o = h /\ a.m = m
    \/ a.op \in {"commit", "maintain_orphans"} /\ h = Db /\ m = "timers"
    \/ a.op = "drop_client" /\ h = Db /\ m = "clients"
    \/ a.op = "foreach" /\ a.cb = "sub_handle_conn_inactivation" /\ h = Db /\ m = "subs"
    \/ a.op = "foreach" /\ a.cb = "service_handle_conn_inactivation" /\ h = Db /\ m = "timers"
    \/ a.op \in {"keep_conn", "drop_conn"} /\ a.k = h
    \* the connections of a client that is freed
    \/ /\ h \in Conns
       /\ \/ a.op \in {"dec_ref", "del", "commit", "maintain_orphans"} /\ a.o \in Clients
          \/ a.op \in {"destroy_conns", "drop_client"}
          \/ a.op = "foreach" /\ a.m = "clients"

Ready(a) ==
    /\ a.op = "foreach" =>
          /\ a = Foreach(a.h, a.m, a.i, a.cb, a.o)
          /\ a.h \in Hosts /\ a.m \in Maps /\ a.i \in Nat \ {0} /\ a.cb \in Callbacks
          /\ ~Alters(a, a.h, a.m)
    /\ a.op = "destroy_conns" =>
          a = DestroyConns(a.o, a.i) /\ a.o \in Clients /\ a.i \in Nat \ {0}
    /\ a.op = "remove_service" => a.o \in Clients
    /\ a.op \in {"keep_conn", "drop_conn"} => a.k \in a.uses \cap (Conns \cup {Nil})
Spares(a, t) == \A j \in DOMAIN t : t[j].op = "foreach" => ~Alters(a, t[j].h, t[j].m)
Calm(t) ==
    /\ IsSeq(t)
    /\ \A j \in DOMAIN t : Ready(t[j])
    /\ \A i, j \in DOMAIN t : i < j /\ t[j].op = "foreach" => ~Alters(t[i], t[j].h, t[j].m)

LEMMA HeadTail ==
    ASSUME NEW t, IsSeq(t), t # <<>>
    PROVE  /\ DOMAIN t = 1 .. Len(t) /\ Len(t) \in Nat \ {0} /\ t[1] = Head(t)
           /\ Len(Tail(t)) = Len(t) - 1 /\ DOMAIN Tail(t) = 1 .. Len(t) - 1
           /\ \A j \in 1 .. Len(t) - 1 : Tail(t)[j] = t[j + 1]
BY DEF IsSeq

LEMMA CalmNone == Calm(<<>>) /\ \A a : Spares(a, <<>>)
<1>1. DOMAIN <<>> = {}
  OBVIOUS
<1>. QED  BY <1>1, NoProgram DEF Calm, Spares

LEMMA SparesCons ==
    ASSUME NEW t, IsSeq(t), NEW b, Starts(t, b), NEW a, Spares(a, Tail(t)),
           b.op = "foreach" => ~Alters(a, b.h, b.m)
    PROVE  Spares(a, t)
<1>1. SUFFICES ASSUME NEW j \in DOMAIN t, t[j].op = "foreach"
               PROVE  ~Alters(a, t[j].h, t[j].m)
  BY DEF Spares
<1>2. t # <<>> /\ Head(t) = b
  BY DEF Starts
<1>3. CASE j = 1
  BY <1>1, <1>2, <1>3, HeadTail
<1>4. CASE j # 1
  <2>1. j - 1 \in DOMAIN Tail(t) /\ Tail(t)[j - 1] = t[j]
    BY <1>2, <1>4, HeadTail
  <2>. QED  BY <1>1, <2>1 DEF Spares
<1>. QED  BY <1>3, <1>4

LEMMA CalmCons ==
    ASSUME NEW t, IsSeq(t), NEW a, Starts(t, a), Calm(Tail(t)), Ready(a), Spares(a, Tail(t))
    PROVE  Calm(t)
<1>1. t # <<>> /\ Head(t) = a
  BY DEF Starts
<1>2. DOMAIN t = 1 .. Len(t) /\ Len(t) \in Nat \ {0} /\ t[1] = a
  BY <1>1, HeadTail
<1>3. \A j \in DOMAIN t : j # 1 => j - 1 \in DOMAIN Tail(t) /\ Tail(t)[j - 1] = t[j]
  BY <1>1, HeadTail
<1>4. \A j \in DOMAIN t : Ready(t[j])
  BY <1>2, <1>3 DEF Calm
<1>5. ASSUME NEW i \in DOMAIN t, NEW j \in DOMAIN t, i < j, t[j].op = "foreach"
      PROVE  ~Alters(t[i], t[j].h, t[j].m)
  <2>1. j # 1 /\ i \in Int /\ j \in Int
    BY <1>2, <1>5
  <2>2. CASE i = 1
    BY <1>2, <1>3, <1>5, <2>1, <2>2 DEF Spares
  <2>3. CASE i # 1
    <3>. DEFINE x == i - 1  y == j - 1
    <3>1. x < y
      BY <1>5, <2>1
    <3>2. /\ x \in DOMAIN Tail(t) /\ y \in DOMAIN Tail(t)
          /\ Tail(t)[x] = t[i] /\ Tail(t)[y] = t[j]
      BY <1>3, <2>1, <2>3
    <3>. HIDE DEF x, y
    <3>. QED  BY <1>5, <3>1, <3>2 DEF Calm
  <2>. QED  BY <2>2, <2>3
<1>. QED  BY <1>4, <1>5 DEF Calm

LEMMA CalmTail ==
    ASSUME NEW t, Calm(t), t # <<>>
    PROVE  /\ Calm(Tail(t)) /\ IsSeq(Tail(t)) /\ Ready(Head(t)) /\ Spares(Head(t), Tail(t))
<1>1. IsSeq(t) /\ IsSeq(Tail(t))
  BY TailSeq DEF Calm
<1>2. DOMAIN t = 1 .. Len(t) /\ Len(t) \in Nat \ {0} /\ t[1] = Head(t)
  BY <1>1, HeadTail
<1>3. \A j \in DOMAIN Tail(t) : /\ j + 1 \in DOMAIN t /\ Tail(t)[j] = t[j + 1]
                               /\ j \in Int /\ 1 < j + 1
  BY <1>1, HeadTail
<1>4. Ready(Head(t)) /\ \A j \in DOMAIN Tail(t) : Ready(Tail(t)[j])
  BY <1>2, <1>3 DEF Calm
<1>5. Spares(Head(t), Tail(t))
  <2>1. SUFFICES ASSUME NEW j \in DOMAIN Tail(t), Tail(t)[j].op = "foreach"
                 PROVE  ~Alters(Head(t), Tail(t)[j].h, Tail(t)[j].m)
    BY DEF Spares
  <2>. DEFINE x == j + 1
  <2>2. x \in DOMAIN t /\ Tail(t)[j] = t[x] /\ 1 < x /\ 1 \in DOMAIN t
    BY <1>2, <1>3
  <2>. HIDE DEF x
  <2>. QED  BY <1>2, <2>1, <2>2 DEF Calm
<1>6. ASSUME NEW i \in DOMAIN Tail(t), NEW j \in DOMAIN Tail(t), i < j, Tail(t)[j].op = "foreach"
      PROVE  ~Alters(Tail(t)[i], Tail(t)[j].h, Tail(t)[j].m)
  <2>. DEFINE x == i + 1  y == j + 1
  <2>1. x \in DOMAIN t /\ y \in DOMAIN t /\ Tail(t)[i] = t[x] /\ Tail(t)[j] = t[y]
    BY <1>3
  <2>2. x < y
    BY <1>3, <1>6
  <2>. HIDE DEF x, y
  <2>. QED  BY <1>6, <2>1, <2>2 DEF Calm
<1>. QED  BY <1>1, <1>4, <1>5, <1>6 DEF Calm

\* A statement alters no more than the one that called for it.
Within(a, b) == \A h, m : Alters(a, h, m) => Alters(b, h, m)

LEMMA SparesWithin ==
    ASSUME NEW a, NEW b, Within(a, b), NEW t, Spares(b, t)
    PROVE  Spares(a, t)
BY DEF Within, Spares

LEMMA SparesItself ==
    ASSUME NEW a, NEW b, Within(a, b), Ready(b), b.op = "foreach"
    PROVE  ~Alters(a, b.h, b.m)
BY DEF Within, Ready

\* The statements that change no list.
LEMMA Harmless ==
    ASSUME NEW o
    PROVE  /\ \A h, m : ~Alters(Inc(o), h, m) /\ ~Alters(Free(o), h, m) /\ ~Alters(NewConn(o), h, m)
           /\ \A s, h, m : ~Alters(Notify(o, s), h, m)
           /\ Ready(Inc(o)) /\ Ready(Dec(o)) /\ Ready(Free(o)) /\ Ready(NewConn(o))
           /\ Ready(DropClient(o)) /\ \A s : Ready(Notify(o, s))
           /\ \A h, m, c : Ready(Add(h, m, o, c)) /\ Ready(Del(h, m, o, c))
           /\ \A m : Ready(Clear(o, m))
           /\ \A s : Ready(Capture(o, s)) /\ (o \in Clients => Ready(RemoveService(o, s)))
           /\ \A c, orphan, change : Ready(Commit(o, c, orphan, change)) /\ Ready(Maintain(o, change))
           /\ \A k \in Conns \cup {Nil} : Ready(KeepConn(o, k)) /\ Ready(DropConn(o, k))
           /\ \A i \in Nat \ {0} : o \in Clients => Ready(DestroyConns(o, i))
<1>1. /\ \A h, m : ~Alters(Inc(o), h, m) /\ ~Alters(Free(o), h, m) /\ ~Alters(NewConn(o), h, m)
      /\ \A s, h, m : ~Alters(Notify(o, s), h, m)
  BY DEF Alters, Inc, Free, NewConn, Notify
<1>2. /\ Ready(Inc(o)) /\ Ready(Dec(o)) /\ Ready(Free(o)) /\ Ready(NewConn(o))
      /\ Ready(DropClient(o)) /\ \A s : Ready(Notify(o, s))
  BY DEF Ready, Inc, Dec, Free, NewConn, DropClient, Notify
<1>3. /\ \A h, m, c : Ready(Add(h, m, o, c)) /\ Ready(Del(h, m, o, c))
      /\ \A m : Ready(Clear(o, m))
  BY DEF Ready, Add, Del, Clear
<1>4. /\ \A s : Ready(Capture(o, s)) /\ (o \in Clients => Ready(RemoveService(o, s)))
      /\ \A c, orphan, change : Ready(Commit(o, c, orphan, change)) /\ Ready(Maintain(o, change))
  BY DEF Ready, Capture, RemoveService, Commit, Maintain
<1>5. \A k \in Conns \cup {Nil} : Ready(KeepConn(o, k)) /\ Ready(DropConn(o, k))
  BY DEF Ready, KeepConn, DropConn
<1>6. \A i \in Nat \ {0} : o \in Clients => Ready(DestroyConns(o, i))
  BY DEF Ready, DestroyConns
<1>. QED  BY <1>1, <1>2, <1>3, <1>4, <1>5, <1>6

LEMMA IterateReady ==
    ASSUME NEW h \in Hosts, NEW m \in Maps, NEW i \in Nat \ {0}, NEW cb \in Callbacks, NEW o,
           \A h2, m2 : Alters(Foreach(h, m, i, cb, o), h2, m2) => h2 # h \/ m2 # m
    PROVE  Ready(Foreach(h, m, i, cb, o))
<1>. DEFINE a == Foreach(h, m, i, cb, o)
<1>1. a.op = "foreach" /\ a.h = h /\ a.m = m /\ a.i = i /\ a.cb = cb /\ a.o = o
  BY DEF Foreach
<1>2. a = Foreach(a.h, a.m, a.i, a.cb, a.o)
  BY <1>1
<1>3. ~Alters(a, h, m)
  OBVIOUS
<1>. HIDE DEF a
<1>. QED  BY <1>1, <1>2, <1>3 DEF Ready, a

\* Iterations of the callbacks that change no list themselves.
LEMMA Iterate ==
    ASSUME NEW h \in Hosts, NEW m \in Maps, NEW o, NEW i \in Nat \ {0},
           NEW cb \in {"dec_ref", "notify_sub_service_changed", "notify_sub_service_added"}
    PROVE  /\ Foreach(h, m, i, cb, o).op = "foreach"
           /\ Foreach(h, m, i, cb, o).h = h /\ Foreach(h, m, i, cb, o).m = m
           /\ m # "clients" => \A h2, m2 : ~Alters(Foreach(h, m, i, cb, o), h2, m2)
           /\ m # "clients" \/ h \notin Conns => Ready(Foreach(h, m, i, cb, o))
<1>1. cb \in Callbacks
  BY DEF Callbacks
<1>2. m # "clients" => \A h2, m2 : ~Alters(Foreach(h, m, i, cb, o), h2, m2)
  BY DEF Alters, Foreach
<1>3. \A h2, m2 : Alters(Foreach(h, m, i, cb, o), h2, m2) => h2 \in Conns
  BY DEF Alters, Foreach
<1>. QED  BY <1>1, <1>2, <1>3, IterateReady DEF Foreach

LEMMA CalmRun0 == ASSUME Calm(todo), todo # <<>>, Run(<<>>) PROVE Calm(todo')
<1>1. IsSeq(todo)  BY DEF Calm
<1>. QED  BY <1>1, RunNothing, CalmTail

LEMMA CalmRun1 ==
    ASSUME Calm(todo), todo # <<>>, NEW a, Run(<<a>>), Ready(a), Within(a, Head(todo))
    PROVE  Calm(todo')
<1>. DEFINE r == Tail(todo)
<1>1. Calm(r) /\ IsSeq(r) /\ Spares(a, r)  BY CalmTail, SparesWithin
<1>. DEFINE t == Prog1(a, r)
<1>2. todo' = t  BY DEF Run, Prog1
<1>. HIDE DEF r
<1>3. IsSeq(t) /\ Starts(t, a) /\ Tail(t) = r  BY <1>1, Push1
<1>. HIDE DEF t
<1>. QED  BY <1>1, <1>2, <1>3, CalmCons

LEMMA CalmRun2 ==
    ASSUME Calm(todo), todo # <<>>, NEW a, NEW b, Run(<<a, b>>),
           Ready(a), Within(a, Head(todo)), Ready(b), Within(b, Head(todo)),
           b.op = "foreach" => ~Alters(a, b.h, b.m)
    PROVE  Calm(todo')
<1>. DEFINE r == Tail(todo)
<1>1. Calm(r) /\ IsSeq(r) /\ Spares(a, r) /\ Spares(b, r)  BY CalmTail, SparesWithin
<1>. DEFINE q == Prog1(b, r)  t == Prog2(a, b, r)
<1>2. todo' = t  BY DEF Run, Prog2
<1>. HIDE DEF r
<1>3. IsSeq(q) /\ Starts(q, b) /\ Tail(q) = r  BY <1>1, Push1
<1>4. IsSeq(t) /\ Starts(t, a) /\ Tail(t) = q  BY <1>1, Push2
<1>. HIDE DEF q, t
<1>5. Calm(q) /\ Spares(a, q)  BY <1>1, <1>3, CalmCons, SparesCons
<1>. QED  BY <1>2, <1>4, <1>5, CalmCons

LEMMA CalmConn ==
    ASSUME NEW k \in Conns, NEW c, NEW r, Calm(r), Spares(DropConn(c, k), r)
    PROVE  Calm(conn_destroy(k) \o r)
<1>. DEFINE a1 == Foreach(k, "services", 1, "dec_ref", k)  a2 == Clear(k, "services")
            a3 == Foreach(k, "subs", 1, "dec_ref", k)  a4 == Clear(k, "subs")  a5 == Free(k)
            t1 == conn_destroy(k) \o r
            t2 == Tail(t1)  t3 == Tail(t2)  t4 == Tail(t3)  t5 == Tail(t4)
<1>1. IsSeq(r)  BY DEF Calm
<1>2. IsSeq(t1) /\ ConnProgram(t1, k, r)  BY <1>1, RunConn
<1>3. /\ Starts(t1, a1) /\ Starts(t2, a2) /\ Starts(t3, a3) /\ Starts(t4, a4) /\ Starts(t5, a5)
      /\ Tail(t5) = r
  BY <1>2 DEF ConnProgram
<1>4. k \in Hosts /\ "services" \in Maps /\ "subs" \in Maps /\ 1 \in Nat \ {0}  BY MapNames
<1>5. /\ Ready(a1) /\ Ready(a3) /\ a1.op = "foreach" /\ a3.op = "foreach" /\ a3.m = "subs"
      /\ \A h, m : ~Alters(a1, h, m) /\ ~Alters(a3, h, m)
  BY <1>4, Iterate
<1>6. /\ \A h, m : Alters(a2, h, m) => h = k /\ m = "services"
      /\ \A h, m : Alters(a4, h, m) => h = k
      /\ \A h, m : ~Alters(a5, h, m)
      /\ \A h, m : h = k => Alters(DropConn(c, k), h, m)
  BY DEF Alters, Clear, Free, DropConn
<1>7. /\ Ready(a2) /\ Ready(a4) /\ Ready(a5)
      /\ a2.op # "foreach" /\ a4.op # "foreach" /\ a5.op # "foreach"
  BY Harmless DEF Clear, Free
<1>8. Spares(a2, r) /\ Spares(a4, r)  BY <1>6, SparesWithin DEF Within
<1>9. IsSeq(t2) /\ IsSeq(t3) /\ IsSeq(t4) /\ IsSeq(t5)
  <2>1. t1 # <<>> /\ t2 # <<>> /\ t3 # <<>> /\ t4 # <<>>  BY <1>3 DEF Starts
  <2>. HIDE DEF t1
  <2>. QED  BY <1>2, <2>1, TailSeq
<1>10. t2 = Tail(t1) /\ t3 = Tail(t2) /\ t4 = Tail(t3) /\ t5 = Tail(t4)  OBVIOUS
<1>. HIDE DEF a1, a2, a3, a4, a5, t1, t2, t3, t4, t5
<1>11. Spares(a5, r)  BY <1>6 DEF Spares
<1>12. Calm(t5) /\ Spares(a4, t5) /\ Spares(a2, t5)
  BY <1>3, <1>7, <1>8, <1>9, <1>11, CalmCons, SparesCons
<1>13. Calm(t4) /\ Spares(a2, t4)
  BY <1>3, <1>7, <1>9, <1>10, <1>12, CalmCons, SparesCons
<1>14. Spares(a3, t4) /\ ~Alters(a2, a3.h, a3.m)
  <2>1. "subs" # "services"  OBVIOUS
  <2>. QED  BY <1>5, <1>6, <2>1 DEF Spares
<1>15. Calm(t3) /\ Spares(a2, t3)
  BY <1>3, <1>5, <1>9, <1>10, <1>13, <1>14, CalmCons, SparesCons
<1>16. Calm(t2)
  BY <1>3, <1>7, <1>9, <1>10, <1>15, CalmCons
<1>17. Spares(a1, t2)  BY <1>5 DEF Spares
<1>18. Calm(t1)
  BY <1>2, <1>3, <1>5, <1>10, <1>16, <1>17, CalmCons
<1>. QED  BY <1>18 DEF t1

LEMMA CountCalm ==
    ASSUME Calm(todo), todo # <<>>,
           inc_ref \/ dec_ref \/ ut_free \/ pmap_add_cnted \/ pmap_clear \/ sub_notify
           \/ conn_create \/ pmap_del_cnted \/ maintain_orphans \/ drop_client
    PROVE  Calm(todo')
<1>. DEFINE o == this.o
<1>1. CASE Run(<<>>)
  BY <1>1, CalmRun0
<1>2. CASE dec_ref /\ Run(destroy(o))
  <2>1. this.op = "dec_ref"
    BY <1>2 DEF dec_ref, At, this
  <2>2. CASE o \in Clients
    <3>. DEFINE a == DestroyConns(o, 1)  b == Free(o)
    <3>1. Run(<<a, b>>)
      BY <1>2, <2>2 DEF destroy
    <3>2. 1 \in Nat \ {0}
      OBVIOUS
    <3>3. Ready(a) /\ Ready(b) /\ b.op # "foreach"
      BY <2>2, <3>2, Harmless DEF Free
    <3>4. Within(b, this)
      BY Harmless DEF Within
    <3>5. Within(a, this)
      BY <2>1, <2>2 DEF Within, Alters, DestroyConns
    <3>. HIDE DEF a, b
    <3>. QED  BY <3>1, <3>3, <3>4, <3>5, CalmRun2 DEF this
  <2>3. CASE o \notin Clients
    <3>. DEFINE b == Free(o)
    <3>1. Run(<<b>>)
      BY <1>2, <2>3 DEF destroy
    <3>2. Ready(b) /\ Within(b, this)
      BY Harmless DEF Within
    <3>. HIDE DEF b
    <3>. QED  BY <3>1, <3>2, CalmRun1 DEF this
  <2>. QED  BY <2>2, <2>3
<1>3. CASE (pmap_del_cnted \/ maintain_orphans) /\ Run(<<Dec(o)>>)
  <2>. DEFINE b == Dec(o)
  <2>1. this.op \in {"del", "maintain_orphans"}
    BY <1>3 DEF pmap_del_cnted, maintain_orphans, At, this
  <2>2. Ready(b)
    BY Harmless
  <2>3. Within(b, this)
    BY <2>1 DEF Within, Alters, Dec
  <2>. HIDE DEF b
  <2>4. Run(<<b>>)
    BY <1>3 DEF b
  <2>. QED  BY <2>2, <2>3, <2>4, CalmRun1 DEF this
<1>4. CASE drop_client /\ Run(<<Del(Db, "clients", o, o)>>)
  <2>. DEFINE b == Del(Db, "clients", o, o)
  <2>1. this.op = "drop_client"
    BY <1>4 DEF drop_client, At, this
  <2>2. Ready(b)
    BY Harmless
  <2>3. Within(b, this)
    BY <2>1 DEF Within, Alters, Del
  <2>. HIDE DEF b
  <2>4. Run(<<b>>)
    BY <1>4 DEF b
  <2>. QED  BY <2>2, <2>3, <2>4, CalmRun1 DEF this
<1>5. /\ inc_ref \/ ut_free \/ pmap_add_cnted \/ pmap_clear \/ sub_notify \/ conn_create
            => Run(<<>>)
      /\ dec_ref => Run(<<>>) \/ Run(destroy(o))
      /\ pmap_del_cnted => Run(<<Dec(o)>>)
      /\ maintain_orphans => Run(<<>>) \/ Run(<<Dec(o)>>)
      /\ drop_client => Run(<<>>) \/ Run(<<Del(Db, "clients", o, o)>>)
  <2>1. inc_ref \/ ut_free \/ pmap_add_cnted \/ pmap_clear \/ sub_notify \/ conn_create => Run(<<>>)
    BY DEF inc_ref, ut_free, pmap_add_cnted, pmap_clear, sub_notify, conn_create
  <2>2. dec_ref => Run(<<>>) \/ Run(destroy(o))
    BY DEF dec_ref
  <2>3. pmap_del_cnted => Run(<<Dec(o)>>)
    BY DEF pmap_del_cnted
  <2>4. maintain_orphans => Run(<<>>) \/ Run(<<Dec(o)>>)
    BY DEF maintain_orphans, add_orphan_timer, remove_orphan_timer
  <2>5. drop_client => Run(<<>>) \/ Run(<<Del(Db, "clients", o, o)>>)
    BY DEF drop_client
  <2>. QED  BY <2>1, <2>2, <2>3, <2>4, <2>5
<1>. HIDE DEF o
<1>. QED  BY <1>1, <1>2, <1>3, <1>4, <1>5

\* A callback alters no more than its iteration.
LEMMA CalledWithin ==
    ASSUME NEW a, Ready(a), a.op = "foreach", NEW d, NEW x \in Kind(a.m)
    PROVE  Ready(Called(d, a.cb, x, a.o)) /\ Within(Called(d, a.cb, x, a.o), a)
<1>1. a.m \in Maps /\ a.cb \in Callbacks
  BY DEF Ready
<1>2. x \in Clients => a.m = "clients"
  BY <1>1, Kinds, DistinctConstants DEF Kind, Maps
<1>3. CASE a.cb = "dec_ref"
  <2>1. Called(d, a.cb, x, a.o) = Dec(x)
    BY <1>3 DEF Called
  <2>2. Within(Dec(x), a)
    BY <1>2 DEF Within, Alters, Dec
  <2>. QED  BY <2>1, <2>2, Harmless
<1>4. CASE a.cb = "sub_handle_conn_inactivation"
  <2>1. Called(d, a.cb, x, a.o) = Del(Db, "subs", x, Db)
    BY <1>4 DEF Called
  <2>2. Within(Del(Db, "subs", x, Db), a)
    BY <1>2, <1>4 DEF Within, Alters, Del
  <2>. QED  BY <2>1, <2>2, Harmless
<1>5. CASE a.cb = "service_handle_conn_inactivation"
  <2>. DEFINE b == Commit(x, d.svc[x].client_id, TRUE, "modified")
  <2>1. Called(d, a.cb, x, a.o) = b
    BY <1>5 DEF Called
  <2>2. Within(b, a)
    BY <1>2, <1>5 DEF Within, Alters, Commit
  <2>3. Ready(b)
    BY Harmless
  <2>. QED  BY <2>1, <2>2, <2>3
<1>6. CASE a.cb = "notify_sub_service_changed"
  <2>1. Called(d, a.cb, x, a.o) = Notify(x, a.o)
    BY <1>6 DEF Called
  <2>. QED  BY <2>1, Harmless DEF Within
<1>7. CASE a.cb = "notify_sub_service_added"
  <2>1. Called(d, a.cb, x, a.o) = Notify(a.o, x)
    BY <1>7 DEF Called
  <2>. QED  BY <2>1, Harmless DEF Within
<1>. QED  BY <1>1, <1>3, <1>4, <1>5, <1>6, <1>7 DEF Callbacks

LEMMA ForeachCalm ==
    ASSUME Calm(todo), todo # <<>>, TypeOK(Data), plist_foreach
    PROVE  Calm(todo')
<1>. DEFINE a == this  q == map[a.h][a.m]  n == a.i + 1
            f == Foreach(a.h, a.m, n, a.cb, a.o)
<1>1. Ready(a) /\ a.op = "foreach"
  BY CalmTail DEF plist_foreach, At, this
<1>2. /\ a = Foreach(a.h, a.m, a.i, a.cb, a.o)
      /\ a.h \in Hosts /\ a.m \in Maps /\ a.i \in Nat \ {0} /\ a.cb \in Callbacks
  BY <1>1 DEF Ready
<1>3. [a EXCEPT !.i = @ + 1] = f
  BY <1>2, NextTurn
<1>4. CASE ~(a.i <= Len(q))
  BY <1>4, CalmRun0 DEF plist_foreach
<1>5. CASE a.i <= Len(q)
  <2>. DEFINE x == q[a.i]  b == Called(Data, a.cb, x, a.o)
  <2>1. x \in Kind(a.m)
    <3>1. q \in Seq(Kind(a.m))
      BY <1>2 DEF TypeOK, Data, MapsOK
    <3>. HIDE DEF q
    <3>. QED  BY <1>2, <1>5, <3>1
  <2>2. Run(Append(Callback(a.cb, x, a.o), f))
    BY <1>3, <1>5 DEF plist_foreach
  <2>3. Callback(a.cb, x, a.o) = <<b>>
    BY <1>2, CallbackCalls
  <2>4. Ready(b) /\ Within(b, a)
    <3>. HIDE DEF x, a
    <3>. QED  BY <1>1, <2>1, CalledWithin
  <2>5. Within(f, a)
    <3>1. a.op = "foreach"
      BY <1>1
    <3>. HIDE DEF a
    <3>. QED  BY <3>1 DEF Within, Alters, Foreach
  <2>6. f.op = "foreach" /\ f.h = a.h /\ f.m = a.m
    BY DEF Foreach
  <2>7. Ready(f)
    <3>1. n \in Nat \ {0}
      BY <1>2
    <3>2. \A h2, m2 : Alters(f, h2, m2) => h2 # a.h \/ m2 # a.m
      BY <1>1, <2>5 DEF Within, Ready
    <3>. HIDE DEF n, a
    <3>. QED  BY <1>2, <3>1, <3>2, IterateReady
  <2>8. ~Alters(b, f.h, f.m)
    BY <1>1, <2>4, <2>6, SparesItself
  <2>. HIDE DEF b, f
  <2>9. Run(<<b, f>>)
    BY <2>2, <2>3, AppendOne
  <2>. QED  BY <2>4, <2>5, <2>7, <2>8, <2>9, CalmRun2 DEF this
<1>. QED  BY <1>4, <1>5

LEMMA ServiceCalm ==
    ASSUME Calm(todo), todo # <<>>, service_commit \/ capture_service
    PROVE  Calm(todo')
<1>1. CASE service_commit
  <2>. DEFINE s == this.o
              a == Foreach(Db, "subs", 1, "notify_sub_service_changed", s)
              b == Maintain(s, this.change)
  <2>1. Run(<<a, b>>) /\ this.op = "commit"
    BY <1>1 DEF service_commit, At, this
  <2>2. "subs" \in Maps /\ Db \in Hosts /\ 1 \in Nat \ {0} /\ "subs" # "clients"
    BY MapNames
  <2>3. Ready(a) /\ \A h, m : ~Alters(a, h, m)
    BY <2>2, Iterate
  <2>4. Ready(b) /\ b.op # "foreach"
    BY Harmless DEF Maintain
  <2>5. Within(a, this)
    BY <2>3 DEF Within
  <2>6. Within(b, this)
    BY <2>1 DEF Within, Alters, Maintain
  <2>. HIDE DEF a, b
  <2>. QED  BY <2>1, <2>3, <2>4, <2>5, <2>6, CalmRun2 DEF this
<1>2. CASE capture_service
  <2>. DEFINE victim == db_get_client(svc[this.s].client_id)
              k == IF victim = Nil THEN Nil ELSE get_service_conn(victim, this.s)
              a == Del(k, "services", this.s, victim)
              b == Add(active[this.o], "services", this.s, this.o)
  <2>1. Run(<<a, b>>) /\ this.op = "capture_service"
    BY <1>2 DEF capture_service, At, this
  <2>2. Ready(a) /\ Ready(b) /\ b.op # "foreach"
    BY Harmless DEF Add
  <2>. HIDE DEF a, b
  <2>3. Within(a, this) /\ Within(b, this)
    BY <2>1 DEF Within, Alters
  <2>. QED  BY <2>1, <2>2, <2>3, CalmRun2 DEF this
<1>. QED  BY <1>1, <1>2

LEMMA CalmPush ==
    ASSUME NEW p, IsSeq(p), NEW r, Calm(r),
           \A j \in DOMAIN p : Ready(p[j]) /\ p[j].op # "foreach" /\ Spares(p[j], r)
    PROVE  Calm(p \o r)
<1>. DEFINE t == p \o r  n == Len(p)
<1>1. p \in Seq(ToSet(p)) /\ r \in Seq(ToSet(r)) /\ IsSeq(r)
  BY DEF IsSeq, Calm
<1>2. n \in Nat /\ Len(r) \in Nat /\ DOMAIN p = 1 .. n /\ DOMAIN r = 1 .. Len(r)
  BY <1>1
<1>3. DOMAIN t = 1 .. n + Len(r)
  BY <1>1
<1>4. \A j \in 1 .. n + Len(r) : t[j] = IF j <= n THEN p[j] ELSE r[j - n]
  BY <1>1
<1>5. IsSeq(t)
  BY <1>1, Assoc
<1>. HIDE DEF t, n
<1>6. \A j \in DOMAIN t : \/ j \in DOMAIN p /\ t[j] = p[j]
                          \/ j > n /\ j - n \in DOMAIN r /\ t[j] = r[j - n]
  BY <1>2, <1>3, <1>4
<1>7. \A j \in DOMAIN t : Ready(t[j])
  BY <1>6 DEF Calm
<1>8. ASSUME NEW i \in DOMAIN t, NEW j \in DOMAIN t, i < j, t[j].op = "foreach"
      PROVE  ~Alters(t[i], t[j].h, t[j].m)
  <2>. DEFINE y == j - n
  <2>1. j > n /\ y \in DOMAIN r /\ t[j] = r[y]
    BY <1>6, <1>8
  <2>2. CASE i \in DOMAIN p /\ t[i] = p[i]
    <3>. HIDE DEF y
    <3>. QED  BY <1>8, <2>1, <2>2 DEF Spares
  <2>3. CASE i > n /\ i - n \in DOMAIN r /\ t[i] = r[i - n]
    <3>. DEFINE x == i - n
    <3>1. i \in Int /\ j \in Int /\ n \in Int
      BY <1>2, <1>3
    <3>2. x < y /\ x \in DOMAIN r /\ t[i] = r[x]
      BY <1>8, <2>3, <3>1
    <3>. HIDE DEF x, y
    <3>. QED  BY <1>8, <2>1, <3>2 DEF Calm
  <2>. QED  BY <1>6, <2>2, <2>3
<1>9. Calm(t)
  BY <1>5, <1>7, <1>8 DEF Calm
<1>. QED  BY <1>9 DEF t

LEMMA NineMembers ==
    ASSUME NEW a, NEW b, NEW c, NEW d, NEW e, NEW f, NEW g, NEW h, NEW i,
           NEW j \in DOMAIN Nine(a, b, c, d, e, f, g, h, i)
    PROVE  Nine(a, b, c, d, e, f, g, h, i)[j] \in {a, b, c, d, e, f, g, h, i}
BY DEF Nine

LEMMA FoundConn ==
    ASSUME TypeOK(Data), NEW c \in Clients, NEW s
    PROVE  /\ get_service_conn(c, s) \in Conns \cup {Nil}
           /\ client_conns(c) \in Seq(Conns)
<1>1. active \in [Clients -> Conns \cup {Nil}] /\ inactive \in [Clients -> Seq(Conns)]
  BY DEF TypeOK, Data
<1>2. client_conns(c) \in Seq(Conns)
  BY <1>1 DEF client_conns
<1>. DEFINE q == client_conns(c)
            K == {k \in ToSet(q) : Contains(map[k]["services"], s)}
<1>3. ToSet(q) \subseteq Conns
  <2>. HIDE DEF q
  <2>1. q \in Seq(Conns)
    BY <1>2 DEF q
  <2>. QED  BY <2>1 DEF ToSet
<1>4. K \subseteq Conns
  BY <1>3
<1>5. get_service_conn(c, s) = IF K = {} THEN Nil ELSE CHOOSE k \in K : TRUE
  BY DEF get_service_conn
<1>. HIDE DEF K
<1>. QED  BY <1>2, <1>4, <1>5

LEMMA RemoveCalm ==
    ASSUME Calm(todo), todo # <<>>, TypeOK(Data), remove_service
    PROVE  Calm(todo')
<1>. DEFINE c == this.o  s == this.s  k == get_service_conn(c, s)  p == RemoveProgram(c, s, k)
            r == Tail(todo)
<1>1. this.op = "remove_service" /\ todo' = p \o r
  BY DEF remove_service, At, this, Run
<1>2. Ready(this) /\ Calm(r) /\ Spares(this, r)
  BY CalmTail DEF this
<1>3. c \in Clients
  BY <1>1, <1>2 DEF Ready
<1>4. k \in Conns \cup {Nil}
  <2>. HIDE DEF c
  <2>. QED  BY <1>3, FoundConn
<1>5. IsSeq(p)
  <2>. HIDE DEF c, s, k
  <2>. QED  BY RunRemove
<1>6. \A a : Within(a, this)
  BY <1>1 DEF Within, Alters
<1>7. \A a : Spares(a, r)
  BY <1>2, <1>6, SparesWithin
<1>. HIDE DEF c, s, k
<1>8. ASSUME NEW j \in DOMAIN p PROVE Ready(p[j]) /\ p[j].op # "foreach"
  <2>. DEFINE s1 == Inc(s)  s2 == Inc(c)  s3 == Del(k, "services", s, c)  s4 == DropConn(c, k)
              s5 == DropClient(c)  s6 == Del(Db, "services", s, c)
              s7 == Commit(s, Nil, FALSE, "removed")  s8 == Dec(s)  s9 == Dec(c)
  <2>1. p = Nine(s1, s2, s3, s4, s5, s6, s7, s8, s9)
    BY DEF Nine, RemoveProgram
  <2>2. /\ Ready(s1) /\ Ready(s2) /\ Ready(s3) /\ Ready(s4) /\ Ready(s5)
        /\ Ready(s6) /\ Ready(s7) /\ Ready(s8) /\ Ready(s9)
    BY <1>4, Harmless
  <2>3. /\ s1.op # "foreach" /\ s2.op # "foreach" /\ s3.op # "foreach" /\ s4.op # "foreach"
        /\ s5.op # "foreach" /\ s6.op # "foreach" /\ s7.op # "foreach" /\ s8.op # "foreach"
        /\ s9.op # "foreach"
    BY DEF Inc, Del, DropConn, DropClient, Commit, Dec
  <2>. HIDE DEF s1, s2, s3, s4, s5, s6, s7, s8, s9, p
  <2>4. p[j] \in {s1, s2, s3, s4, s5, s6, s7, s8, s9}
    BY <1>8, <2>1, NineMembers
  <2>. QED  BY <2>2, <2>3, <2>4
<1>. HIDE DEF p, r
<1>. QED  BY <1>1, <1>2, <1>5, <1>7, <1>8, CalmPush

LEMMA ConnsCalm ==
    ASSUME Calm(todo), todo # <<>>, TypeOK(Data), Safe(todo, Data),
           keep_conn \/ drop_conn \/ destroy_conns
    PROVE  Calm(todo')
<1>. DEFINE r == Tail(todo)
<1>1. Ready(this) /\ Calm(r) /\ Spares(this, r) /\ IsSeq(r)
  BY CalmTail DEF this
<1>2. CASE Run(<<>>)
  BY <1>2, CalmRun0
<1>3. CASE (keep_conn \/ drop_conn) /\ Run(conn_destroy(this.k))
  <2>. DEFINE k == this.k
  <2>1. this.op \in {"keep_conn", "drop_conn"}
    BY <1>3 DEF keep_conn, drop_conn, At, this
  <2>2. k \in Conns
    <3>1. k \in Conns \cup {Nil}
      BY <1>1, <2>1 DEF Ready
    <3>2. k \in heap
      BY <1>1, <2>1 DEF Ready, Safe, Alive, Data, this
    <3>3. Nil \notin heap
      BY DistinctConstants DEF TypeOK, Data, Hosts
    <3>. QED  BY <3>1, <3>2, <3>3
  <2>3. Within(DropConn(Nil, k), this)
    BY <2>1 DEF Within, Alters, DropConn
  <2>4. Spares(DropConn(Nil, k), r)
    BY <1>1, <2>3, SparesWithin
  <2>5. todo' = conn_destroy(k) \o r
    BY <1>3 DEF Run
  <2>. HIDE DEF k, r
  <2>. QED  BY <1>1, <2>2, <2>4, <2>5, CalmConn
<1>4. CASE destroy_conns
  <2>. DEFINE c == this.o  i == this.i  n == i + 1  q == client_conns(c)  f == DestroyConns(c, n)
  <2>1. this.op = "destroy_conns"
    BY <1>4 DEF destroy_conns, At, this
  <2>2. this = DestroyConns(c, i) /\ c \in Clients /\ i \in Nat \ {0}
    BY <1>1, <2>1 DEF Ready
  <2>3. [this EXCEPT !.i = @ + 1] = f
    BY <2>2, DestroyTurn
  <2>4. CASE ~(i <= Len(q))
    BY <1>2, <1>4, <2>4 DEF destroy_conns
  <2>5. CASE i <= Len(q)
    <3>. DEFINE k == q[i]  u == Prog1(f, r)
    <3>1. k \in Conns
      <4>1. q \in Seq(Conns)
        <5>. HIDE DEF c
        <5>. QED  BY <2>2, FoundConn
      <4>. HIDE DEF q, i
      <4>. QED  BY <2>2, <2>5, <4>1
    <3>2. Run(Append(conn_destroy(k), f))
      BY <1>4, <2>3, <2>5 DEF destroy_conns
    <3>3. Within(f, this) /\ f.op # "foreach"
      BY <2>1 DEF Within, Alters, DestroyConns
    <3>4. n \in Nat \ {0}
      BY <2>2
    <3>5. Ready(f)
      <4>. HIDE DEF c, n
      <4>. QED  BY <2>2, <3>4, Harmless
    <3>6. Within(DropConn(Nil, k), this)
      <4>. HIDE DEF k
      <4>. QED  BY <2>1, <3>1 DEF Within, Alters, DropConn
    <3>7. todo' = Append(conn_destroy(k), f) \o r
      BY <3>2 DEF Run
    <3>. HIDE DEF f, k, r
    <3>8. todo' = conn_destroy(k) \o u
      BY <1>1, <3>7, AppendConn
    <3>9. IsSeq(u) /\ Starts(u, f) /\ Tail(u) = r
      BY <1>1, Push1
    <3>. HIDE DEF u
    <3>10. Spares(f, r) /\ Spares(DropConn(Nil, k), r)
      BY <1>1, <3>3, <3>6, SparesWithin
    <3>11. Calm(u) /\ Spares(DropConn(Nil, k), u)
      BY <1>1, <3>3, <3>5, <3>9, <3>10, CalmCons, SparesCons
    <3>. QED  BY <3>1, <3>8, <3>11, CalmConn
  <2>. QED  BY <2>4, <2>5
<1>5. keep_conn \/ drop_conn => Run(<<>>) \/ Run(conn_destroy(this.k))
  BY DEF keep_conn, drop_conn
<1>. QED  BY <1>2, <1>3, <1>4, <1>5

LEMMA StatementCalm ==
    ASSUME Next, Calm(todo), todo # <<>>, Reached(todo, Data)
    PROVE  Calm(todo')
<1>1. TypeOK(Data)
  BY ReachedType
<1>2. Safe(todo, Data)
  BY ReachedSafe DEF Calm
<1>3. Statement
  BY Dispatch
<1>. QED  BY <1>1, <1>2, <1>3, CountCalm, ForeachCalm, ServiceCalm, RemoveCalm, ConnsCalm
          DEF Statement

\* What a statement does to a list that it does not alter.
LEMMA StatementSpares ==
    ASSUME Next, todo # <<>>, TypeOK(Data), NEW h \in Hosts, NEW m \in Maps,
           ~Alters(Head(todo), h, m)
    PROVE  map'[h][m] = map[h][m]
<1>1. map \in [Hosts -> [Maps -> Seq(Objects)]]
  BY DEF TypeOK, MapsOK, Data
<1>2. ASSUME NEW x, NEW y, NEW q, map' = [map EXCEPT ![x][y] = q], x # h \/ y # m
      PROVE  map'[h][m] = map[h][m]
  BY <1>1, <1>2
<1>. DEFINE a == this
<1>3. CASE pmap_add_cnted \/ pmap_del_cnted
  <2>1. a.op \in {"add", "del"} /\ ~Alters(a, h, m)
    BY <1>3 DEF pmap_add_cnted, pmap_del_cnted, At, this
  <2>2. a.h # h \/ a.m # m
    BY <2>1 DEF Alters
  <2>3. \E q : map' = [map EXCEPT ![a.h][a.m] = q]
    BY <1>3 DEF pmap_add_cnted, pmap_del_cnted
  <2>. HIDE DEF a
  <2>. QED  BY <1>2, <2>2, <2>3
<1>4. CASE pmap_clear
  <2>1. a.op = "clear" /\ ~Alters(a, h, m)
    BY <1>4 DEF pmap_clear, At, this
  <2>2. a.o # h \/ a.m # m
    BY <2>1 DEF Alters
  <2>3. map' = [map EXCEPT ![a.o][a.m] = <<>>]
    BY <1>4 DEF pmap_clear
  <2>. HIDE DEF a
  <2>. QED  BY <1>2, <2>2, <2>3
<1>5. CASE maintain_orphans
  <2>1. a.op = "maintain_orphans" /\ ~Alters(a, h, m)
    BY <1>5 DEF maintain_orphans, At, this
  <2>2. Db # h \/ "timers" # m
    BY <2>1 DEF Alters
  <2>3. map' = map \/ \E q : map' = [map EXCEPT ![Db]["timers"] = q]
    BY <1>5 DEF maintain_orphans, add_orphan_timer, remove_orphan_timer
  <2>. HIDE DEF a
  <2>. QED  BY <1>2, <2>2, <2>3
<1>6. Statement
  BY Dispatch
<1>7. \/ pmap_add_cnted \/ pmap_del_cnted \/ pmap_clear \/ maintain_orphans
      \/ map' = map
  BY <1>6 DEF Statement, inc_ref, dec_ref, ut_free, plist_foreach, sub_notify, service_commit,
              capture_service, remove_service, conn_create, keep_conn, drop_conn,
              destroy_conns, drop_client
<1>. QED  BY <1>3, <1>4, <1>5, <1>7

LEMMA StatementStable ==
    ASSUME Next, Calm(todo), TypeOK(Data), NEW j \in DOMAIN todo, j > 1, todo[j].op = "foreach"
    PROVE  map'[todo[j].h][todo[j].m] = map[todo[j].h][todo[j].m]
<1>1. todo # <<>>
  <2>1. DOMAIN <<>> = {}
    OBVIOUS
  <2>. QED  BY <2>1
<1>2. IsSeq(todo)
  BY DEF Calm
<1>3. 1 \in DOMAIN todo /\ 1 < j /\ todo[1] = Head(todo)
  BY <1>1, <1>2, HeadTail
<1>4. ~Alters(Head(todo), todo[j].h, todo[j].m) /\ Ready(todo[j])
  BY <1>3 DEF Calm
<1>5. todo[j].h \in Hosts /\ todo[j].m \in Maps
  BY <1>4 DEF Ready
<1>. QED  BY <1>1, <1>4, <1>5, StatementSpares

-----------------------------------------------------------------------------
(* The calls, made between two calls.                                       *)

LEMMA CalmQuiet ==
    ASSUME NEW t, IsSeq(t), \A j \in DOMAIN t : Ready(t[j]) /\ t[j].op # "foreach"
    PROVE  Calm(t)
BY DEF Calm

\* What is in the maps of the database, and what is not.
LEMMA KnownClient ==
    ASSUME NEW d, Good(d, {}, {}), NEW c \in Clients
    PROVE  /\ Contains(d.map[Db]["clients"], c) => Held(d, c, 1, {<<Db, "clients">>})
           /\ ~Contains(d.map[Db]["clients"], c) => Gone(d, c) /\ Own(d, c) = {}
<1>1. ClientOK(d, {}, c)
  BY DEF Good
<1>2. <<Db, "clients">> \in Places(d.map, c) <=> Contains(d.map[Db]["clients"], c)
  BY MapNames, PlaceOf
<1>3. Own(d, c) \subseteq Owned(d, {}, c)
  BY DEF Owned
<1>. DEFINE a == <<Db, "clients">>
<1>. HIDE DEF a
<1>4. /\ Held(d, c, 1, {a}) \/ (Gone(d, c) /\ Owned(d, {}, c) = {})
      /\ a \in Places(d.map, c) <=> Contains(d.map[Db]["clients"], c)
  BY <1>1, <1>2 DEF ClientOK, a
<1>5. Contains(d.map[Db]["clients"], c) => Held(d, c, 1, {a})
  BY <1>4 DEF Gone
<1>6. ~Contains(d.map[Db]["clients"], c) => Gone(d, c) /\ Own(d, c) = {}
  BY <1>3, <1>4 DEF Held
<1>. QED  BY <1>5, <1>6 DEF a

LEMMA KnownService ==
    ASSUME NEW d, Good(d, {}, {}), NEW s \in Services
    PROVE  /\ Contains(d.map[Db]["services"], s) => \E k \in Conns : ServiceIn(d, {}, s, k)
           /\ ~Contains(d.map[Db]["services"], s) => Gone(d, s)
<1>1. ServiceOK(d, {}, s)
  BY DEF Good
<1>2. <<Db, "services">> \in Places(d.map, s) <=> Contains(d.map[Db]["services"], s)
  BY MapNames, PlaceOf
<1>3. \A k : ServiceIn(d, {}, s, k) => <<Db, "services">> \in Places(d.map, s)
  BY ServicePlaces
<1>. QED  BY <1>1, <1>2, <1>3 DEF ServiceOK, Gone

LEMMA KnownSub ==
    ASSUME NEW d, Good(d, {}, {}), NEW b \in Subs
    PROVE  ~Contains(d.map[Db]["subs"], b) => Gone(d, b)
<1>1. SubOK(d, b)
  BY DEF Good
<1>2. <<Db, "subs">> \in Places(d.map, b) <=> Contains(d.map[Db]["subs"], b)
  BY MapNames, PlaceOf
<1>. QED  BY <1>1, <1>2 DEF SubOK, Held

LEMMA CreateData ==
    ASSUME NEW o, Create(o), UNCHANGED <<map, active, inactive, connected, svc>>
    PROVE  Data' = Created(Data, o)
BY DEF Create, Created, Data

\* A new object, which the call has to take care of.
LEMMA CreateGood ==
    ASSUME NEW d, Good(d, {}, {}), NEW o \in Objects, Gone(d, o)
    PROVE  LET e == Created(d, o)
           IN  /\ Good(e, {}, {o}) /\ Held(e, o, 1, {}) /\ Touches(d, e, o)
               /\ e.heap = d.heap \cup {o} /\ e.active = d.active
<1>. DEFINE e == Created(d, o)
<1>1. Touches(d, e, o) /\ Held(e, o, 1, {})
  BY GoodType, CreateHeld
<1>2. e.heap = d.heap \cup {o} /\ e.active = d.active
  BY DEF Created
<1>. DEFINE N == {}  Y == {o}
<1>3. Good(d, {}, N) /\ N \subseteq Y \cup {o} /\ o \in Y
  OBVIOUS
<1>. HIDE DEF e, N, Y
<1>4. Good(e, {}, Y)
  BY <1>1, <1>3, GoodStep
<1>. QED  BY <1>1, <1>2, <1>4 DEF e, Y

LEMMA ConnectCall ==
    ASSUME Good(Data, {}, {}), NEW c \in Clients, sd_client_connect(c)
    PROVE  Calm(todo') /\ Reached(todo', Data')
<1>1. Known(c) <=> Contains(Data.map[Db]["clients"], c)
  BY DEF Known, Data
<1>2. Conns \ Data.heap # {} /\ UNCHANGED <<map, active, inactive, connected, svc>>
  BY DEF sd_client_connect, Data
<1>3. CASE ~Known(c) /\ Create(c) /\ todo' = <<NewConn(c), Add(Db, "clients", c, c), Dec(c)>>
  <2>. DEFINE a1 == NewConn(c)  a2 == Add(Db, "clients", c, c)  a3 == Dec(c)  t == <<a1, a2, a3>>
              d == Data  e == Data'
  <2>1. Gone(d, c) /\ Own(d, c) = {} /\ c \in Objects
    BY <1>1, <1>3, KnownClient DEF Objects
  <2>2. e = Created(d, c)
    BY <1>2, <1>3, CreateData
  <2>. HIDE DEF d, e
  <2>3. /\ Good(e, {}, {c}) /\ Held(e, c, 1, {}) /\ Touches(d, e, c)
        /\ e.heap = d.heap \cup {c}
    BY <2>1, <2>2, CreateGood DEF d
  <2>4. Own(e, c) = {}
    BY <2>1, <2>3, TouchesOwned
  <2>5. Conns \ e.heap # {}
    <3>1. c \notin Conns
      BY DistinctConstants DEF Objects
    <3>. QED  BY <1>2, <2>3, <3>1 DEF d
  <2>6. Ready(a1) /\ Ready(a2) /\ Ready(a3)
    BY Harmless
  <2>7. a1.op # "foreach" /\ a2.op # "foreach" /\ a3.op # "foreach"
    BY DEF NewConn, Add, Dec
  <2>. HIDE DEF a1, a2, a3
  <2>8. IsSeq(t) /\ Starts(t, a1) /\ Starts(Tail(t), a2) /\ Only(Tail(Tail(t)), a3)
    BY Tuple1, Tuple2, Tuple3
  <2>9. Calm(t)
    <3>1. \A j \in DOMAIN t : t[j] \in {a1, a2, a3}
      OBVIOUS
    <3>. HIDE DEF t
    <3>. QED  BY <2>6, <2>7, <2>8, <3>1, CalmQuiet
  <2>. HIDE DEF t
  <2>10. Connect1(t, e, c)
    BY <2>3, <2>4, <2>5, <2>8 DEF Connect1, NewClient, a1, a2, a3
  <2>11. Reached(t, e)
    BY <2>10 DEF Reached, Point, ClientPoint
  <2>. QED  BY <1>3, <2>9, <2>11 DEF t, a1, a2, a3, e
<1>4. CASE /\ Known(c) /\ active[c] = Nil /\ todo' = <<NewConn(c)>>
           /\ UNCHANGED <<heap, ref_cnt>>
  <2>. DEFINE a1 == NewConn(c)  t == <<a1>>
  <2>1. Data' = Data
    BY <1>2, <1>4 DEF Data
  <2>2. c \in Data.heap /\ Data.active[c] = Nil
    BY <1>1, <1>4, KnownClient DEF Held, Data
  <2>3. Ready(a1) /\ a1.op # "foreach"
    BY Harmless DEF NewConn
  <2>. HIDE DEF a1
  <2>4. IsSeq(t) /\ Only(t, a1)
    BY Tuple1
  <2>5. Calm(t)
    <3>1. \A j \in DOMAIN t : t[j] \in {a1}
      OBVIOUS
    <3>. HIDE DEF t
    <3>. QED  BY <2>3, <2>4, <3>1, CalmQuiet
  <2>. HIDE DEF t
  <2>6. Reconnect(t, Data, c)
    BY <1>2, <2>2, <2>4 DEF Reconnect, a1
  <2>7. Reached(t, Data)
    BY <2>6 DEF Reached, Point, ClientPoint
  <2>. QED  BY <1>4, <2>1, <2>5, <2>7 DEF t, a1
<1>. QED  BY <1>3, <1>4 DEF sd_client_connect

\* The connection a call is made on.
LEMMA ConnectedClient ==
    ASSUME Good(Data, {}, {}), NEW c \in Clients, Connected(c)
    PROVE  /\ c \in Data.heap /\ active[c] = Data.active[c] /\ active[c] # Nil
           /\ active[c] \in Conns /\ active[c] \in Own(Data, c) /\ active[c] \in Data.connected
<1>1. Contains(Data.map[Db]["clients"], c) /\ Data.active[c] # Nil /\ active[c] = Data.active[c]
  BY DEF Connected, Known, Data
<1>2. c \in Data.heap
  BY <1>1, KnownClient DEF Held
<1>. DEFINE d == Data
<1>. HIDE DEF d
<1>3. Good(d, {}, {}) /\ d.active[c] # Nil
  BY <1>1 DEF d
<1>4. d.active[c] \in Own(d, c) /\ d.active[c] \in d.connected /\ d.active[c] \in Conns
  BY <1>3, ActiveOwn
<1>. QED  BY <1>1, <1>2, <1>4 DEF d

LEMMA DisconnectShape ==
    ASSUME NEW c, NEW k
    PROVE  LET t == <<Foreach(k, "subs", 1, "sub_handle_conn_inactivation", k)>>
                      \o ClearCounted(k, "subs")
                      \o <<Foreach(k, "services", 1, "service_handle_conn_inactivation", k),
                           KeepConn(c, k), DropClient(c)>>
           IN  IsSeq(t) /\ SubsTail(t, c, k, 1)
<1>. DEFINE a1 == Foreach(k, "subs", 1, "sub_handle_conn_inactivation", k)
            a2 == Foreach(k, "subs", 1, "dec_ref", k)  a3 == Clear(k, "subs")
            a4 == Foreach(k, "services", 1, "service_handle_conn_inactivation", k)
            a5 == KeepConn(c, k)  a6 == DropClient(c)
            p == <<a1>>  q == <<a2, a3>>  r == <<a4, a5, a6>>  t == (p \o q) \o r
<1>1. ClearCounted(k, "subs") = q
  BY DEF ClearCounted
<1>. HIDE DEF a1, a2, a3, a4, a5, a6
<1>2. IsSeq(p) /\ IsSeq(q) /\ IsSeq(r)
  BY Tuple1, Tuple2, Tuple3
<1>3. Starts(r, a4) /\ Starts(Tail(r), a5) /\ Only(Tail(Tail(r)), a6)
  BY Tuple1, Tuple2, Tuple3
<1>. DEFINE u == Prog2(a2, a3, r)
<1>4. q \o r = u /\ p \o u = Prog1(a1, u)
  BY DEF Prog1, Prog2
<1>. HIDE DEF p, q, r, u
<1>5. t = Prog1(a1, u)
  <2>1. (p \o q) \o r = p \o (q \o r)
    BY <1>2, Assoc
  <2>. QED  BY <1>4, <2>1, Zenon
<1>6. IsSeq(u) /\ Starts(u, a2) /\ Tail(u) = Prog1(a3, r)
  BY <1>2, Push2 DEF u
<1>7. Starts(Prog1(a3, r), a3) /\ Tail(Prog1(a3, r)) = r
  BY <1>2, Push1
<1>8. IsSeq(t) /\ Starts(t, a1) /\ Tail(t) = u
  BY <1>5, <1>6, Push1
<1>9. IsSeq(t) /\ SubsTail(t, c, k, 1)
  BY <1>3, <1>6, <1>7, <1>8
     DEF SubsTail, SweepTail, ClearTail, ServicesTail, KeepTail, a1, a2, a3, a4, a5, a6
<1>. QED  BY <1>1, <1>9 DEF p, r, t, a1, a4, a5, a6

LEMMA DisconnectCalm ==
    ASSUME NEW c, NEW k \in Conns, NEW t, IsSeq(t), SubsTail(t, c, k, 1)
    PROVE  Calm(t)
<1>. DEFINE a1 == Foreach(k, "subs", 1, "sub_handle_conn_inactivation", k)
            a2 == Foreach(k, "subs", 1, "dec_ref", k)  a3 == Clear(k, "subs")
            a4 == Foreach(k, "services", 1, "service_handle_conn_inactivation", k)
            a5 == KeepConn(c, k)  a6 == DropClient(c)
            t2 == Tail(t)  t3 == Tail(t2)  t4 == Tail(t3)  t5 == Tail(t4)  t6 == Tail(t5)
<1>1. /\ Starts(t, a1) /\ Starts(t2, a2) /\ Starts(t3, a3) /\ Starts(t4, a4) /\ Starts(t5, a5)
      /\ Starts(t6, a6) /\ Tail(t6) = <<>>
  BY DEF SubsTail, SweepTail, ClearTail, ServicesTail, KeepTail, Only
<1>2. IsSeq(t2) /\ IsSeq(t3) /\ IsSeq(t4) /\ IsSeq(t5) /\ IsSeq(t6)
  BY <1>1, TailSeq DEF Starts
<1>3. k \in Hosts /\ k # Db /\ "services" \in Maps /\ "subs" \in Maps /\ 1 \in Nat \ {0}
  BY MapNames, DistinctConstants
<1>4. /\ a1.op = "foreach" /\ a2.op = "foreach" /\ a4.op = "foreach"
      /\ a1.h = k /\ a2.h = k /\ a4.h = k
      /\ a4.m = "services" /\ a3.op # "foreach" /\ a5.op # "foreach" /\ a6.op # "foreach"
  BY DEF Foreach, Clear, KeepConn, DropClient
<1>5. /\ \A h, m : Alters(a1, h, m) => h = Db
      /\ \A h, m : Alters(a4, h, m) => h = Db
      /\ \A h, m : Alters(a3, h, m) => m = "subs"
  BY DEF Alters, Foreach, Clear
<1>6. Ready(a2) /\ \A h, m : ~Alters(a2, h, m)
  BY <1>3, Iterate
<1>7. /\ "sub_handle_conn_inactivation" \in Callbacks
      /\ "service_handle_conn_inactivation" \in Callbacks
  BY DEF Callbacks
<1>8. Ready(a1) /\ Ready(a4)
  BY <1>3, <1>5, <1>7, IterateReady
<1>9. Ready(a3) /\ Ready(a5) /\ Ready(a6)
  BY Harmless
<1>10. t2 = Tail(t) /\ t3 = Tail(t2) /\ t4 = Tail(t3) /\ t5 = Tail(t4) /\ t6 = Tail(t5)
  OBVIOUS
<1>. HIDE DEF a1, a2, a3, a4, a5, a6, t2, t3, t4, t5, t6
<1>11. Calm(t6) /\ \A a : Spares(a, t6)
  BY <1>1, <1>2, <1>4, <1>9, CalmNone, CalmCons, SparesCons
<1>12. Calm(t5) /\ \A a : Spares(a, t5)
  BY <1>1, <1>2, <1>4, <1>9, <1>10, <1>11, CalmCons, SparesCons
<1>13. ~Alters(a3, a4.h, a4.m) /\ ~Alters(a1, a4.h, a4.m) /\ ~Alters(a1, a2.h, a2.m)
  <2>1. "services" # "subs"
    OBVIOUS
  <2>. QED  BY <1>3, <1>4, <1>5, <2>1
<1>14. Calm(t4) /\ Spares(a3, t4) /\ Spares(a1, t4)
  BY <1>1, <1>2, <1>8, <1>10, <1>12, <1>13, CalmCons, SparesCons
<1>15. Calm(t3) /\ Spares(a1, t3)
  BY <1>1, <1>2, <1>4, <1>9, <1>10, <1>14, CalmCons, SparesCons
<1>16. Spares(a2, t3)
  BY <1>6 DEF Spares
<1>17. Calm(t2) /\ Spares(a1, t2)
  BY <1>1, <1>2, <1>6, <1>10, <1>13, <1>15, <1>16, CalmCons, SparesCons
<1>. QED  BY <1>1, <1>8, <1>10, <1>17, CalmCons

LEMMA DisconnectCall ==
    ASSUME Good(Data, {}, {}), NEW c \in Clients, sd_client_disconnect(c)
    PROVE  Calm(todo') /\ Reached(todo', Data')
<1>. DEFINE d == Data  e == Data'  k == active[c]  t == todo'
<1>1. Connected(c)
  BY DEF sd_client_disconnect
<1>2. c \in d.heap /\ k = d.active[c] /\ k \in Conns /\ k \in d.connected
  BY <1>1, ConnectedClient
<1>3. e = Parted(d, c, k)
  BY DEF sd_client_disconnect, Data, Parted
<1>4. IsSeq(t) /\ SubsTail(t, c, k, 1)
  <2>1. t = <<Foreach(k, "subs", 1, "sub_handle_conn_inactivation", k)>>
              \o ClearCounted(k, "subs")
              \o <<Foreach(k, "services", 1, "service_handle_conn_inactivation", k),
                   KeepConn(c, k), DropClient(c)>>
    BY DEF sd_client_disconnect
  <2>. HIDE DEF k, t
  <2>. QED  BY <2>1, DisconnectShape
<1>5. Good(d, {}, {})
  OBVIOUS
<1>. HIDE DEF d, e, k, t
<1>6. Calm(t)
  BY <1>2, <1>4, DisconnectCalm
<1>7. /\ Good(e, {<<c, k>>}, ToSet(d.map[k]["subs"]))
      /\ e.heap = d.heap /\ e.map = d.map /\ k \notin e.connected /\ e.svc = d.svc
      /\ \A x \in Objects : \A r, P : Held(d, x, r, P) => Held(e, x, r, P)
  BY <1>2, <1>3, <1>5, ConnParted
<1>8. TypeOK(d) /\ k \in Hosts /\ "services" \in Maps /\ "subs" \in Maps
  BY <1>2, <1>5, GoodType, MapNames
<1>9. Unorphaned(e, k, 1)
  <2>1. SUFFICES ASSUME NEW j \in DOMAIN d.map[k]["services"]
                 PROVE  ~d.svc[d.map[k]["services"][j]].orphan
    BY <1>7 DEF Unorphaned
  <2>. DEFINE s == d.map[k]["services"][j]  N == {}
  <2>2. s \in Kind("services") /\ <<k, "services">> \in Places(d.map, s)
    BY <1>8, ListMember
  <2>3. s \in Services \ N /\ Good(d, {}, N)
    BY <1>5, <2>2, Kinds
  <2>. HIDE DEF s, N
  <2>4. ServiceIn(d, {}, s, k)
    BY <1>2, <2>2, <2>3, ServiceOfConn
  <2>. QED  BY <1>2, <2>4 DEF ServiceIn, s
<1>10. ASSUME NEW j \in DOMAIN e.map[k]["subs"]
       PROVE  Held(e, e.map[k]["subs"][j], 2, {<<Db, "subs">>, <<k, "subs">>})
  <2>. DEFINE b == d.map[k]["subs"][j]  N == {}
  <2>1. j \in DOMAIN d.map[k]["subs"]
    BY <1>7, <1>10
  <2>2. b \in Kind("subs") /\ b \in Objects /\ <<k, "subs">> \in Places(d.map, b)
    BY <1>8, <2>1, ListMember
  <2>3. b \in Subs \ N /\ Good(d, {}, N)
    BY <1>5, <2>2, Kinds
  <2>. HIDE DEF b, N
  <2>4. Held(d, b, 2, {<<Db, "subs">>, <<k, "subs">>})
    BY <1>2, <2>2, <2>3, SubOfConn
  <2>5. Held(e, b, 2, {<<Db, "subs">>, <<k, "subs">>})
    BY <1>7, <2>2, <2>4
  <2>. QED  BY <1>7, <2>5 DEF b
<1>11. \A j \in DOMAIN e.map[k]["subs"] : j \in Int /\ ~(j < 1)
  <2>1. e.map[k]["subs"] \in Seq(Kind("subs"))
    BY <1>7, <1>8, ListOK
  <2>. QED  BY <2>1
<1>12. SubsLeaving(e, c, k, 1)
  BY <1>2, <1>7, <1>9, <1>10, <1>11 DEF SubsLeaving
<1>13. Subs1(t, e, c, k, 1) /\ 1 \in Nat \ {0}
  BY <1>4, <1>12 DEF Subs1
<1>14. Reached(t, e)
  BY <1>2, <1>13 DEF Reached, Point, ClientPoint
<1>. QED  BY <1>6, <1>14 DEF t, e

LEMMA JoinOne ==
    ASSUME NEW a, NEW b
    PROVE  /\ <<a>> \o <<b>> = <<a, b>>
           /\ (<<>> \o <<a>>) \o <<b>> = <<a, b>> /\ (<<>> \o <<>>) \o <<b>> = <<b>>
<1>1. <<a>> \o <<b>> = <<a, b>>
  <2>. DEFINE x == <<a>> \o <<b>>  y == <<a, b>>
  <2>1. x \in Seq({a, b}) /\ Len(x) = 2 /\ x[1] = a /\ x[2] = b
    OBVIOUS
  <2>2. y \in Seq({a, b}) /\ Len(y) = 2 /\ y[1] = a /\ y[2] = b
    OBVIOUS
  <2>. HIDE DEF x, y
  <2>3. \A i \in 1..2 : i = 1 \/ i = 2
    OBVIOUS
  <2>4. \A i \in 1..Len(x) : x[i] = y[i]
    BY <2>1, <2>2, <2>3
  <2>5. x = y
    BY <2>1, <2>2, <2>4, SeqEqual
  <2>. QED  BY <2>5 DEF x, y
<1>2. <<>> \o <<a>> = <<a>> /\ <<>> \o <<b>> = <<b>> /\ <<>> \o <<>> = <<>>
  <2>. DEFINE p == <<a>>  q == <<b>>  z == <<>>
  <2>1. IsSeq(p) /\ IsSeq(q) /\ IsSeq(z)
    BY Tuple1, NoProgram
  <2>. HIDE DEF p, q, z
  <2>2. <<>> \o p = p /\ <<>> \o q = q /\ <<>> \o z = z
    BY <2>1, PushNone
  <2>. QED  BY <2>2 DEF p, q, z
<1>. QED  BY <1>1, <1>2, Zenon

LEMMA CalmOne == ASSUME NEW a, Ready(a), a.op # "foreach" PROVE Calm(<<a>>)
<1>1. \A j \in DOMAIN <<a>> : <<a>>[j] = a
  OBVIOUS
<1>. DEFINE t == <<a>>
<1>2. IsSeq(t)
  BY Tuple1
<1>. HIDE DEF t
<1>3. Calm(t)
  BY <1>1, <1>2, CalmQuiet DEF t
<1>. QED  BY <1>3 DEF t

LEMMA CalmTwo ==
    ASSUME NEW a, NEW b, Ready(a), a.op # "foreach", Ready(b), b.op # "foreach"
    PROVE  Calm(<<a, b>>)
<1>1. \A j \in DOMAIN <<a, b>> : <<a, b>>[j] \in {a, b}
  OBVIOUS
<1>. DEFINE t == <<a, b>>
<1>2. IsSeq(t)
  BY Tuple2
<1>. HIDE DEF t
<1>3. Calm(t)
  BY <1>1, <1>2, CalmQuiet DEF t
<1>. QED  BY <1>3 DEF t

LEMMA CalmThree ==
    ASSUME NEW a, NEW b, NEW c, Ready(a), a.op # "foreach", Ready(b), b.op # "foreach",
           Ready(c), c.op # "foreach"
    PROVE  Calm(<<a, b, c>>)
<1>1. \A j \in DOMAIN <<a, b, c>> : <<a, b, c>>[j] \in {a, b, c}
  OBVIOUS
<1>. DEFINE t == <<a, b, c>>
<1>2. IsSeq(t)
  BY Tuple3
<1>. HIDE DEF t
<1>3. Calm(t)
  BY <1>1, <1>2, CalmQuiet DEF t
<1>. QED  BY <1>3 DEF t

\* A service that is published, between the calls.
LEMMA CommitReached ==
    ASSUME NEW d, Good(d, {}, {}), NEW c \in Clients, NEW s \in Services, NEW k \in Conns,
           ServiceIn(d, {}, s, k), d.svc[s].client_id = c, NEW t, CommitTail(t, c, s)
    PROVE  Reached(t, d)
<1>1. HeldService(d, s, 2, Published(k), d.svc[s].orphan) /\ k \in Owned(d, {}, c)
  BY DEF ServiceIn
<1>2. k \in Own(d, c)
  BY <1>1 DEF Owned
<1>3. Good(d, {}, {s})
  BY DEF Good
<1>4. Commit1(t, d, c, s, k)
  BY <1>1, <1>2, <1>3 DEF Commit1
<1>. QED  BY <1>4 DEF Reached, Point, ServicePoint

LEMMA CaptureReached ==
    ASSUME NEW d, Good(d, {}, {}), NEW c \in Clients, NEW s \in Services,
           s \in d.heap, c \in d.heap,
           d.svc[s].client_id # c, d.active[c] # Nil,
           NEW t, Starts(t, Capture(c, s)), CommitTail(Tail(t), c, s)
    PROVE  Reached(t, d)
<1>1. Capture1(t, d, c, s)
  BY DEF Capture1
<1>. QED  BY <1>1 DEF Reached, Point, ServicePoint

LEMMA PublishNewCall ==
    ASSUME Good(Data, {}, {}), NEW c \in Clients, NEW s \in Services, Connected(c),
           ~Contains(map[Db]["services"], s), Create(s), todo' = PublishNew(c, s),
           UNCHANGED <<map, active, inactive, connected, svc>>
    PROVE  Calm(todo') /\ Reached(todo', Data')
<1>. DEFINE d == Data  e == Data'  k == active[c]
            a1 == Commit(s, c, FALSE, "added")  a2 == Add(Db, "services", s, c)
            a3 == Add(k, "services", s, c)  a4 == Dec(s)  t == <<a1, a2, a3, a4>>
<1>1. c \in d.heap /\ k = d.active[c] /\ k \in Conns
  BY ConnectedClient
<1>2. todo' = t
  BY DEF PublishNew
<1>3. e = Created(d, s)
  BY CreateData
<1>4. Gone(d, s) /\ s \in Objects /\ Good(d, {}, {})
  <2>1. ~Contains(Data.map[Db]["services"], s)
    BY DEF Data
  <2>. QED  BY <2>1, KnownService DEF Objects
<1>5. Ready(a1) /\ Ready(a2) /\ Ready(a3) /\ Ready(a4)
  BY Harmless
<1>6. a1.op # "foreach" /\ a2.op # "foreach" /\ a3.op # "foreach" /\ a4.op # "foreach"
  BY DEF Commit, Add, Dec
<1>. HIDE DEF a1, a2, a3, a4, d, e, k
<1>7. /\ IsSeq(t) /\ Starts(t, a1) /\ Starts(Tail(t), a2) /\ Starts(Tail(Tail(t)), a3)
      /\ Only(Tail(Tail(Tail(t))), a4)
  BY Tuple1, Tuple2, Tuple3, Tuple4
<1>8. \A j \in DOMAIN t : t[j] \in {a1, a2, a3, a4}
  OBVIOUS
<1>. HIDE DEF t
<1>9. Calm(t)
  BY <1>5, <1>6, <1>7, <1>8, CalmQuiet
<1>10. /\ Good(e, {}, {s}) /\ Held(e, s, 1, {}) /\ e.heap = d.heap \cup {s}
       /\ e.active = d.active
  BY <1>3, <1>4, CreateGood
<1>11. NewService(e, c, s, k, 1, {})
  BY <1>1, <1>10 DEF NewService
<1>12. Publish1(t, e, c, s, k)
  BY <1>7, <1>11 DEF Publish1, NewTail, a1, a2, a3, a4
<1>13. Reached(t, e)
  BY <1>1, <1>12 DEF Reached, Point, ServicePoint
<1>. QED  BY <1>2, <1>9, <1>13 DEF e

LEMMA PublishCall ==
    ASSUME Good(Data, {}, {}), NEW c \in Clients, NEW s \in Services, sd_publish(c, s)
    PROVE  Calm(todo') /\ Reached(todo', Data')
<1>. DEFINE a1 == Capture(c, s)  a2 == Commit(s, c, FALSE, "modified")
<1>1. Connected(c) /\ UNCHANGED <<map, active, inactive, connected, svc>>
  BY DEF sd_publish
<1>2. CASE ~Contains(map[Db]["services"], s) /\ Create(s) /\ todo' = PublishNew(c, s)
  BY <1>1, <1>2, PublishNewCall
<1>3. CASE /\ Contains(map[Db]["services"], s)
           /\ todo' = (IF svc[s].client_id # c THEN <<a1>> ELSE <<>>) \o <<a2>>
           /\ UNCHANGED <<heap, ref_cnt>>
  <2>. DEFINE d == Data
  <2>1. Data' = d /\ d.svc = svc /\ d.active = active
    BY <1>1, <1>3 DEF Data
  <2>2. \E k \in Conns : ServiceIn(d, {}, s, k)
    <3>1. Contains(Data.map[Db]["services"], s)
      BY <1>3 DEF Data
    <3>. QED  BY <3>1, KnownService
  <2>3. s \in d.heap /\ c \in d.heap /\ d.active[c] # Nil /\ Good(d, {}, {})
    BY <1>1, <2>2, ServicePlaces, ConnectedClient
  <2>4. Ready(a1) /\ Ready(a2) /\ a1.op # "foreach" /\ a2.op # "foreach"
    BY Harmless DEF Capture, Commit
  <2>. HIDE DEF d, a1, a2
  <2>5. CASE svc[s].client_id # c
    <3>. DEFINE t == <<a1, a2>>
    <3>1. todo' = t
      BY <1>3, <2>5, JoinOne
    <3>2. Calm(t)
      BY <2>4, CalmTwo
    <3>3. Starts(t, a1) /\ Only(Tail(t), a2)
      BY Tuple1, Tuple2
    <3>. HIDE DEF t
    <3>4. Starts(t, a1) /\ CommitTail(Tail(t), c, s)
      BY <3>3 DEF CommitTail, UnpublishTail, Only, a2
    <3>5. Reached(t, d)
      BY <2>1, <2>3, <2>5, <3>4, CaptureReached DEF a1
    <3>. QED  BY <2>1, <3>1, <3>2, <3>5
  <2>6. CASE svc[s].client_id = c
    <3>. DEFINE t == <<a2>>
    <3>1. IsSeq(t) /\ Only(t, a2)
      BY Tuple1
    <3>2. Calm(t)
      BY <2>4, CalmOne
    <3>3. todo' = <<>> \o t
      BY <1>3, <2>6
    <3>. HIDE DEF t
    <3>4. todo' = t
      BY <3>1, <3>3, PushNone
    <3>5. CommitTail(t, c, s)
      BY <3>1 DEF CommitTail, UnpublishTail, Only, a2
    <3>6. Reached(t, d)
      BY <2>1, <2>2, <2>3, <2>6, <3>5, CommitReached
    <3>. QED  BY <2>1, <3>2, <3>4, <3>6
  <2>. QED  BY <2>5, <2>6
<1>. QED  BY <1>2, <1>3 DEF sd_publish

LEMMA UnpublishCall ==
    ASSUME Good(Data, {}, {}), NEW c \in Clients, NEW s \in Services, sd_unpublish(c, s)
    PROVE  Calm(todo') /\ Reached(todo', Data')
<1>. DEFINE a1 == Capture(c, s)  a2 == Commit(s, c, FALSE, "modified")  a3 == RemoveService(c, s)
            d == Data  changed == svc[s].client_id # c
<1>1. /\ Connected(c) /\ Contains(map[Db]["services"], s)
      /\ UNCHANGED <<heap, ref_cnt, map, active, inactive, connected, svc>>
      /\ todo' = ((IF changed THEN <<a1>> ELSE <<>>)
                    \o (IF changed \/ svc[s].orphan THEN <<a2>> ELSE <<>>)) \o <<a3>>
  BY DEF sd_unpublish
<1>2. Data' = d /\ d.svc = svc /\ d.active = active
  BY <1>1 DEF Data
<1>3. \E k \in Conns : ServiceIn(d, {}, s, k)
  <2>1. Contains(Data.map[Db]["services"], s)
    BY <1>1 DEF Data
  <2>. QED  BY <2>1, KnownService
<1>4. s \in d.heap /\ c \in d.heap /\ d.active[c] # Nil /\ Good(d, {}, {})
  BY <1>1, <1>3, ServicePlaces, ConnectedClient
<1>5. /\ Ready(a1) /\ Ready(a2) /\ Ready(a3)
      /\ a1.op # "foreach" /\ a2.op # "foreach" /\ a3.op # "foreach"
  BY Harmless DEF Capture, Commit, RemoveService
<1>. HIDE DEF d, a1, a2, a3
<1>6. CASE changed
  <2>. DEFINE t == <<a1, a2, a3>>
  <2>1. todo' = (<<a1>> \o <<a2>>) \o <<a3>>
    BY <1>1, <1>6
  <2>2. (<<a1>> \o <<a2>>) \o <<a3>> = t
    <3>. DEFINE x == (<<a1>> \o <<a2>>) \o <<a3>>
    <3>1. x \in Seq({a1, a2, a3}) /\ Len(x) = 3 /\ x[1] = a1 /\ x[2] = a2 /\ x[3] = a3
      BY JoinOne
    <3>2. t \in Seq({a1, a2, a3}) /\ Len(t) = 3 /\ t[1] = a1 /\ t[2] = a2 /\ t[3] = a3
      OBVIOUS
    <3>. HIDE DEF x, t
    <3>3. \A i \in 1..3 : i = 1 \/ i = 2 \/ i = 3
      OBVIOUS
    <3>4. \A i \in 1..Len(x) : x[i] = t[i]
      BY <3>1, <3>2, <3>3
    <3>5. x = t
      BY <3>1, <3>2, <3>4, SeqEqual
    <3>. QED  BY <3>5 DEF x
  <2>3. Calm(t)
    BY <1>5, CalmThree
  <2>4. Starts(t, a1) /\ Starts(Tail(t), a2) /\ Only(Tail(Tail(t)), a3)
    BY Tuple1, Tuple2, Tuple3
  <2>. HIDE DEF t
  <2>5. Starts(t, a1) /\ CommitTail(Tail(t), c, s)
    BY <2>4 DEF CommitTail, UnpublishTail, a2, a3
  <2>6. Reached(t, d)
    BY <1>2, <1>4, <1>6, <2>5, CaptureReached DEF a1
  <2>. QED  BY <1>2, <2>1, <2>2, <2>3, <2>6
<1>7. CASE ~changed /\ svc[s].orphan
  <2>. DEFINE t == <<a2, a3>>
  <2>1. todo' = (<<>> \o <<a2>>) \o <<a3>>
    BY <1>1, <1>7
  <2>2. (<<>> \o <<a2>>) \o <<a3>> = t
    BY JoinOne
  <2>3. Calm(t)
    BY <1>5, CalmTwo
  <2>4. Starts(t, a2) /\ Only(Tail(t), a3)
    BY Tuple1, Tuple2
  <2>. HIDE DEF t
  <2>5. CommitTail(t, c, s)
    BY <2>4 DEF CommitTail, UnpublishTail, a2, a3
  <2>6. Reached(t, d)
    BY <1>2, <1>3, <1>4, <1>7, <2>5, CommitReached
  <2>. QED  BY <1>2, <2>1, <2>2, <2>3, <2>6
<1>8. CASE ~changed /\ ~svc[s].orphan
  <2>. DEFINE t == <<a3>>
  <2>1. todo' = (<<>> \o <<>>) \o <<a3>>
    BY <1>1, <1>8
  <2>2. (<<>> \o <<>>) \o <<a3>> = t
    BY JoinOne
  <2>3. Calm(t)
    BY <1>5, CalmOne
  <2>4. Only(t, a3)
    BY Tuple1
  <2>. HIDE DEF t
  <2>5. Removal0(t, d, c, s)
    BY <1>2, <1>4, <1>8, <2>4 DEF Removal0, a3
  <2>6. Reached(t, d)
    BY <2>5 DEF Reached, Point, ServicePoint
  <2>. QED  BY <1>2, <2>1, <2>2, <2>3, <2>6
<1>. QED  BY <1>6, <1>7, <1>8

\* sd_create_sub() and sd_unsubscribe().
LEMMA SubscribeCalm ==
    ASSUME NEW c, NEW b \in Subs, NEW k, NEW t, IsSeq(t),
           Starts(t, Add(k, "subs", b, c)), Starts(Tail(t), Add(Db, "subs", b, c)),
           Starts(Tail(Tail(t)), Dec(b)), NotifyTail(Tail(Tail(Tail(t))), b, 1)
    PROVE  Calm(t)
<1>. DEFINE a1 == Add(k, "subs", b, c)  a2 == Add(Db, "subs", b, c)  a3 == Dec(b)
            a4 == Foreach(Db, "services", 1, "notify_sub_service_added", b)
            t2 == Tail(t)  t3 == Tail(t2)  t4 == Tail(t3)
<1>1. /\ Starts(t, a1) /\ Starts(t2, a2) /\ Starts(t3, a3) /\ Starts(t4, a4)
      /\ Tail(t4) = <<>>
  BY DEF NotifyTail, Only
<1>2. IsSeq(t2) /\ IsSeq(t3) /\ IsSeq(t4)
  BY <1>1, TailSeq DEF Starts
<1>3. 1 \in Nat \ {0} /\ "services" # "clients" /\ "services" \in Maps /\ Db \in Hosts
  BY MapNames
<1>4. Ready(a4) /\ a4.op = "foreach" /\ a4.m = "services"
  BY <1>3, Iterate
<1>5. /\ Ready(a1) /\ Ready(a2) /\ Ready(a3)
      /\ a1.op # "foreach" /\ a2.op # "foreach" /\ a3.op # "foreach"
  BY Harmless DEF Add, Dec
<1>6. /\ \A h, m : Alters(a1, h, m) => m = "subs"
      /\ \A h, m : Alters(a2, h, m) => m = "subs"
      /\ \A h, m : ~Alters(a3, h, m)
  <2>1. b \notin Clients
    BY DistinctConstants
  <2>. QED  BY <2>1 DEF Alters, Add, Dec
<1>7. ~Alters(a1, a4.h, a4.m) /\ ~Alters(a2, a4.h, a4.m) /\ ~Alters(a3, a4.h, a4.m)
  <2>1. "services" # "subs"
    OBVIOUS
  <2>. HIDE DEF a1, a2, a3, a4
  <2>. QED  BY <1>4, <1>6, <2>1
<1>8. t2 = Tail(t) /\ t3 = Tail(t2) /\ t4 = Tail(t3)
  OBVIOUS
<1>. HIDE DEF a1, a2, a3, a4, t2, t3, t4
<1>9. Calm(t4) /\ Spares(a1, t4) /\ Spares(a2, t4) /\ Spares(a3, t4)
  BY <1>1, <1>2, <1>4, <1>7, CalmNone, CalmCons, SparesCons
<1>10. Calm(t3) /\ Spares(a1, t3) /\ Spares(a2, t3)
  BY <1>1, <1>2, <1>5, <1>8, <1>9, CalmCons, SparesCons
<1>11. Calm(t2) /\ Spares(a1, t2)
  BY <1>1, <1>2, <1>5, <1>8, <1>10, CalmCons, SparesCons
<1>. QED  BY <1>1, <1>5, <1>8, <1>11, CalmCons

LEMMA SubscribeCall ==
    ASSUME Good(Data, {}, {}), NEW c \in Clients, NEW b \in Subs, sd_create_sub(c, b)
    PROVE  Calm(todo') /\ Reached(todo', Data')
<1>. DEFINE d == Data  e == Data'  k == active[c]
            a1 == Add(k, "subs", b, c)  a2 == Add(Db, "subs", b, c)  a3 == Dec(b)
            a4 == Foreach(Db, "services", 1, "notify_sub_service_added", b)
            t == <<a1, a2, a3, a4>>
<1>1. /\ Connected(c) /\ ~Contains(map[Db]["subs"], b) /\ Create(b) /\ todo' = t
      /\ UNCHANGED <<map, active, inactive, connected, svc>>
  BY DEF sd_create_sub
<1>2. c \in d.heap /\ k = d.active[c] /\ k \in Conns
  BY <1>1, ConnectedClient
<1>3. e = Created(d, b)
  BY <1>1, CreateData
<1>4. Gone(d, b) /\ b \in Objects /\ Good(d, {}, {})
  <2>1. ~Contains(Data.map[Db]["subs"], b)
    BY <1>1 DEF Data
  <2>. QED  BY <2>1, KnownSub DEF Objects
<1>. HIDE DEF a1, a2, a3, a4, d, e, k
<1>5. /\ IsSeq(t) /\ Starts(t, a1) /\ Starts(Tail(t), a2) /\ Starts(Tail(Tail(t)), a3)
      /\ Only(Tail(Tail(Tail(t))), a4)
  BY Tuple1, Tuple2, Tuple3, Tuple4
<1>. HIDE DEF t
<1>6. NotifyTail(Tail(Tail(Tail(t))), b, 1)
  BY <1>5 DEF NotifyTail, a4
<1>7. Calm(t)
  BY <1>5, <1>6, SubscribeCalm DEF a1, a2, a3
<1>8. /\ Good(e, {}, {b}) /\ Held(e, b, 1, {}) /\ e.heap = d.heap \cup {b}
      /\ e.active = d.active
  BY <1>3, <1>4, CreateGood
<1>9. Subscribe1(t, e, c, b, k)
  BY <1>2, <1>5, <1>6, <1>8 DEF Subscribe1, a1, a2, a3
<1>10. Reached(t, e)
  BY <1>2, <1>9 DEF Reached, Point, SubPoint
<1>. QED  BY <1>1, <1>7, <1>10 DEF e

LEMMA UnsubscribeCall ==
    ASSUME Good(Data, {}, {}), NEW c \in Clients, NEW b \in Subs, sd_unsubscribe(c, b)
    PROVE  Calm(todo') /\ Reached(todo', Data')
<1>. DEFINE d == Data  k == active[c]  N == {}
            a1 == Del(k, "subs", b, c)  a2 == Del(Db, "subs", b, c)  t == <<a1, a2>>
<1>1. /\ Connected(c) /\ Contains(map[k]["subs"], b) /\ todo' = t
      /\ UNCHANGED <<heap, ref_cnt, map, active, inactive, connected, svc>>
  BY DEF sd_unsubscribe, Unsubscribe
<1>2. c \in d.heap /\ k \in Conns
  BY <1>1, ConnectedClient
<1>3. Data' = d /\ Contains(d.map[k]["subs"], b)
  BY <1>1 DEF Data
<1>4. Good(d, {}, N) /\ b \in Subs \ N
  OBVIOUS
<1>5. Ready(a1) /\ Ready(a2) /\ a1.op # "foreach" /\ a2.op # "foreach"
  BY Harmless DEF Del
<1>. HIDE DEF d, k, N, a1, a2
<1>6. <<k, "subs">> \in Places(d.map, b)
  BY <1>2, <1>3, MapNames, PlaceOf
<1>7. k \in d.connected /\ Held(d, b, 2, {<<Db, "subs">>, <<k, "subs">>})
  BY <1>2, <1>4, <1>6, SubOfConn
<1>8. Starts(t, a1) /\ Only(Tail(t), a2)
  BY Tuple1, Tuple2
<1>9. Calm(t)
  BY <1>5, CalmTwo
<1>. HIDE DEF t
<1>10. Unsubscribe1(t, d, c, b, k)
  BY <1>2, <1>4, <1>7, <1>8 DEF Unsubscribe1, a1, a2, N
<1>11. Reached(t, d)
  BY <1>2, <1>10 DEF Reached, Point, SubPoint
<1>. QED  BY <1>1, <1>3, <1>9, <1>11

\* A timer is kept for a service whose owner is known.
LEMMA TimeoutCall ==
    ASSUME Good(Data, {}, {}), NEW s \in Services, orphan_timeout_cb(s)
    PROVE  Calm(todo') /\ Reached(todo', Data')
<1>. DEFINE d == Data  N == {}  c == svc[s].client_id
            a1 == RemoveService(db_get_client(c), s)  t == <<a1>>
<1>1. /\ Contains(map[Db]["timers"], s) /\ todo' = t
      /\ UNCHANGED <<heap, ref_cnt, map, active, inactive, connected, svc>>
  BY DEF orphan_timeout_cb
<1>2. /\ Data' = d /\ Contains(d.map[Db]["timers"], s) /\ c = d.svc[s].client_id
      /\ db_get_client(c) = IF Contains(d.map[Db]["clients"], c) THEN c ELSE Nil
  BY <1>1 DEF Data, db_get_client
<1>3. Good(d, {}, {}) /\ Good(d, {}, N) /\ s \in Services \ N
  OBVIOUS
<1>. HIDE DEF d, N, c
<1>4. <<Db, "timers">> \in Places(d.map, s)
  BY <1>2, MapNames, PlaceOf
<1>5. PICK k \in Conns : ServiceIn(d, {}, s, k)
  BY <1>3, <1>4, ServiceAt
<1>6. s \in d.heap /\ c \in Clients /\ k \in Owned(d, {}, c)
  BY <1>2, <1>5, ServicePlaces DEF ServiceIn
<1>7. Contains(d.map[Db]["clients"], c)
  <2>1. k \in Own(d, c)
    BY <1>6 DEF Owned
  <2>. QED  BY <1>3, <1>6, <2>1, KnownClient
<1>8. a1 = RemoveService(c, s)
  BY <1>2, <1>7
<1>9. Ready(a1) /\ a1.op # "foreach"
  BY <1>6, <1>8, Harmless DEF RemoveService
<1>. HIDE DEF a1
<1>10. Calm(t)
  BY <1>9, CalmOne
<1>11. Only(t, a1)
  BY Tuple1
<1>. HIDE DEF t
<1>12. Removal0(t, d, c, s)
  BY <1>2, <1>3, <1>6, <1>8, <1>11 DEF Removal0
<1>13. Reached(t, d)
  BY <1>6, <1>12 DEF Reached, Point, ServicePoint
<1>. QED  BY <1>1, <1>2, <1>10, <1>13

\* sd_destroy(): the iterations of t are over the database's maps in M.
Below(t, M) == \A j \in DOMAIN t : t[j].op = "foreach" => t[j].h = Db /\ t[j].m \in M

LEMMA BelowCons ==
    ASSUME NEW t, IsSeq(t), NEW a, Starts(t, a), NEW M, NEW N, Below(Tail(t), M), M \subseteq N,
           a.op = "foreach" => a.h = Db /\ a.m \in N
    PROVE  Below(t, N)
<1>1. SUFFICES ASSUME NEW j \in DOMAIN t, t[j].op = "foreach"
               PROVE  t[j].h = Db /\ t[j].m \in N
  BY DEF Below
<1>2. t # <<>> /\ Head(t) = a
  BY DEF Starts
<1>3. CASE j = 1
  BY <1>1, <1>2, <1>3, HeadTail
<1>4. CASE j # 1
  <2>1. j - 1 \in DOMAIN Tail(t) /\ Tail(t)[j - 1] = t[j]
    BY <1>2, <1>4, HeadTail
  <2>. QED  BY <1>1, <2>1 DEF Below
<1>. QED  BY <1>3, <1>4

LEMMA SweepCalm ==
    ASSUME NEW t, IsSeq(t), NEW m \in Maps, NEW M, m \notin M, NEW r, Calm(r), Below(r, M),
           Starts(t, Foreach(Db, m, 1, "dec_ref", Db)), Starts(Tail(t), Clear(Db, m)),
           Tail(Tail(t)) = r
    PROVE  Calm(t) /\ Below(t, M \cup {m})
<1>. DEFINE a1 == Foreach(Db, m, 1, "dec_ref", Db)  a2 == Clear(Db, m)  t2 == Tail(t)
            N == M \cup {m}
<1>1. IsSeq(t2) /\ t2 = Tail(t) /\ Starts(t, a1) /\ Starts(t2, a2) /\ Tail(t2) = r
  BY TailSeq DEF Starts
<1>2. 1 \in Nat \ {0} /\ Db \in Hosts /\ Db \notin Conns
  BY MapNames, DistinctConstants
<1>3. Ready(a1) /\ a1.op = "foreach" /\ a1.h = Db /\ a1.m = m
  BY <1>2, Iterate
<1>4. Ready(a2) /\ a2.op # "foreach"
  BY Harmless DEF Clear
<1>5. /\ \A h2, m2 : Alters(a1, h2, m2) => h2 \in Conns
      /\ \A h2, m2 : Alters(a2, h2, m2) => m2 = m
  BY DEF Alters, Foreach, Clear
<1>6. M \subseteq N /\ m \in N
  OBVIOUS
<1>. HIDE DEF a1, a2, t2, N
<1>7. Spares(a1, r) /\ Spares(a2, r)
  BY <1>2, <1>5 DEF Spares, Below
<1>8. Calm(t2) /\ Spares(a1, t2)
  BY <1>1, <1>4, <1>7, CalmCons, SparesCons
<1>9. Below(t2, M)
  BY <1>1, <1>4, BelowCons
<1>10. Calm(t)
  BY <1>1, <1>3, <1>8, CalmCons
<1>11. Below(t, N)
  BY <1>1, <1>3, <1>6, <1>9, BelowCons
<1>. QED  BY <1>10, <1>11 DEF N

LEMMA DestroyShape ==
    LET t == ClearCounted(Db, "timers") \o ClearCounted(Db, "clients")
               \o ClearCounted(Db, "services") \o ClearCounted(Db, "subs") \o <<Free(Db)>>
    IN  IsSeq(t) /\ Down1(t, 1)
<1>. DEFINE a1 == Foreach(Db, "timers", 1, "dec_ref", Db)  b1 == Clear(Db, "timers")
            a2 == Foreach(Db, "clients", 1, "dec_ref", Db)  b2 == Clear(Db, "clients")
            a3 == Foreach(Db, "services", 1, "dec_ref", Db)  b3 == Clear(Db, "services")
            a4 == Foreach(Db, "subs", 1, "dec_ref", Db)  b4 == Clear(Db, "subs")
            a5 == Free(Db)
            p1 == <<a1, b1>>  p2 == <<a2, b2>>  p3 == <<a3, b3>>  p4 == <<a4, b4>>  u5 == <<a5>>
<1>1. /\ ClearCounted(Db, "timers") = p1 /\ ClearCounted(Db, "clients") = p2
      /\ ClearCounted(Db, "services") = p3 /\ ClearCounted(Db, "subs") = p4
  BY DEF ClearCounted
<1>. HIDE DEF a1, b1, a2, b2, a3, b3, a4, b4, a5
<1>2. IsSeq(p1) /\ IsSeq(p2) /\ IsSeq(p3) /\ IsSeq(p4) /\ IsSeq(u5) /\ Only(u5, a5)
  BY Tuple1, Tuple2
<1>. DEFINE u4 == Prog2(a4, b4, u5)  u3 == Prog2(a3, b3, u4)
            u2 == Prog2(a2, b2, u3)  u1 == Prog2(a1, b1, u2)
<1>3. p4 \o u5 = u4 /\ p3 \o u4 = u3 /\ p2 \o u3 = u2 /\ p1 \o u2 = u1
  BY DEF Prog2
<1>4. /\ u4 = Prog2(a4, b4, u5) /\ u3 = Prog2(a3, b3, u4)
      /\ u2 = Prog2(a2, b2, u3) /\ u1 = Prog2(a1, b1, u2)
  OBVIOUS
<1>. HIDE DEF p1, p2, p3, p4, u1, u2, u3, u4, u5
<1>5. IsSeq(u4) /\ IsSeq(u3) /\ IsSeq(u2) /\ IsSeq(u1)
  BY <1>2, <1>4, Push2
<1>6. (((p1 \o p2) \o p3) \o p4) \o u5 = u1
  <2>. DEFINE q2 == p1 \o p2  q3 == q2 \o p3
  <2>1. IsSeq(q2) /\ q2 \o u3 = u1
    <3>1. (p1 \o p2) \o u3 = p1 \o (p2 \o u3) /\ IsSeq(p1 \o p2)
      BY <1>2, <1>5, Assoc
    <3>. QED  BY <1>3, <3>1, Zenon
  <2>. HIDE DEF q2
  <2>2. IsSeq(q3) /\ q3 \o u4 = u1
    <3>1. (q2 \o p3) \o u4 = q2 \o (p3 \o u4) /\ IsSeq(q2 \o p3)
      BY <1>2, <1>5, <2>1, Assoc
    <3>. QED  BY <1>3, <2>1, <3>1, Zenon
  <2>. HIDE DEF q3
  <2>3. (q3 \o p4) \o u5 = q3 \o (p4 \o u5)
    BY <1>2, <2>2, Assoc
  <2>4. (q3 \o p4) \o u5 = u1
    BY <1>3, <2>2, <2>3, Zenon
  <2>. QED  BY <2>4 DEF q2, q3
<1>7. /\ Starts(u4, a4) /\ Starts(Tail(u4), b4) /\ Tail(Tail(u4)) = u5
      /\ Starts(u3, a3) /\ Starts(Tail(u3), b3) /\ Tail(Tail(u3)) = u4
      /\ Starts(u2, a2) /\ Starts(Tail(u2), b2) /\ Tail(Tail(u2)) = u3
      /\ Starts(u1, a1) /\ Starts(Tail(u1), b1) /\ Tail(Tail(u1)) = u2
  <2>1. /\ Starts(u4, a4) /\ Tail(u4) = Prog1(b4, u5)
        /\ Starts(u3, a3) /\ Tail(u3) = Prog1(b3, u4)
        /\ Starts(u2, a2) /\ Tail(u2) = Prog1(b2, u3)
        /\ Starts(u1, a1) /\ Tail(u1) = Prog1(b1, u2)
    BY <1>2, <1>4, <1>5, Push2
  <2>2. /\ Starts(Prog1(b4, u5), b4) /\ Tail(Prog1(b4, u5)) = u5
        /\ Starts(Prog1(b3, u4), b3) /\ Tail(Prog1(b3, u4)) = u4
    BY <1>2, <1>5, Push1
  <2>3. /\ Starts(Prog1(b2, u3), b2) /\ Tail(Prog1(b2, u3)) = u3
        /\ Starts(Prog1(b1, u2), b1) /\ Tail(Prog1(b1, u2)) = u2
    BY <1>5, Push1
  <2>. QED  BY <2>1, <2>2, <2>3
<1>8. Down4(u4, 1)
  BY <1>2, <1>7 DEF Down4, Down4c, Down5, a4, b4, a5
<1>9. Down3(u3, 1)
  BY <1>7, <1>8 DEF Down3, Down3c, a3, b3
<1>10. Down2(u2, 1)
  BY <1>7, <1>9 DEF Down2, Down2c, a2, b2
<1>11. Down1(u1, 1)
  BY <1>7, <1>10 DEF Down1, Down1c, a1, b1
<1>12. u5 = <<Free(Db)>>
  BY DEF u5, a5
<1>. QED  BY <1>1, <1>5, <1>6, <1>11, <1>12

LEMMA DestroyCalm ==
    ASSUME NEW t, IsSeq(t), Down1(t, 1)
    PROVE  Calm(t)
<1>. DEFINE t2 == Tail(Tail(t))  t3 == Tail(Tail(t2))  t4 == Tail(Tail(t3))  t5 == Tail(Tail(t4))
            a == Free(Db)
<1>1. Down1(t, 1) /\ Down2(t2, 1) /\ Down3(t3, 1) /\ Down4(t4, 1) /\ Down5(t5)
  BY DEF Down1, Down1c, Down2, Down2c, Down3, Down3c, Down4, Down4c
<1>. DEFINE S(u, m) == /\ Starts(u, Foreach(Db, m, 1, "dec_ref", Db))
                       /\ Starts(Tail(u), Clear(Db, m))
<1>2. S(t, "timers") /\ S(t2, "clients") /\ S(t3, "services") /\ S(t4, "subs") /\ Only(t5, a)
  BY <1>1 DEF Down1, Down1c, Down2, Down2c, Down3, Down3c, Down4, Down4c, Down5
<1>3. \A u : IsSeq(u) /\ u # <<>> /\ Tail(u) # <<>> => IsSeq(Tail(Tail(u)))
  BY TailSeq
<1>4. \A u, m : S(u, m) => u # <<>> /\ Tail(u) # <<>>
  BY DEF Starts
<1>5. IsSeq(t2) /\ IsSeq(t3) /\ IsSeq(t4) /\ IsSeq(t5)
  <2>. HIDE DEF S
  <2>. QED  BY <1>2, <1>3, <1>4
<1>6. t2 = Tail(Tail(t)) /\ t3 = Tail(Tail(t2)) /\ t4 = Tail(Tail(t3)) /\ t5 = Tail(Tail(t4))
  OBVIOUS
<1>7. Ready(a) /\ a.op # "foreach"
  BY Harmless DEF Free
<1>. DEFINE M5 == {}  M4 == M5 \cup {"subs"}  M3 == M4 \cup {"services"}  M2 == M3 \cup {"clients"}
<1>8. "subs" \notin M5 /\ "services" \notin M4 /\ "clients" \notin M3 /\ "timers" \notin M2
  OBVIOUS
<1>9. M4 = M5 \cup {"subs"} /\ M3 = M4 \cup {"services"} /\ M2 = M3 \cup {"clients"}
  OBVIOUS
<1>. HIDE DEF t2, t3, t4, t5, a, M5, M4, M3, M2
<1>10. Calm(t5) /\ Below(t5, M5)
  <2>1. Starts(t5, a) /\ Tail(t5) = <<>>
    BY <1>2 DEF Only
  <2>2. DOMAIN <<>> = {}
    OBVIOUS
  <2>3. Calm(Tail(t5)) /\ Spares(a, Tail(t5)) /\ Below(Tail(t5), M5)
    BY <2>1, <2>2, CalmNone DEF Below
  <2>. QED  BY <1>5, <1>7, <2>1, <2>3, CalmCons, BelowCons
<1>11. Calm(t4) /\ Below(t4, M4)
  BY <1>2, <1>5, <1>6, <1>8, <1>9, <1>10, MapNames, SweepCalm
<1>12. Calm(t3) /\ Below(t3, M3)
  BY <1>2, <1>5, <1>6, <1>8, <1>9, <1>11, MapNames, SweepCalm
<1>13. Calm(t2) /\ Below(t2, M2)
  BY <1>2, <1>5, <1>6, <1>8, <1>9, <1>12, MapNames, SweepCalm
<1>. QED  BY <1>2, <1>6, <1>8, <1>13, MapNames, SweepCalm

LEMMA DestroyCall ==
    ASSUME Good(Data, {}, {}), sd_destroy
    PROVE  Calm(todo') /\ Reached(todo', Data')
<1>. DEFINE d == Data  t == todo'
<1>1. IsSeq(t) /\ Down1(t, 1)
  BY DestroyShape DEF sd_destroy
<1>2. Data' = d
  BY DEF sd_destroy, Data
<1>3. Falling(d, {}, {}) /\ TypeOK(d)
  BY GoodTorn, GoodType
<1>. HIDE DEF d, t
<1>4. Swept(d, Db, "timers", 1) = d
  BY <1>3, MapNames, SweptFirst
<1>5. Timers1(t, d, 1) /\ 1 \in Nat \ {0}
  BY <1>1, <1>3, <1>4 DEF Timers1
<1>6. Reached(t, d)
  BY <1>5 DEF Reached, Point, DownPoint
<1>7. Calm(t)
  BY <1>1, DestroyCalm
<1>. QED  BY <1>2, <1>6, <1>7 DEF t

-----------------------------------------------------------------------------
(* The invariant is inductive.                                              *)

\* At every point but the two between calls there is a statement to run.
Pending(t) == \E a : Starts(t, a)

LEMMA ClientPending == ASSUME NEW t, NEW d, ClientPoint(t, d) PROVE Pending(t)
<1>1. PICK c \in Clients :
         \/ Connect1(t, d, c) \/ Connect2(t, d, c) \/ Reconnect(t, d, c)
         \/ Leave1(t, d, {}, c) \/ Leave2(t, d, c) \/ Leave3(t, d, c) \/ Destroy2(t, d, c)
         \/ \E i \in Nat \ {0} : Destroy1(t, d, c, i, {})
         \/ \E k \in Conns :
               \/ Subs4(t, d, c, k) \/ Keep(t, d, c, k)
               \/ Conn1(t, d, c, k) \/ Conn2(t, d, c, k) \/ Conn3(t, d, c, k)
               \/ Conn4(t, d, c, k) \/ Conn5(t, d, c, k)
               \/ \E i \in Nat \ {0} :
                     \/ Subs1(t, d, c, k, i) \/ Subs2(t, d, c, k, i) \/ Subs3(t, d, c, k, i)
                     \/ Orphan1(t, d, c, k, i) \/ Orphan2(t, d, c, k, i)
  BY DEF ClientPoint
<1>2. CASE \/ Connect1(t, d, c) \/ Connect2(t, d, c) \/ Reconnect(t, d, c)
           \/ Leave1(t, d, {}, c) \/ Leave2(t, d, c) \/ Leave3(t, d, c) \/ Destroy2(t, d, c)
  BY <1>2 DEF Connect1, Connect2, Reconnect, Leave1, Leave2, Leave3, Destroy2, Only, Pending
<1>3. ASSUME NEW i \in Nat \ {0}, Destroy1(t, d, c, i, {}) PROVE Pending(t)
  BY <1>3 DEF Destroy1, Pending
<1>4. ASSUME NEW k \in Conns,
             \/ Conn1(t, d, c, k) \/ Conn2(t, d, c, k) \/ Conn3(t, d, c, k)
             \/ Conn4(t, d, c, k) \/ Conn5(t, d, c, k)
      PROVE  Pending(t)
  BY <1>4 DEF Conn1, Conn2, Conn3, Conn4, Conn5, Pending
<1>5. ASSUME NEW k \in Conns, NEW i, Subs1(t, d, c, k, i) \/ Subs2(t, d, c, k, i)
      PROVE  Pending(t)
  BY <1>5 DEF Subs1, Subs2, SubsTail, Pending
<1>6. ASSUME NEW k \in Conns, NEW i,
             Subs3(t, d, c, k, i) \/ Subs4(t, d, c, k) \/ Keep(t, d, c, k)
      PROVE  Pending(t)
  BY <1>6 DEF Subs3, Subs4, SweepTail, ClearTail, Keep, KeepTail, Pending
<1>7. ASSUME NEW k \in Conns, NEW i, Orphan1(t, d, c, k, i) \/ Orphan2(t, d, c, k, i)
      PROVE  Pending(t)
  BY <1>7 DEF Orphan1, Orphan2, ServicesTail, Pending
<1>. QED  BY <1>1, <1>2, <1>3, <1>4, <1>5, <1>6, <1>7

LEMMA ServicePending == ASSUME NEW t, NEW d, ServicePoint(t, d) PROVE Pending(t)
<1>1. PICK c \in Clients, s \in Services :
         \/ Capture1(t, d, c, s) \/ Capture3(t, d, c, s)
         \/ Removal0(t, d, c, s) \/ Removal5(t, d, {}, c, s) \/ Removal6(t, d, c, s)
         \/ Removal7(t, d, c, s) \/ Removal8(t, d, c, s) \/ Removal10(t, d, c, s)
         \/ \E k \in Conns :
               \/ Publish1(t, d, c, s, k) \/ Publish3(t, d, c, s, k) \/ Publish4(t, d, c, s, k)
               \/ Capture2(t, d, c, s, k) \/ Commit1(t, d, c, s, k)
               \/ Removal1(t, d, c, s, k) \/ Removal2(t, d, c, s, k)
               \/ Removal3(t, d, c, s, k) \/ Removal4(t, d, c, s, k)
  BY DEF ServicePoint
<1>2. CASE Capture1(t, d, c, s) \/ Capture3(t, d, c, s)
  BY <1>2 DEF Capture1, Capture3, CaptureTail, Pending
<1>3. CASE \/ Removal0(t, d, c, s) \/ Removal5(t, d, {}, c, s) \/ Removal6(t, d, c, s)
           \/ Removal7(t, d, c, s) \/ Removal8(t, d, c, s) \/ Removal10(t, d, c, s)
  BY <1>3 DEF Removal0, Removal5, Removal6, Removal7, Removal8, Removal10, Only,
              Remove5, Remove6, Remove7, Remove8, Pending
<1>4. ASSUME NEW k \in Conns,
             \/ Publish1(t, d, c, s, k) \/ Publish3(t, d, c, s, k) \/ Publish4(t, d, c, s, k)
             \/ Capture2(t, d, c, s, k) \/ Commit1(t, d, c, s, k)
      PROVE  Pending(t)
  BY <1>4 DEF Publish1, Publish3, Publish4, NewTail, Capture2, Commit1, CommitTail, Pending
<1>5. ASSUME NEW k \in Conns,
             \/ Removal1(t, d, c, s, k) \/ Removal2(t, d, c, s, k)
             \/ Removal3(t, d, c, s, k) \/ Removal4(t, d, c, s, k)
      PROVE  Pending(t)
  BY <1>5 DEF Removal1, Removal2, Removal3, Removal4, Remove1, Remove2, Remove3, Remove4, Pending
<1>. QED  BY <1>1, <1>2, <1>3, <1>4, <1>5

LEMMA SubPending == ASSUME NEW t, NEW d, SubPoint(t, d) PROVE Pending(t)
BY DEF SubPoint, Subscribe1, Subscribe2, Subscribe3, Subscribe4, Unsubscribe1, Unsubscribe2,
       NotifyTail, Only, Pending

LEMMA RazePending == ASSUME NEW t, NEW d, RazePoint(t, d) PROVE Pending(t)
<1>1. PICK c \in Clients, i \in Nat \ {0} :
         \/ Raze1(t, d, c, i) \/ Raze8(t, d, c, i)
         \/ \E j \in Nat \ {0} :
               \/ Raze2(t, d, c, i, j)
               \/ \E k \in Conns :
                     \/ Raze4(t, d, c, i, j, k) \/ Raze6(t, d, c, i, j, k)
                     \/ Raze7(t, d, c, i, j, k)
                     \/ \E n \in Nat \ {0} :
                           Raze3(t, d, c, i, j, k, n) \/ Raze5(t, d, c, i, j, k, n)
  BY DEF RazePoint
<1>2. CASE Raze1(t, d, c, i) \/ Raze8(t, d, c, i)
  BY <1>2 DEF Raze1, Raze8, Raze8Tail, Pending
<1>3. ASSUME NEW j, Raze2(t, d, c, i, j) PROVE Pending(t)
  BY <1>3 DEF Raze2, Raze2Tail, Pending
<1>4. ASSUME NEW j, NEW k,
             Raze4(t, d, c, i, j, k) \/ Raze6(t, d, c, i, j, k) \/ Raze7(t, d, c, i, j, k)
      PROVE  Pending(t)
  BY <1>4 DEF Raze4, Raze6, Raze7, Raze4Tail, Raze6Tail, Raze7Tail, Pending
<1>5. ASSUME NEW j, NEW k, NEW n, Raze3(t, d, c, i, j, k, n) \/ Raze5(t, d, c, i, j, k, n)
      PROVE  Pending(t)
  BY <1>5 DEF Raze3, Raze5, Raze3Tail, Raze5Tail, Pending
<1>. QED  BY <1>1, <1>2, <1>3, <1>4, <1>5

LEMMA DownPending == ASSUME NEW t, NEW d, DownPoint(t, d) PROVE Pending(t)
<1>1. CASE \/ Timers2(t, d) \/ Clients2(t, d) \/ Services2(t, d) \/ Subscriptions2(t, d)
           \/ Database(t, d)
  BY <1>1 DEF Timers2, Clients2, Services2, Subscriptions2, Database,
              Down1c, Down2c, Down3c, Down4c, Down5, Only, Pending
<1>2. ASSUME NEW i, \/ Timers1(t, d, i) \/ Clients1(t, d, i) \/ Services1(t, d, i)
                    \/ Subscriptions1(t, d, i)
      PROVE  Pending(t)
  BY <1>2 DEF Timers1, Clients1, Services1, Subscriptions1, Down1, Down2, Down3, Down4, Pending
<1>. QED  BY <1>1, <1>2 DEF DownPoint

LEMMA ToldPending == ASSUME NEW t, NEW d, NEW s, Told(t, d, s) PROVE Pending(t)
<1>1. PICK c \in Clients :
         \/ \E k \in Conns, i \in Nat : Orphan3(t, d, c, k, i, s)
         \/ \E k \in Conns : Publish2(t, d, c, s, k) \/ Commit2(t, d, c, s, k)
         \/ Removal9(t, d, c, s)
  BY DEF Told
<1>2. \A k, i : Orphan3(t, d, c, k, i, s) => Pending(t)
  BY DEF Orphan3, Pending
<1>3. \A k : Publish2(t, d, c, s, k) \/ Commit2(t, d, c, s, k) => Pending(t)
  BY DEF Publish2, Commit2, Pending
<1>4. Removal9(t, d, c, s) => Pending(t)
  BY DEF Removal9, Pending
<1>. QED  BY <1>1, <1>2, <1>3, <1>4

LEMMA BetweenCalls ==
    ASSUME NEW d, Reached(<<>>, d)
    PROVE  Idle(<<>>, d) \/ Ended(<<>>, d)
<1>. DEFINE t == <<>>
<1>1. ~Pending(t)
  BY DEF Pending, Starts
<1>2. ~Telling(t, d) /\ ~Dropping(t, d) /\ ~Freeing(t, d)
  <2>1. \A a : ~Starts(t, a)
    BY <1>1 DEF Pending
  <2>. HIDE DEF t
  <2>. QED  BY <2>1 DEF Telling, ToldFrom, Dropping, Freeing
<1>3. Reached(t, d)
  OBVIOUS
<1>. HIDE DEF t
<1>4. ~ClientPoint(t, d) /\ ~ServicePoint(t, d) /\ ~SubPoint(t, d)
  BY <1>1, ClientPending, ServicePending, SubPending
<1>5. ~RazePoint(t, d) /\ ~DownPoint(t, d) /\ \A s \in Services : ~Told(t, d, s)
  BY <1>1, RazePending, DownPending, ToldPending
<1>6. Idle(t, d) \/ Ended(t, d)
  BY <1>2, <1>3, <1>4, <1>5 DEF Reached, Point
<1>. QED  BY <1>6 DEF t

\* The inductive invariant.
IInv == Calm(todo) /\ Reached(todo, Data)

LEMMA InitGood == ASSUME Init PROVE Good(Data, {}, {})
<1>. DEFINE d == Data
<1>1. /\ d.heap = {Db} /\ d.ref = [o \in Objects |-> 0]
      /\ d.map = [h \in Hosts |-> [m \in Maps |-> <<>>]]
      /\ d.active = [c \in Clients |-> Nil] /\ d.inactive = [c \in Clients |-> <<>>]
      /\ d.connected = {}
      /\ d.svc = [s \in Services |-> [client_id |-> Nil, orphan |-> FALSE, was_orphan |-> FALSE]]
      /\ IsData(d)
  BY DEF Init, Data, Hosts, IsData
<1>. HIDE DEF d
<1>2. Db \in Hosts /\ Nil \notin Conns
  BY MapNames, DistinctConstants
<1>3. MapsOK(d.map)
  <2>1. \A S : <<>> \in Seq(S)
    OBVIOUS
  <2>2. Injective(<<>>)
    BY DEF Injective
  <2>. QED  BY <1>1, <2>1, <2>2 DEF MapsOK
<1>4. \A c \in Clients : Own(d, c) = {} /\ Injective(d.inactive[c]) /\ ToSet(d.inactive[c]) = {}
  <2>1. Injective(<<>>) /\ ToSet(<<>>) = {}
    BY DEF Injective, ToSet
  <2>. QED  BY <1>1, <2>1 DEF Own
<1>5. TypeOK(d)
  <2>1. \A s \in Services : d.svc[s] \in SvcType
    BY <1>1 DEF SvcType
  <2>2. d.svc \in [Services -> SvcType]
    BY <1>1, <2>1
  <2>3. d.inactive \in [Clients -> Seq(Conns)]
    BY <1>1
  <2>4. d.heap \subseteq Objects \cup Hosts /\ d.connected \subseteq Conns
    BY <1>1, <1>2
  <2>5. d.ref \in [Objects -> Int]
    BY <1>1
  <2>6. d.active \in [Clients -> Conns \cup {Nil}]
    BY <1>1
  <2>7. \A c \in Clients : Injective(d.inactive[c]) /\ d.active[c] \notin ToSet(d.inactive[c])
    BY <1>4
  <2>8. IsData(d)
    BY <1>1
  <2>. QED  BY <1>3, <2>2, <2>3, <2>4, <2>5, <2>6, <2>7, <2>8 DEF TypeOK
<1>6. \A c \in Clients : Owned(d, {}, c) = {}
  BY <1>4 DEF Owned
<1>7. Structure(d, {}) /\ Linked(d)
  <2>1. Conns \cap d.heap = {}
    BY <1>1, DistinctConstants
  <2>2. \A c \in Clients : d.active[c] = Nil
    BY <1>1
  <2>3. Linked(d)
    BY <1>1, <2>2 DEF Linked
  <2>. QED  BY <1>1, <1>5, <1>6, <2>1, <2>3 DEF Structure
<1>8. \A o \in Objects : Gone(d, o)
  <2>1. \A o : Places(d.map, o) = {}
    <3>1. \A o : ~Contains(<<>>, o)
      BY DEF Contains
    <3>2. \A x \in Hosts \X Maps : d.map[x[1]][x[2]] = <<>>
      BY <1>1
    <3>. QED  BY <3>1, <3>2 DEF Places
  <2>2. Db \notin Objects
    BY DistinctConstants
  <2>. QED  BY <1>1, <2>1, <2>2 DEF Gone
<1>9. /\ \A c \in Clients : ClientOK(d, {}, c)
      /\ \A s \in Services : ServiceOK(d, {}, s)
      /\ \A b \in Subs : SubOK(d, b)
  BY <1>6, <1>8 DEF ClientOK, ServiceOK, SubOK, Objects
<1>10. Good(d, {}, {})
  BY <1>7, <1>9 DEF Good
<1>. QED  BY <1>10 DEF d

LEMMA InitIInv == Init => IInv
<1>. SUFFICES ASSUME Init PROVE IInv
  OBVIOUS
<1>1. todo = <<>>
  BY DEF Init
<1>2. Reached(todo, Data)
  BY <1>1, InitGood, IdleReached
<1>. QED  BY <1>1, <1>2, CalmNone DEF IInv

\* A call is made with the data as it is between calls.
LEMMA CallGood ==
    ASSUME Reached(todo, Data), Call
    PROVE  Good(Data, {}, {})
<1>1. todo = <<>> /\ Db \in Data.heap
  BY DEF Call, Data
<1>2. Idle(<<>>, Data) \/ Ended(<<>>, Data)
  BY <1>1, BetweenCalls
<1>. QED  BY <1>1, <1>2 DEF Idle, Ended

LEMMA NextIInv == IInv /\ [Next]_vars => IInv'
<1>. SUFFICES ASSUME IInv, [Next]_vars PROVE IInv'
  OBVIOUS
<1>. DEFINE Holds == Calm(todo') /\ Reached(todo', Data')
<1>1. SUFFICES Holds
  BY DEF IInv
<1>2. Calm(todo) /\ Reached(todo, Data) /\ IsSeq(todo)
  BY DEF IInv, Calm
<1>3. CASE UNCHANGED vars
  <2>1. Data' = Data /\ todo' = todo
    BY <1>3 DEF vars, Data
  <2>. QED  BY <1>2, <2>1
<1>4. CASE Next /\ todo # <<>>
  <2>1. Reached(todo', Data')
    BY <1>2, <1>4, StepTaken, PointStep
  <2>. QED  BY <1>2, <1>4, <2>1, StatementCalm
<1>5. CASE Next /\ todo = <<>>
  <2>1. ~Statement
    BY <1>5 DEF Statement, At, inc_ref, dec_ref, ut_free, pmap_add_cnted, pmap_del_cnted,
                pmap_clear, plist_foreach, sub_notify, service_commit, maintain_orphans,
                capture_service, remove_service, conn_create, keep_conn, drop_conn,
                destroy_conns, drop_client
  <2>2. ASSUME NEW c \in Clients, sd_client_connect(c) \/ sd_client_disconnect(c) PROVE Holds
    <3>1. Good(Data, {}, {})
      BY <1>2, <2>2, CallGood DEF sd_client_connect, sd_client_disconnect
    <3>. QED  BY <2>2, <3>1, ConnectCall, DisconnectCall
  <2>3. ASSUME NEW c \in Clients, NEW s \in Services, sd_publish(c, s) \/ sd_unpublish(c, s)
        PROVE  Holds
    <3>1. Good(Data, {}, {})
      BY <1>2, <2>3, CallGood DEF sd_publish, sd_unpublish
    <3>. QED  BY <2>3, <3>1, PublishCall, UnpublishCall
  <2>4. ASSUME NEW c \in Clients, NEW b \in Subs, sd_create_sub(c, b) \/ sd_unsubscribe(c, b)
        PROVE  Holds
    <3>1. Good(Data, {}, {})
      BY <1>2, <2>4, CallGood DEF sd_create_sub, sd_unsubscribe
    <3>. QED  BY <2>4, <3>1, SubscribeCall, UnsubscribeCall
  <2>5. ASSUME NEW s \in Services, orphan_timeout_cb(s) PROVE Holds
    <3>1. Good(Data, {}, {})
      BY <1>2, <2>5, CallGood DEF orphan_timeout_cb
    <3>. QED  BY <2>5, <3>1, TimeoutCall
  <2>6. CASE sd_destroy
    <3>1. Good(Data, {}, {})
      BY <1>2, <2>6, CallGood DEF sd_destroy
    <3>. QED  BY <2>6, <3>1, DestroyCall
  <2>. QED  BY <1>5, <2>1, <2>2, <2>3, <2>4, <2>5, <2>6 DEF Next
<1>. QED  BY <1>3, <1>4, <1>5

\* The program points are an inductive invariant: whatever calls the event
\* loop makes, and whichever statement they are at, todo and the data are at
\* one of them.
THEOREM PointsInvariant == Spec => []IInv
BY InitIInv, NextIInv, PTL DEF Spec

\* No statement of any call touches a freed object, connection or database,
\* or NULL: the references that the functions take, the maps and the timers
\* keep everything they work on allocated to the end, in remove_service() and
\* its callbacks as well as in sd_destroy().
THEOREM NeverUsesFreed == Spec => []NoUseAfterFree
<1>1. IInv => NoUseAfterFree
  <2>1. SUFFICES ASSUME IInv, todo # <<>> PROVE {this.o} \cup this.uses \subseteq heap
    BY DEF NoUseAfterFree
  <2>2. Safe(todo, Data)
    BY <2>1, ReachedSafe DEF IInv, Calm
  <2>. QED  BY <2>1, <2>2 DEF Safe, Alive, Data, this
<1>. QED  BY <1>1, PointsInvariant, PTL

\* The asserts of object_inc_ref() and object_dec_ref(), of the maps and of
\* the orphan timers never fail.
THEOREM AssertsNeverFail == Spec => []AssertsHold
<1>1. IInv => AssertsHold
  <2>1. SUFFICES ASSUME IInv, todo # <<>> PROVE AssertsHold
    BY DEF AssertsHold, At
  <2>2. Safe(todo, Data)
    BY <2>1, ReachedSafe DEF IInv, Calm
  <2>3. Asserted(this, Data)
    BY <2>1, <2>2 DEF Safe, this
  <2>4. Data.ref = ref_cnt /\ Data.map = map /\ Data.svc = svc
    BY DEF Data
  <2>. QED  BY <2>3, <2>4 DEF Asserted, AssertsHold, At, this
<1>. QED  BY <1>1, PointsInvariant, PTL

\* The heap between two calls, before sd_destroy().
LEMMA IdleLeaks == ASSUME Good(Data, {}, {}), todo = <<>> PROVE NothingLeaks
<1>. DEFINE d == Data
<1>1. Structure(d, {}) /\ \A o \in Objects : Counted(d, {}, o)
  BY GoodTorn DEF Falling, Torn
<1>2. /\ d.heap = heap /\ d.ref = ref_cnt /\ d.map = map /\ d.active = active
      /\ d.inactive = inactive
  BY DEF Data
<1>. HIDE DEF d
<1>3. TypeOK(d)
  BY <1>1 DEF Structure
<1>4. ASSUME NEW o \in Objects
      PROVE  /\ Holders(o) = Places(d.map, o) /\ ref_cnt[o] = Cardinality(Holders(o))
             /\ o \in heap <=> ref_cnt[o] > 0
  <2>. DEFINE P == Places(d.map, o)
  <2>1. /\ IsFiniteSet(P) /\ d.ref[o] = Cardinality(P) /\ (o \in d.heap <=> P # {})
        /\ \A x \in P : x[1] \in d.heap
    BY <1>1 DEF Counted
  <2>2. Holders(o) = P
    BY <1>2, <2>1 DEF Holders, Places, Hosts
  <2>. HIDE DEF P
  <2>3. Cardinality(P) \in Nat /\ (Cardinality(P) = 0 <=> P = {})
    BY <2>1, FS_CardinalityType, FS_EmptySet
  <2>. QED  BY <1>2, <2>1, <2>2, <2>3 DEF P
<1>5. ASSUME NEW c \in Clients
      PROVE  ToSet(client_conns(c)) = Own(d, c) /\ Own(d, c) = Owned(d, {}, c)
  <2>1. client_conns(c) = ConnsOf(d, c)
    BY <1>2 DEF client_conns, ConnsOf
  <2>2. ToSet(ConnsOf(d, c)) = Own(d, c)
    BY <1>3, ConnsList
  <2>3. Own(d, c) = Owned(d, {}, c)
    BY DEF Owned
  <2>. QED  BY <2>1, <2>2, <2>3
<1>6. ASSUME NEW x \in heap
      PROVE  \/ x \in Objects /\ ref_cnt[x] > 0
             \/ \E c \in heap \cap Clients : x \in ToSet(client_conns(c))
             \/ x = Db
  <2>1. x \in Objects \/ x \in Conns \/ x = Db
    BY <1>2, <1>3 DEF TypeOK, Hosts
  <2>2. CASE x \in Conns
    <3>1. PICK c \in Clients : x \in Owned(d, {}, c)
      BY <1>1, <1>2, <2>2 DEF Structure
    <3>2. c \in Objects /\ Counted(d, {}, c)
      BY <1>1 DEF Objects
    <3>3. c \in heap
      BY <1>2, <3>1, <3>2 DEF Counted
    <3>. QED  BY <1>5, <3>1, <3>3
  <2>. QED  BY <1>4, <2>1, <2>2
<1>7. \A c \in Clients : ToSet(client_conns(c)) \subseteq heap
  BY <1>1, <1>2, <1>5 DEF Structure
<1>. DEFINE O == {o \in Objects : ref_cnt[o] > 0}
            K == UNION {ToSet(client_conns(c)) : c \in heap \cap Clients}
<1>8. heap = O \cup K \cup (heap \cap {Db})
  <2>1. O \subseteq heap
    BY <1>4
  <2>2. K \subseteq heap
    BY <1>7
  <2>3. \A x \in heap : x \in O \cup K \cup (heap \cap {Db})
    BY <1>6
  <2>. HIDE DEF O, K
  <2>. QED  BY <2>1, <2>2, <2>3
<1>9. \A o \in Objects : ref_cnt[o] = Cardinality(Holders(o))
  BY <1>4
<1>. QED  BY <1>8, <1>9 DEF NothingLeaks

\* Between calls every client, service and subscription has exactly one
\* reference for each map and orphan timer that has it, and nothing else is
\* allocated but their connections and the database; after sd_destroy() not
\* even that.
THEOREM NeverLeaks == Spec => []NothingLeaks
<1>1. IInv => NothingLeaks
  <2>1. SUFFICES ASSUME IInv, todo = <<>> PROVE NothingLeaks
    BY DEF NothingLeaks
  <2>2. Idle(<<>>, Data) \/ Ended(<<>>, Data)
    BY <2>1, BetweenCalls DEF IInv
  <2>3. CASE Ended(<<>>, Data)
    <3>1. heap = {} /\ \A o \in Objects : ref_cnt[o] = 0
      BY <2>3 DEF Ended, Data
    <3>2. \A o \in Objects : Holders(o) = {}
      BY <3>1 DEF Holders
    <3>3. \A o \in Objects : ref_cnt[o] = Cardinality(Holders(o))
      BY <3>1, <3>2, FS_EmptySet
    <3>4. \A o \in Objects : ~(ref_cnt[o] > 0)
      BY <3>1
    <3>. QED  BY <3>1, <3>3, <3>4 DEF NothingLeaks
  <2>4. CASE Idle(<<>>, Data)
    BY <2>1, <2>4, IdleLeaks DEF Idle
  <2>. QED  BY <2>2, <2>3, <2>4
<1>. QED  BY <1>1, PointsInvariant, PTL

\* While plist_foreach() goes through a list, no callback, nor anything that a
\* callback calls, adds to that list or deletes from it.
THEOREM IterationsStable == Spec => IterationStable
<1>. DEFINE A == \A j \in DOMAIN todo : j > 1 /\ todo[j].op = "foreach" =>
                    map'[todo[j].h][todo[j].m] = map[todo[j].h][todo[j].m]
<1>1. IInv /\ [Next]_vars => [A]_vars
  <2>1. SUFFICES ASSUME IInv, Next, NEW j \in DOMAIN todo, j > 1, todo[j].op = "foreach"
                 PROVE  map'[todo[j].h][todo[j].m] = map[todo[j].h][todo[j].m]
    OBVIOUS
  <2>2. todo # <<>>
    <3>1. DOMAIN <<>> = {}
      OBVIOUS
    <3>. QED  BY <2>1, <3>1
  <2>3. TypeOK(Data) /\ Calm(todo)
    BY <2>1, <2>2, ReachedType DEF IInv
  <2>. QED  BY <2>1, <2>3, StatementStable
<1>. QED  BY <1>1, PointsInvariant, PTL DEF Spec, IterationStable
=============================================================================
