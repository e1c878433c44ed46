--------------------------- MODULE Pqueue_proofs ---------------------------
(***************************************************************************)
(* The ring buffer of util/pqueue.c is a FIFO queue, for every length and  *)
(* every spare capacity.  The inductive invariant says that the oldest     *)
(* element is inside the buffer and that everything from there on, around  *)
(* the end, for len places, has been written.                              *)
(***************************************************************************)
EXTENDS Pqueue, TLAPS

QInv ==
    /\ TypeOK
    /\ capacity = 0 => start_idx = 0
    /\ capacity > 0 => start_idx < capacity
    /\ \A i \in 0..len - 1 : elems[Idx(i)] \in Elems
    /\ SpareCapacityBounded

-----------------------------------------------------------------------------
(* Index arithmetic: an index at most one buffer length past a valid one   *)
(* wraps around once.                                                      *)

Wrap(s, i, c) == (s + i) % c

\* The modulo of pqueue.c's index computations, without the division.
LEMMA WrapOnce ==
    ASSUME NEW c \in Nat, NEW s \in Nat, NEW i \in Nat, s < c, i <= c
    PROVE  Wrap(s, i, c) = IF s + i < c THEN s + i ELSE s + i - c
  <1>1. CASE s + i < c
    BY <1>1, SMT DEF Wrap
  <1>2. CASE s + i >= c
    BY <1>2, SMT DEF Wrap
  <1> QED BY <1>1, <1>2

\* It stays inside the buffer.
LEMMA WrapInside ==
    ASSUME NEW c \in Nat, NEW s \in Nat, NEW i \in Nat, s < c, i <= c
    PROVE  Wrap(s, i, c) \in 0..c - 1
  BY WrapOnce, SMT

\* Two different places of the ring are different places of the buffer.
LEMMA WrapInjective ==
    ASSUME NEW c \in Nat, NEW s \in Nat, NEW i \in Nat, NEW j \in Nat,
           s < c, i < c, j < c, Wrap(s, i, c) = Wrap(s, j, c)
    PROVE  i = j
  BY WrapOnce, SMT

\* The place after the oldest element, and what is i places behind it.
LEMMA WrapNext ==
    ASSUME NEW c \in Nat, NEW s \in Nat, NEW i \in Nat, s < c, i < c
    PROVE  /\ Wrap(s, 1, c) \in Nat
           /\ Wrap(s, 1, c) < c
           /\ Wrap(Wrap(s, 1, c), i, c) = Wrap(s, i + 1, c)
  <1>1. Wrap(s, 1, c) = IF s + 1 < c THEN s + 1 ELSE 0
    BY WrapOnce, SMT
  <1>2. Wrap(s, i + 1, c) = IF s + i + 1 < c THEN s + i + 1 ELSE s + i + 1 - c
    BY WrapOnce, SMT
  <1>3. ASSUME NEW z \in Nat, z < c
        PROVE  Wrap(z, i, c) = IF z + i < c THEN z + i ELSE z + i - c
    BY <1>3, WrapOnce, SMT
  <1>4. Wrap(s, 1, c) \in Nat /\ Wrap(s, 1, c) < c
    BY <1>1, SMT
  <1>5. Wrap(Wrap(s, 1, c), i, c) =
            IF Wrap(s, 1, c) + i < c THEN Wrap(s, 1, c) + i ELSE Wrap(s, 1, c) + i - c
    BY <1>3, <1>4
  <1> QED BY <1>1, <1>2, <1>4, <1>5, SMT

\* Idx(), before and after a step, in these terms.
LEMMA IdxWraps ==
    ASSUME NEW i PROVE Idx(i) = Wrap(start_idx, i, capacity)
                       /\ Idx(i)' = Wrap(start_idx', i, capacity')
  BY DEF Idx, Wrap

-----------------------------------------------------------------------------
(* What pushing does: the ring, grown or not, starts at q.start_idx of a   *)
(* buffer with room for one more.                                          *)

LEMMA Grown ==
    ASSUME QInv
    PROVE  LET q == assure_capacity(len + 1)
           IN  /\ q.capacity \in Nat /\ len < q.capacity
               /\ q.start_idx \in Nat /\ q.start_idx < q.capacity
               /\ q.elems \in [0..q.capacity - 1 -> Elems \cup {Junk}]
               /\ \A i \in 0..len - 1 :
                     q.elems[Wrap(q.start_idx, i, q.capacity)] = elems[Idx(i)]
  <1> DEFINE q == assure_capacity(len + 1)
  <1>t. /\ capacity \in Nat /\ start_idx \in Nat /\ len \in Nat /\ len <= capacity
        /\ elems \in [0..capacity - 1 -> Elems \cup {Junk}]
    BY DEF QInv, TypeOK
  <1>1. CASE capacity >= len + 1
    <2>1. q.capacity = capacity /\ q.start_idx = start_idx /\ q.elems = elems
      BY <1>1 DEF assure_capacity
    <2> QED BY <1>1, <1>t, <2>1, IdxWraps DEF QInv
  <1>2. CASE ~(capacity >= len + 1)
    <2>1. /\ q.capacity = (len + 1) * 2
          /\ q.start_idx = 0
          /\ q.elems = [i \in 0..(len + 1) * 2 - 1 |->
                           IF i < len THEN elems[Idx(i)] ELSE Junk]
      BY <1>2 DEF assure_capacity, CAPACITY_INCREASE_FACTOR
    <2>2. q.elems \in [0..q.capacity - 1 -> Elems \cup {Junk}]
      BY <1>t, <2>1 DEF QInv
    <2>3. ASSUME NEW i \in 0..len - 1
          PROVE  q.elems[Wrap(q.start_idx, i, q.capacity)] = elems[Idx(i)]
      <3>1. Wrap(0, i, q.capacity) = i
        BY <1>t, <2>1, WrapOnce, SMT
      <3> QED BY <1>t, <2>1, <3>1
    <2> QED BY <1>t, <2>1, <2>2, <2>3
  <1> QED BY <1>1, <1>2

\* After a push the ring holds what it held, and then the new element.
LEMMA Pushed ==
    ASSUME QInv, NEW e \in Elems, pqueue_push(e)
    PROVE  /\ capacity' \in Nat /\ len' = len + 1 /\ len' <= capacity'
           /\ start_idx' \in Nat /\ start_idx' < capacity'
           /\ elems' \in [0..capacity' - 1 -> Elems \cup {Junk}]
           /\ \A i \in 0..len - 1 : elems'[Idx(i)'] = elems[Idx(i)]
           /\ elems'[Wrap(start_idx', len, capacity')] = e
  <1> DEFINE q == assure_capacity(len + 1)
             last == Wrap(q.start_idx, len, q.capacity)
  <1>t. len \in Nat
    BY DEF QInv, TypeOK
  <1>1. /\ q.capacity \in Nat /\ len < q.capacity
        /\ q.start_idx \in Nat /\ q.start_idx < q.capacity
        /\ q.elems \in [0..q.capacity - 1 -> Elems \cup {Junk}]
        /\ \A i \in 0..len - 1 : q.elems[Wrap(q.start_idx, i, q.capacity)] = elems[Idx(i)]
    BY Grown
  <1>2. /\ elems' = [q.elems EXCEPT ![last] = e]
        /\ capacity' = q.capacity /\ start_idx' = q.start_idx /\ len' = len + 1
    BY DEF pqueue_push, Wrap
  <1>3. last \in 0..q.capacity - 1
    <2> HIDE DEF q
    <2>1. len <= q.capacity
      BY <1>1, <1>t
    <2> QED BY <1>1, <1>t, <2>1, WrapInside
  <1>4. ASSUME NEW i \in 0..len - 1
        PROVE  elems'[Idx(i)'] = elems[Idx(i)]
    <2> DEFINE at == Wrap(q.start_idx, i, q.capacity)
    <2>1. Idx(i)' = at
      BY <1>2, IdxWraps
    <2>2. at \in 0..q.capacity - 1 /\ at # last
      <3> HIDE DEF q
      <3>1. i \in Nat /\ i < q.capacity /\ i # len
        BY <1>1, <1>t
      <3>2. at # last
        BY <1>1, <1>t, <3>1, WrapInjective
      <3>3. i <= q.capacity
        BY <1>1, <3>1
      <3> QED BY <1>1, <3>1, <3>2, <3>3, WrapInside
    <2>3. q.elems[at] = elems[Idx(i)]
      BY <1>1
    <2> HIDE DEF q, at, last
    <2> QED BY <1>1, <1>2, <2>1, <2>2, <2>3
  <1>5. elems'[Wrap(start_idx', len, capacity')] = e
    <2>1. Wrap(start_idx', len, capacity') = last
      BY <1>2
    <2> HIDE DEF q, last
    <2> QED BY <1>1, <1>2, <1>3, <2>1
  <1>6. elems' \in [0..capacity' - 1 -> Elems \cup {Junk}]
    <2> HIDE DEF q, last
    <2> QED BY <1>1, <1>2
  <1> HIDE DEF q, last
  <1> QED BY <1>1, <1>2, <1>4, <1>5, <1>6, <1>t

\* After a pop that leaves something, the ring holds all but the oldest.
LEMMA Popped ==
    ASSUME QInv, pqueue_pop_oldest
    PROVE  /\ ret' = elems[Idx(0)]
           /\ len' = len - 1
           /\ len' > 0 => /\ elems' = elems /\ capacity' = capacity
                          /\ start_idx' \in Nat /\ start_idx' < capacity
                          /\ \A i \in 0..len - 2 : Idx(i)' = Idx(i + 1)
  <1>t. /\ capacity \in Nat /\ start_idx \in Nat /\ len \in Nat /\ len <= capacity
        /\ start_idx < capacity /\ len > 0
    BY DEF QInv, TypeOK, pqueue_pop_oldest
  <1>1. Idx(0) = start_idx
    BY <1>t, WrapOnce, IdxWraps
  <1>2. ret' = elems[Idx(0)] /\ len' = len - 1
    BY <1>1 DEF pqueue_pop_oldest
  <1>3. ASSUME len' > 0
        PROVE  /\ elems' = elems /\ capacity' = capacity
               /\ start_idx' \in Nat /\ start_idx' < capacity
               /\ \A i \in 0..len - 2 : Idx(i)' = Idx(i + 1)
    <2>1. elems' = elems /\ capacity' = capacity /\ start_idx' = Wrap(start_idx, 1, capacity)
      BY <1>3, <1>2, <1>t DEF pqueue_pop_oldest, consider_compacting, Idx, Wrap
    <2>2. start_idx' \in Nat /\ start_idx' < capacity
      BY <2>1, <1>t, WrapNext, 0 \in Nat
    <2>3. ASSUME NEW i \in 0..len - 2
          PROVE  Idx(i)' = Idx(i + 1)
      <3>1. i \in Nat /\ i < capacity
        BY <1>t
      <3>2. Wrap(Wrap(start_idx, 1, capacity), i, capacity) = Wrap(start_idx, i + 1, capacity)
        BY <1>t, <3>1, WrapNext
      <3> QED BY <2>1, <3>2, IdxWraps
    <2> QED BY <2>1, <2>2, <2>3
  <1> QED BY <1>2, <1>3

-----------------------------------------------------------------------------
LEMMA QInit == Init => QInv
  BY SizesAssumption DEF Init, QInv, TypeOK, SpareCapacityBounded

LEMMA QStep == QInv /\ [Next]_vars => QInv'
  <1> SUFFICES ASSUME QInv, [Next]_vars PROVE QInv'
    OBVIOUS
  <1>t. /\ capacity \in Nat /\ start_idx \in Nat /\ len \in Nat /\ len <= capacity
        /\ elems \in [0..capacity - 1 -> Elems \cup {Junk}]
        /\ ret \in Elems \cup {Nil}
    BY DEF QInv, TypeOK
  <1>1. ASSUME NEW e \in Elems, pqueue_push(e)
        PROVE  QInv'
    <2>1. /\ capacity' \in Nat /\ len' = len + 1 /\ len' <= capacity'
          /\ start_idx' \in Nat /\ start_idx' < capacity'
          /\ elems' \in [0..capacity' - 1 -> Elems \cup {Junk}]
          /\ \A i \in 0..len - 1 : elems'[Idx(i)'] = elems[Idx(i)]
          /\ elems'[Wrap(start_idx', len, capacity')] = e
      BY <1>1, Pushed
    <2>2. TypeOK'
      BY <1>1, <1>t, <2>1 DEF TypeOK, pqueue_push
    <2>3. \A i \in 0..len - 1 : elems[Idx(i)] \in Elems
      BY DEF QInv
    <2>4. ASSUME NEW i \in 0..len' - 1 PROVE elems'[Idx(i)'] \in Elems
      <3>1. i \in 0..len - 1 \/ i = len
        BY <1>t, <2>1
      <3> QED BY <3>1, <2>1, <2>3, IdxWraps
    <2>5. (SpareCapacityBounded)'
      BY <1>t, <2>1 DEF SpareCapacityBounded
    <2> QED BY <1>t, <2>1, <2>2, <2>4, <2>5 DEF QInv
  <1>2. ASSUME pqueue_pop_oldest
        PROVE  QInv'
    <2>1. /\ ret' = elems[Idx(0)] /\ len' = len - 1
          /\ len' > 0 => /\ elems' = elems /\ capacity' = capacity
                         /\ start_idx' \in Nat /\ start_idx' < capacity
                         /\ \A i \in 0..len - 2 : Idx(i)' = Idx(i + 1)
      BY <1>2, Popped
    <2>2. len > 0 /\ ret' \in Elems
      BY <1>2, <1>t, <2>1 DEF QInv, pqueue_pop_oldest
    <2>3. CASE len' > 0
      <3>1. \A i \in 0..len' - 1 : elems'[Idx(i)'] \in Elems
        <4>1. \A i \in 0..len - 1 : elems[Idx(i)] \in Elems
          BY DEF QInv
        <4> QED BY <1>t, <2>1, <2>3, <4>1
      <3> QED BY <1>t, <2>1, <2>2, <2>3, <3>1 DEF QInv, TypeOK, SpareCapacityBounded
    <2>4. CASE len' = 0
      <3>1. CASE capacity > MAX_SPARE_CAPACITY
        <4>1. /\ elems' = [i \in 0..(-1) |-> Junk] /\ capacity' = 0 /\ start_idx' = 0
          BY <1>2, <2>4, <3>1 DEF pqueue_pop_oldest, consider_compacting
        <4> QED BY <1>t, <2>2, <2>4, <4>1, SizesAssumption
                DEF QInv, TypeOK, SpareCapacityBounded
      <3>2. CASE ~(capacity > MAX_SPARE_CAPACITY)
        <4>1. /\ elems' = elems /\ capacity' = capacity
              /\ start_idx' = Wrap(start_idx, 1, capacity)
          BY <1>2, <2>4, <3>2 DEF pqueue_pop_oldest, consider_compacting, Idx, Wrap
        <4>2. start_idx' \in Nat /\ start_idx' < capacity
          BY <1>t, <2>2, <4>1, WrapNext, 0 \in Nat DEF QInv
        <4> QED BY <1>t, <2>2, <2>4, <3>2, <4>1, <4>2, SizesAssumption
                DEF QInv, TypeOK, SpareCapacityBounded
      <3> QED BY <3>1, <3>2
    <2> QED BY <1>t, <2>1, <2>2, <2>3, <2>4
  <1>3. ASSUME pqueue_pop_empty \/ pqueue_peek \/ UNCHANGED vars
        PROVE  QInv'
    <2>1. UNCHANGED <<elems, capacity, start_idx, len>>
      BY <1>3 DEF pqueue_pop_empty, pqueue_peek, vars
    <2>2. ret' \in Elems \cup {Nil}
      <3>1. CASE pqueue_peek /\ len > 0
        <4>1. Idx(0) = start_idx /\ 0 \in 0..len - 1
          BY <1>t, <3>1, WrapOnce, IdxWraps DEF QInv
        <4> QED BY <3>1, <4>1, <1>t DEF QInv, pqueue_peek
      <3> QED BY <1>3, <1>t, <3>1 DEF pqueue_pop_empty, pqueue_peek, vars
    <2> QED BY <1>t, <2>1, <2>2 DEF QInv, TypeOK, SpareCapacityBounded, Idx
  <1> QED BY <1>1, <1>2, <1>3 DEF Next, pqueue_pop

\* The inductive invariant of the ring buffer.
THEOREM RingInvariant == Spec => []QInv
  BY QInit, QStep, PTL DEF Spec

\* The ring keeps its types: every index that is used is inside elems.
THEOREM RingTypeCorrect == Spec => []TypeOK
  <1>1. QInv => TypeOK
    BY DEF QInv
  <1> QED BY <1>1, RingInvariant, PTL

\* An empty queue keeps at most MAX_SPARE_CAPACITY slots, whatever was queued.
THEOREM SpareBounded == Spec => []SpareCapacityBounded
  <1>1. QInv => SpareCapacityBounded
    BY DEF QInv
  <1> QED BY <1>1, RingInvariant, PTL

-----------------------------------------------------------------------------
(* Refinement.                                                             *)

ContentsFacts ==
    /\ Contents \in Seq(Elems)
    /\ Len(Contents) = len
    /\ len \in Nat
    /\ \A i \in 1..len : Contents[i] = elems[Idx(i - 1)]

\* The ring, read from its oldest element on, is a sequence of elements.
LEMMA ContentsType == QInv => ContentsFacts
  <1> SUFFICES ASSUME QInv PROVE ContentsFacts
    OBVIOUS
  <1>1. len \in Nat
    BY DEF QInv, TypeOK
  <1>2. ASSUME NEW i \in 1..len PROVE elems[Idx(i - 1)] \in Elems
    <2>1. i - 1 \in 0..len - 1
      BY <1>1
    <2> QED BY <2>1 DEF QInv
  <1>3. Contents \in [1..len -> Elems]
    BY <1>2 DEF Contents
  <1>4. Contents \in Seq(Elems) /\ Len(Contents) = len
    BY <1>1, <1>3
  <1> QED BY <1>1, <1>4 DEF ContentsFacts, Contents

LEMMA RefinePush ==
    ASSUME QInv, QInv', NEW e \in Elems, pqueue_push(e)
    PROVE  Contents' = Append(Contents, e) /\ ret' = ret
  <1>1. /\ Contents \in Seq(Elems) /\ Len(Contents) = len /\ len \in Nat
        /\ \A i \in 1..len : Contents[i] = elems[Idx(i - 1)]
    BY ContentsType DEF ContentsFacts
  <1>2. /\ len' = len + 1
        /\ \A i \in 0..len - 1 : elems'[Idx(i)'] = elems[Idx(i)]
        /\ elems'[Wrap(start_idx', len, capacity')] = e
    BY Pushed
  <1>3. Contents' = [i \in 1..len + 1 |-> elems'[Wrap(start_idx', i - 1, capacity')]]
    BY <1>2 DEF Contents, Idx, Wrap
  <1>4. ASSUME NEW i \in 1..len + 1
        PROVE  elems'[Wrap(start_idx', i - 1, capacity')] = Append(Contents, e)[i]
    <2>1. CASE i = len + 1
      BY <1>1, <1>2, <2>1
    <2>2. CASE i \in 1..len
      <3>1. i - 1 \in 0..len - 1
        BY <1>1, <2>2
      <3>2. elems'[Wrap(start_idx', i - 1, capacity')] = elems[Idx(i - 1)]
        BY <1>2, <3>1, IdxWraps
      <3> QED BY <1>1, <2>2, <3>2
    <2> QED BY <1>1, <2>1, <2>2
  <1>5. Append(Contents, e) \in Seq(Elems) /\ Len(Append(Contents, e)) = len + 1
    BY <1>1
  <1>6. Contents' = Append(Contents, e)
    <2>1. ContentsFacts'
      BY ContentsType, PTL
    <2>2. Contents' \in Seq(Elems) /\ Len(Contents') = len + 1
      BY <1>2, <2>1 DEF ContentsFacts
    <2>3. \A i \in 1..len + 1 : Contents'[i] = Append(Contents, e)[i]
      BY <1>3, <1>4
    <2> QED BY <1>1, <1>5, <2>2, <2>3
  <1>7. ret' = ret
    BY DEF pqueue_push
  <1> QED BY <1>6, <1>7

LEMMA RefinePop ==
    ASSUME QInv, QInv', pqueue_pop_oldest
    PROVE  Contents # <<>> /\ ret' = Contents[1] /\ Contents' = Tail(Contents)
  <1>1. /\ Contents \in Seq(Elems) /\ Len(Contents) = len /\ len \in Nat
        /\ \A i \in 1..len : Contents[i] = elems[Idx(i - 1)]
    BY ContentsType DEF ContentsFacts
  <1>2. /\ ret' = elems[Idx(0)] /\ len' = len - 1
        /\ len' > 0 => /\ elems' = elems
                       /\ \A i \in 0..len - 2 : Idx(i)' = Idx(i + 1)
    BY Popped
  <1>3. len > 0
    BY DEF pqueue_pop_oldest
  <1>4. Contents # <<>> /\ ret' = Contents[1]
    <2>1. Contents[1] = elems[Idx(1 - 1)] /\ Contents # <<>>
      BY <1>1, <1>3
    <2> QED BY <1>2, <2>1
  <1>5. /\ Tail(Contents) \in Seq(Elems) /\ Len(Tail(Contents)) = len - 1
        /\ \A i \in 1..len - 1 : Tail(Contents)[i] = Contents[i + 1]
    BY <1>1, <1>3, <1>4
  <1>6. /\ Contents' \in Seq(Elems) /\ Len(Contents') = len - 1
        /\ \A i \in 1..len - 1 : Contents'[i] = elems'[Wrap(start_idx', i - 1, capacity')]
    <2>1. /\ Contents' \in Seq(Elems) /\ Len(Contents') = len'
          /\ \A i \in 1..len' : Contents'[i] = elems'[Idx(i - 1)']
      <3>1. ContentsFacts'
        BY ContentsType, PTL
      <3> QED BY <3>1 DEF ContentsFacts
    <2> QED BY <1>2, <2>1, IdxWraps
  <1>7. ASSUME NEW i \in 1..len - 1
        PROVE  Contents'[i] = Tail(Contents)[i]
    <2>1. i - 1 \in 0..len - 2 /\ len' > 0 /\ i + 1 \in 1..len /\ (i + 1) - 1 = (i - 1) + 1
      BY <1>1, <1>2
    <2>2. elems' = elems /\ Wrap(start_idx', i - 1, capacity') = Idx((i - 1) + 1)
      BY <1>2, <2>1, IdxWraps
    <2>3. Contents[i + 1] = elems[Idx((i + 1) - 1)]
      BY <1>1, <2>1
    <2> QED BY <1>5, <1>6, <2>1, <2>2, <2>3
  <1>8. Contents' = Tail(Contents)
    BY <1>1, <1>5, <1>6, <1>7
  <1> QED BY <1>4, <1>8

\* util/pqueue.c implements a FIFO queue: push appends, pop and peek return
\* the oldest element or NULL, through growth, wrap-around and compaction.
THEOREM Refinement == Spec => ImplementsFifo
  <1>1. Init => Queue!Init
    BY DEF Init, Queue!Init, Contents
  <1>2. ASSUME QInv, QInv', [Next]_vars
        PROVE  [Queue!Next]_<<Contents, ret>>
    <2>c. /\ Contents \in Seq(Elems) /\ Len(Contents) = len /\ len \in Nat
          /\ \A i \in 1..len : Contents[i] = elems[Idx(i - 1)]
      BY <1>2, ContentsType DEF ContentsFacts
    <2>1. ASSUME NEW e \in Elems, pqueue_push(e)
          PROVE  Queue!Push(e)
      BY <1>2, <2>1, RefinePush DEF Queue!Push
    <2>2. ASSUME pqueue_pop_oldest
          PROVE  Queue!Pop
      BY <1>2, <2>2, RefinePop DEF Queue!Pop, Queue!Front
    <2>3. ASSUME pqueue_pop_empty
          PROVE  Queue!Pop
      <3>1. Contents = <<>> /\ ret' = Nil
        BY <2>3, <2>c DEF pqueue_pop_empty
      <3>2. Contents' = Contents
        BY <2>3 DEF pqueue_pop_empty, Contents, Idx
      <3> QED BY <3>1, <3>2 DEF Queue!Pop, Queue!Front
    <2>4. ASSUME pqueue_peek
          PROVE  Queue!Peek
      <3>1. Contents' = Contents
        BY <2>4 DEF pqueue_peek, Contents, Idx
      <3>2. CASE len = 0
        BY <2>4, <2>c, <3>1, <3>2 DEF pqueue_peek, Queue!Peek, Queue!Front
      <3>3. CASE len > 0
        <4>1. Idx(1 - 1) = start_idx
          <5>1. start_idx \in Nat /\ capacity \in Nat /\ start_idx < capacity
            BY <1>2, <3>3 DEF QInv, TypeOK
          <5> QED BY <5>1, WrapOnce, IdxWraps
        <4>2. Contents[1] = elems[start_idx] /\ Contents # <<>>
          BY <2>c, <3>3, <4>1
        <4> QED BY <2>4, <3>1, <3>3, <4>2 DEF pqueue_peek, Queue!Peek, Queue!Front
      <3> QED BY <2>c, <3>2, <3>3
    <2>5. ASSUME UNCHANGED vars
          PROVE  UNCHANGED <<Contents, ret>>
      BY <2>5 DEF vars, Contents, Idx
    <2> QED BY <1>2, <2>1, <2>2, <2>3, <2>4, <2>5 DEF Next, pqueue_pop, Queue!Next
  <1> QED BY <1>1, <1>2, RingInvariant, PTL DEF Spec, ImplementsFifo, Queue!Spec
=============================================================================
