------------------------------- MODULE Pqueue -------------------------------
(***************************************************************************)
(* The ring buffer of util/pqueue.c, which holds the outgoing messages of  *)
(* a connection: it doubles when it is full, which unrolls the ring, and   *)
(* gives a large buffer back when it runs empty.                           *)
(***************************************************************************)
EXTENDS Memory, Sequences

CONSTANTS
    Elems,               \* the pointers that are queued
    MAX_SPARE_CAPACITY,
    MaxLen               \* longest queue the caller builds (a bound)

CAPACITY_INCREASE_FACTOR == 2

ASSUME SizesAssumption == MAX_SPARE_CAPACITY \in Nat /\ MaxLen \in Nat

ASSUME JunkAssumption == Junk \notin Elems /\ Nil \notin Elems /\ Junk # Nil

VARIABLES elems, capacity, start_idx, len, ret

vars == <<elems, capacity, start_idx, len, ret>>

TypeOK ==
    /\ capacity \in Nat
    /\ elems \in [0..capacity - 1 -> Elems \cup {Junk}]
    /\ start_idx \in Nat
    /\ len \in 0..capacity
    /\ ret \in Elems \cup {Nil}

-----------------------------------------------------------------------------
\* Where the element i places behind the oldest one is.
Idx(i) == (start_idx + i) % capacity

assure_capacity_FromZero(min) ==
    IF capacity >= min
    THEN [elems |-> elems, capacity |-> capacity, start_idx |-> start_idx]
    ELSE LET new == min * CAPACITY_INCREASE_FACTOR
         IN  [elems |-> [i \in 0..new - 1 |-> IF i < len THEN elems[i] ELSE Junk],
              capacity |-> new, start_idx |-> 0]

\* The buffer with room for min elements.
assure_capacity(min) ==
    IF capacity >= min
    THEN [elems |-> elems, capacity |-> capacity, start_idx |-> start_idx]
    ELSE LET new == min * CAPACITY_INCREASE_FACTOR
         IN  [elems |-> [i \in 0..new - 1 |-> IF i < len THEN elems[Idx(i)] ELSE Junk],
              capacity |-> new, start_idx |-> 0]

pqueue_push(e) ==
    /\ len < MaxLen
    /\ LET q == assure_capacity(len + 1)
           last_idx == (q.start_idx + len) % q.capacity
       IN  /\ elems' = [q.elems EXCEPT ![last_idx] = e]
           /\ capacity' = q.capacity
           /\ start_idx' = q.start_idx
    /\ len' = len + 1
    /\ UNCHANGED ret

\* consider_compacting() with n elements left and the oldest at start.
consider_compacting(n, start) ==
    IF n = 0 /\ capacity > MAX_SPARE_CAPACITY
    THEN /\ elems' = [i \in 0..(-1) |-> Junk]
         /\ capacity' = 0
         /\ start_idx' = 0
    ELSE /\ start_idx' = start
         /\ UNCHANGED <<elems, capacity>>

pqueue_pop_empty ==
    /\ len = 0
    /\ ret' = Nil
    /\ UNCHANGED <<elems, capacity, start_idx, len>>

pqueue_pop_oldest ==
    /\ len > 0
    /\ ret' = elems[start_idx]
    /\ len' = len - 1
    /\ consider_compacting(len', Idx(1))

pqueue_pop == pqueue_pop_empty \/ pqueue_pop_oldest

pqueue_peek ==
    /\ ret' = IF len = 0 THEN Nil ELSE elems[start_idx]
    /\ UNCHANGED <<elems, capacity, start_idx, len>>

Init ==
    /\ elems = [i \in 0..(-1) |-> Junk]
    /\ capacity = 0
    /\ start_idx = 0
    /\ len = 0
    /\ ret = Nil

Next == (\E e \in Elems : pqueue_push(e)) \/ pqueue_pop \/ pqueue_peek

Spec == Init /\ [][Next]_vars

-----------------------------------------------------------------------------
\* An empty queue keeps no more than the spare capacity: a burst of
\* notifications does not pin its memory once the client has read it.
SpareCapacityBounded == len = 0 => capacity <= MAX_SPARE_CAPACITY

\* The queue the buffer stands for.
Contents == [i \in 1..len |-> elems[Idx(i - 1)]]

Queue == INSTANCE Fifo WITH queue <- Contents

\* The ring buffer is a FIFO queue: growing, wrapping around and compacting
\* neither lose, repeat nor reorder an element, and never expose memory that
\* was not written.
ImplementsFifo == Queue!Spec
=============================================================================
