-------------------------------- MODULE Fifo --------------------------------
(* What pqueue.h promises: a first-in first-out queue of pointers.         *)
EXTENDS Naturals, Sequences

CONSTANTS Elems, Nil

VARIABLES
    queue,  \* the elements, oldest first
    ret     \* what the last pop or peek returned

Init == queue = <<>> /\ ret = Nil

Front == IF queue = <<>> THEN Nil ELSE queue[1]

Push(e) == queue' = Append(queue, e) /\ UNCHANGED ret

Pop ==
    /\ ret' = Front
    /\ queue' = IF queue = <<>> THEN queue ELSE Tail(queue)

Peek == ret' = Front /\ UNCHANGED queue

Next == (\E e \in Elems : Push(e)) \/ Pop \/ Peek

Spec == Init /\ [][Next]_<<queue, ret>>
=============================================================================
