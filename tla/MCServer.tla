------------------------------ MODULE MCServer ------------------------------
(* Server on small instances.                                              *)
EXTENDS Server, TLC

CONSTANTS c1, c2, k1, k2, k3, q1, q2, q3, s1, b1, b2, p1

AnyFilter == {Props}

\* Clients, the heap's objects and subscription ids are interchangeable.
Symmetry ==
    Permutations(Clients) \cup Permutations(Conns) \cup Permutations(ProtoConns)
        \cup Permutations(SubIds)
=============================================================================
