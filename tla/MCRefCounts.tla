----------------------------- MODULE MCRefCounts ----------------------------
(* RefCounts on a small instance.                                          *)
EXTENDS RefCounts, TLC

CONSTANTS c1, c2, k1, k2, k3, k4, s1, s2, b1, b2

Symmetry ==
    Permutations(Clients) \cup Permutations(Services) \cup Permutations(Subs)
=============================================================================
