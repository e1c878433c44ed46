------------------------- MODULE MCServiceDiscovery -------------------------
(* ServiceDiscovery on small instances.                                    *)
EXTENDS ServiceDiscovery, TLC

CONSTANTS c1, c2, k1, k2, k3, k4, s1, s2, b1, b2, p1, p2

\* A filter that matches everything, and one that tells p1 from p2.
AnyFilter == {Props}
BothFilters == {Props, {p1}}

\* The heap's conn objects, the clients and the services are interchangeable.
Symmetry == Permutations(Clients) \cup Permutations(Conns) \cup Permutations(Services)
=============================================================================
