CONSTANTS
    c1 = c1  c2 = c2
    k1 = k1  k2 = k2  k3 = k3  k4 = k4
    s1 = s1  s2 = s2
    b1 = b1  b2 = b2
    p1 = p1  p2 = p2
    Nil = Nil
    Clients = {c1, c2}
    Services = {s1, s2}
    SubIds = {b1}
    Conns = {k1, k2, k3, k4}
    Generations = {1, 2}
    Props = {p1}
    Filters <- AnyFilter
    TTLs = {0, 1}
    MaxTime = 2
SPECIFICATION Spec
SYMMETRY Symmetry
INVARIANTS ConnOwnership ServiceHeldOnce OrphansInInactiveConns OrphanTimerArmed SubsOfActiveConns
PROPERTIES RemovedOnlyWhenDue EmptyConnsAreVictims ImplementsRegistry
CHECK_DEADLOCK FALSE
