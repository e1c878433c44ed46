CONSTANTS
    c1 = c1  c2 = c2
    k1 = k1  k2 = k2  k3 = k3  k4 = k4
    s1 = s1  s2 = s2
    b1 = b1  b2 = b2
    p1 = p1  p2 = p2
    Nil = Nil
    Clients = {c1, c2}
    Services = {s1}
    SubIds = {b1}
    Conns = {k1, k2, k3}
    Generations = {1, 2}
    Props = {p1, p2}
    Filters <- BothFilters
    TTLs = {0, 1}
    MaxTime = 2
SPECIFICATION Spec
SYMMETRY Symmetry
INVARIANTS TypeOK SubscriberViewExact
PROPERTIES DisappearanceTellsCause GenerationsImmutable PublishTakesEffect
CHECK_DEADLOCK FALSE
