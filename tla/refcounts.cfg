CONSTANTS
    c1 = c1  c2 = c2
    k1 = k1  k2 = k2  k3 = k3  k4 = k4
    s1 = s1  s2 = s2
    b1 = b1  b2 = b2
    Nil = Nil
    Db = Db
    Clients = {c1, c2}
    Services = {s1, s2}
    Subs = {b1, b2}
    Conns = {k1, k2, k3}
SPECIFICATION Spec
SYMMETRY Symmetry
INVARIANTS NoUseAfterFree AssertsHold NothingLeaks
PROPERTIES IterationStable
CHECK_DEADLOCK FALSE
