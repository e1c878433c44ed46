CONSTANTS
    c1 = c1  c2 = c2
    k1 = k1  k2 = k2  k3 = k3
    q1 = q1  q2 = q2  q3 = q3
    s1 = s1
    b1 = b1  b2 = b2
    p1 = p1
    Nil = Nil
    Clients = {c1, c2}
    Services = {s1}
    SubIds = {b1, b2}
    Conns = {k1, k2, k3}
    ProtoConns = {q1, q2, q3}
    Generations = {1}
    Props = {p1}
    Filters <- AnyFilter
    TTLs = {1}
    MaxTime = 3
    MAX_HANDSHAKE_TIME = 1
SPECIFICATION ServerSpec
SYMMETRY Symmetry
INVARIANTS ListsMatchHandshake SessionsMatchDatabase SubsReportToLiveConns
PROPERTIES CleanOutOnlyOverdue
CHECK_DEADLOCK FALSE
