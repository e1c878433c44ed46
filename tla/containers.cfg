CONSTANTS
    e1 = e1  e2 = e2
    v1 = v1  v2 = v2
    Nil = Nil
    Junk = Junk
    Elems = {e1, e2}
    MAX_SPARE_CAPACITY = 3
    MaxLen = 5
    Keys = {1, 2, 3, 4}
    Values = {v1, v2}
    MaxEntries = 4
SPECIFICATION ContainersSpec
INVARIANTS PmapTypeOK
PROPERTIES ImplementsFifo ImplementsMap IterationOrderKept
