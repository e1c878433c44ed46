---------------------------- MODULE MCContainers ----------------------------
(* The queue and the map on small instances.  They share nothing, so one   *)
(* is used at a time, the other staying as it was created.                 *)
EXTENDS Pqueue, Pmap

CONSTANTS e1, e2, v1, v2

QueueUnused == capacity = 0 /\ ret = Nil
MapUnused == entries.capacity = 0 /\ got = Nil

ContainersInit == Init /\ PmapInit

ContainersNext ==
    \/ MapUnused /\ Next /\ UNCHANGED pmap_vars
    \/ QueueUnused /\ PmapNext /\ UNCHANGED vars

ContainersSpec ==
    ContainersInit /\ [][ContainersNext]_<<elems, capacity, start_idx, len, ret, entries, got>>
=============================================================================
