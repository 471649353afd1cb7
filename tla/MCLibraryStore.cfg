SPECIFICATION SearchingSpec
CONSTANTS
    s1 = s1
    s2 = s2
    b1 = b1
    b2 = b2
    Readers = {s1, s2}
    Refreshers = {b1, b2}
    Capacity = 1
    MaxChanges = 1
    MaxFails = 1
INVARIANT IInv
PROPERTIES OncePerWindow NeverGoesBack SearchesReturn SnapshotCatchesUp
