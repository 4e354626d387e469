\* Three keys in a cache of two entries.
SPECIFICATION Spec
CONSTANTS
    Keys = {k1, k2, k3}
    Values = {v1, v2}
    TTLs = {0, 2}
    maxEntries = 2
    Nil = Nil
    MaxTime = 3
INVARIANTS MapAndListAgree ListInOrderOfUse
PROPERTY ImplementsCache
