\* A purge overlapping another operation on the key.
SPECIFICATION Spec
CONSTANTS
    Keys = {k1}
    NoKey = NoKey
    NoEntry = NoEntry
    Threads = {t1, t2}
    Provisioned = {}
    ConfigScope <- Unscoped
    Restrictions = {"m1"}
    NewScopes <- Unrestricted
    TTLs = {0}
    Expiries = {2}
    Bodies <- NoFields
    Kinds = {"vend", "revoke", "patch", "purge"}
    MaxTime = 1
    Faults = {"overlap"}
SYMMETRY ThreadSymmetry
INVARIANT PurgeIsFinal
