\* A configured allow list cleared by a PATCH.
SPECIFICATION Spec
CONSTANTS
    Keys = {k1}
    NoKey = NoKey
    NoEntry = NoEntry
    Threads = {t1, t2}
    Provisioned = {k1}
    ConfigScope <- Scoped
    Restrictions = {"m1"}
    NewScopes <- Unrestricted
    TTLs = {0}
    Expiries = {2}
    Bodies <- ClearModels
    Kinds = {"vend", "revoke", "patch", "rotate", "purge"}
    MaxTime = 1
    Faults = {}
SYMMETRY ThreadSymmetry
INVARIANT CrashLosesNothing
