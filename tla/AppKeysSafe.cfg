\* Operations on one key follow one another, transactions succeed.
SPECIFICATION Spec
CONSTANTS
    Keys = {k1, k2}
    NoKey = NoKey
    NoEntry = NoEntry
    Threads = {t1}
    Provisioned = {k1}
    ConfigScope <- Unscoped
    Restrictions = {"m1"}
    NewScopes <- Restricted
    TTLs = {0}
    Expiries = {2}
    Bodies <- SetModels
    Kinds = {"vend", "revoke", "patch", "rotate", "purge"}
    MaxTime = 2
    Faults = {}
INVARIANTS TypeOK WriteThrough CrashLosesNothing PurgeIsFinal RotationHandsOver
PROPERTIES RevocationStaysDurable PatchKeepsUnsentFields
