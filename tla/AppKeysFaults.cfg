\* Every fault: overlapping operations, failing transactions, undrained shutdown.
SPECIFICATION FairSpec
CONSTANTS
    Keys = {k1}
    NoKey = NoKey
    NoEntry = NoEntry
    Threads = {t1, t2}
    Provisioned = {}
    ConfigScope <- Unscoped
    Restrictions = {"m1"}
    NewScopes <- Unrestricted
    TTLs = {0}
    Expiries = {2}
    Bodies <- NoFields
    Kinds = {"vend", "revoke", "patch", "purge"}
    MaxTime = 1
    Faults = {"overlap", "disk", "undrained"}
PROPERTIES FlushNeverClobbers FlushConverges HandlersReturn
