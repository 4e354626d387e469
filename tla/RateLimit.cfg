\* An app key with a limit of its own and one address, in every mode; a minute is
\* two ticks, and five ticks let a bucket be drained, go stale and be created again.
SPECIFICATION Spec
CONSTANTS
    a1 = a1
    AppKeys = {a1}
    Addresses = {x1}
    NoAppKey = NoAppKey
    rpm = 1
    appKeyRPM = 2
    appKeyLimits <- OneLimit
    Minute = 2
    StaleAfter = 2
    Absent = Absent
    MaxTime = 5
INVARIANTS TypeOK RateBound CleanupUnnoticed
