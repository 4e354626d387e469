\* Two requests under way at any moment of start-up, drain, flush and close.
SPECIFICATION FairSpec
CONSTANTS
    Callers = {r1, r2}
    Bounded = TRUE
    Plugins <- MCPlugins
    Asks <- MCAsks
    r1 = r1
    r2 = r2
INVARIANTS HooksAreAccounted FlushIsLast
PROPERTIES ShutdownEnds
