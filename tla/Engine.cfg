\* A request over every entry point, another that shares the cache, reloads between attempts.
SPECIFICATION FairSpec
CONSTANTS
    Requests = {r1, r2}
    Providers = {"p1", "p2", "p3"}
    Registered = {"p1", "p2"}
    Embedders = {"p1", "p2"}
    Natives = {"p1"}
    Relays = {"p1"}
    Models = {"m1", "m2"}
    Codes = {"429"}
    Bodies <- MCBodies
    Inputs <- ClientInputs
    r1 = r1
    r2 = r2
    PreLLM <- Rewrite
    Configs <- Three
    CacheOn = TRUE
    None = None
INVARIANTS OneConfigPerRequest ScopesHold GivesUpLast AnswerOrError HitsAreOwn
PROPERTIES RetryDiscipline EveryRequestEnds
