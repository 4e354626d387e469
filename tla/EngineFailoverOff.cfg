\* Embeddings with failover off.
SPECIFICATION Spec
CONSTANTS
    Requests = {r1}
    Providers = {"p1", "p2", "p3"}
    Registered = {"p1", "p2"}
    Embedders = {"p1", "p2"}
    Natives = {"p1"}
    Relays = {"p1"}
    Models = {"m1", "m2"}
    Codes = {"429", "500"}
    Bodies <- MCBodies
    Inputs <- EmbeddingInputs
    r1 = r1
    r2 = r2
    PreLLM <- Rewrite
    Configs <- OnlyOff
    CacheOn = TRUE
    None = None
INVARIANT FailoverOnlyWhenOn
