\* Two requests to any endpoints, a key that is revoked at any moment, and a reader of
\* the counters.
SPECIFICATION Spec
CONSTANTS
    Workers = {r1, r2}
    Models = {m1}
    NoObject = NoObject
    Chain <- Registered
    Buffers = {b1, b2}
    NoBuffer = NoBuffer
    Endpoints = {"chat", "stream", "embeddings", "messages", "native"}
    RequireKey = FALSE
    MaxChunks = 1
    Answers <- Counts
SYMMETRY TransportSymmetry
INVARIANTS BuffersNotShared TracesTellTheAnswer AnswersAreCounted RequestsAddUp TokensAddUp SnapshotCovers
