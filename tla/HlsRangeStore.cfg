SPECIFICATION Spec
CONSTANTS
    StartupChunk = 1
    ForegroundChunk = 1
    MinChunk = 2
    MaxChunk = 4
    MaxChunks = 3
    SampleBytes = 1
    Readers = {r1}
    Fillers = {f}
    Origins = {a, b}
    First = a
    Total = 4
    Requests <- MCRequests
    MaxPasses = 1
    MaxTroubles = 1
CONSTRAINT Scenarios
INVARIANTS
    CheckpointIsBacked
    RepresentationIsExact
    ExtentsMatchReference
PROPERTIES
    DurableBytesStay
CHECK_DEADLOCK FALSE
