SPECIFICATION VerifySpec
CONSTANTS
    a = a
    b = b
    odd = odd
    None = None
    Content <- Bodies
    Hashable = {a, b}
    InitFiles <- NoFiles
    Streams <- MCStreams
    MaxGrown = 4
    Chunk = 1
    Window = 4
CHECK_DEADLOCK FALSE
INVARIANTS TypeOK BreaksAreGenuine EveryEventJudged RestartsNamed TailIsExact
