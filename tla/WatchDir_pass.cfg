SPECIFICATION FairSpec
CONSTANTS
    a = a
    b = b
    x = x
    y = y
    Watchers = {x}
    Streams = {a}
    Contents <- MCContents
    Records = {1}
    MaxLines = 4
    MaxTampers = 1
    MaxFaults = 2
INVARIANTS TypeOK RecordedIsOnTheBus OneDuplicateAtWorst UnexplainedOnlyIfUnnamed NeverHalf
PROPERTIES CleanExitIsComplete BreakIsReported
