SPECIFICATION Spec
CONSTANTS
    a = a
    b = b
    x = x
    y = y
    Watchers = {x}
    Streams = {a}
    Contents <- MCContents
    Records = {1}
    MaxLines = 4
    MaxTampers = 2
    MaxFaults = 2
INVARIANTS RefusalExitsOne
