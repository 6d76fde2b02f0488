SPECIFICATION Spec
CONSTANTS
    good = good
    odd = odd
    None = None
    Content = {good, odd}
    Hashable = {good}
    InitFiles <- Fresh
    Writers = {a}
    Others = {"plain"}
    Every = 2
    ScanMayFail = FALSE
    MayShrink = FALSE
    MaxLines = 4
    MaxRecords = 3
PROPERTIES EveryLinesOfAny
