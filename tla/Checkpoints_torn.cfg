SPECIFICATION Spec
CONSTANTS
    good = good
    odd = odd
    None = None
    Content = {good}
    Hashable = {good}
    InitFiles <- Fresh
    Writers = {a}
    Others = {}
    Every = 2
    ScanMayFail = FALSE
    MayShrink = FALSE
    MaxLines = 4
    MaxRecords = 3
PROPERTIES ResumeNamed
