SPECIFICATION Spec
CONSTANTS
    good = good
    odd = odd
    None = None
    Content = {good, odd}
    Hashable = {good}
    InitFiles <- MCInitFiles
    Writers = {a}
    Others = {"chained", "plain"}
    Every = 2
    ScanMayFail = FALSE
    MayShrink = TRUE
    MaxLines = 3
    MaxRecords = 2
INVARIANTS RefusedMeansRewritten
PROPERTIES RecordsSpeakTheTruth EveryLines
