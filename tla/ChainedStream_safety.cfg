SPECIFICATION Spec
CONSTANTS
    good = good
    fine = fine
    odd = odd
    None = None
    Content = {good, fine, odd}
    Hashable = {good, fine}
    InitFiles <- MCInitFiles
    Threads = {t1, t2}
    Handles = {a, b, p}
    Chained = {a, b}
    MaxCalls = 2
    UnlockMayFail = TRUE
    HostMayFail = TRUE
SYMMETRY Perms
INVARIANTS TypeOK OneInside ChainedAcksKept NoBreaks
PROPERTIES LogRefined ResumesFromDisk
