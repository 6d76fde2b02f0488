SPECIFICATION FairSpec
CONSTANTS
    good = good
    fine = fine
    odd = odd
    None = None
    Content = {good, fine, odd}
    Hashable = {good, fine}
    InitFiles <- Torn
    Threads = {t1, t2}
    Handles = {a, p}
    Chained = {a}
    MaxCalls = 3
    UnlockMayFail = FALSE
    HostMayFail = FALSE
PROPERTIES LockReleased WriteReturns
