SPECIFICATION Spec
CONSTANTS
    Tokens <- MCTokens
    Subjects = {"agent"}
    Polls = {p1, p2}
    None = None
    FailModes = {TRUE, FALSE}
    DefaultAge = 1
    OtherAges <- MCOtherAges
    MaxLife = 4
    Lag = 1
    MaxEntries = 2
    MaxRejected = 1
    MaxTime = 5
SYMMETRY Perms
INVARIANTS TypeOK RevokedWithinMaxAge
PROPERTIES HitsPersist NeverReplacedByEarlier
