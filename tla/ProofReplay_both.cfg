SPECIFICATION Spec
CONSTANTS
    Requests = {r1, r2}
    Jti = {j1, j2}
    NoJti = NoJti
    Iats = {1, 2, 3, 4, 5}
    Window = 1
    Cap = 1
    Memories = {"cache", "seen"}
    Slack = 1
    MaxTurns = 4
    MaxTime = 5
SYMMETRY Perms
INVARIANTS TypeOK CacheAtMostOnce SeenAtMostOnce NoFalseReplay
