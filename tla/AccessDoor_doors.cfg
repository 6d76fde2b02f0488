SPECIFICATION Spec
CONSTANTS
    Principals = {"a", "b", "u"}
    Schemed = {"a", "b", "u"}
    Nobody = Nobody
    MaxDepth = 2
    Requests = {r1, r2}
    Tokens <- MCTokens
    Proofs <- MCProofs
    Revocable = {"a"}
    Agents = {"a", "b"}
    Kids = {"k1"}
    NoKey = NoKey
    NoProof = NoProof
    NoJti = NoJti
    Leeway = 1
    Window = 1
    Cap = 1
    Slack = 1
    MaxTurns = 2
    Polls = {p1}
    FailModes = {TRUE}
    DefaultAge = 1
    MaxLife = 3
    Lag = 0
    MaxEntries = 1
    MaxRejected = 1
    MaxTime = 3
SYMMETRY Perms
INVARIANTS TypeOK RefusalSpendsNothing RevokedPartyRefused AcceptedIsRecordable
PROPERTIES MemoryRefined
