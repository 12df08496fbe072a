SPECIFICATION PageSpec
CONSTANT MaxJobs = 2
CONSTANT Pages = {p1}
CONSTANT MaxLines = 1
CONSTANT BufferMax = 1
INVARIANTS
    ConnectionsAreExact
    VerdictsAgree
    OneJobIsClaimed
    CancelledWasHit
PROPERTIES
    LedgerSpec
    RunIsFollowed
