SPECIFICATION FairSpec
CONSTANTS
    Members = {m1, m2}
    Calls = {c1, c2}
    Edges <- OneEdge
    Tools = {"delegate", "cancel"}
    Timeouts = {TRUE, FALSE}
    Ends = {"completed", "cancelled"}
    MaxClaims = 1
    MaxDepth = 1
    Most <- EachOnce
    MaxMishaps = 2
    m1 = m1
    m2 = m2
    c1 = c1
    c2 = c2
INVARIANT OneSignal
INVARIANT ClaimsAgree
INVARIANT EdgesAreFreed
PROPERTY CallerIsSignalled
CHECK_DEADLOCK FALSE
