SPECIFICATION Spec
CONSTANTS
    Members = {m1, m2}
    Calls = {c1}
    Edges <- OneEdge
    Tools = {"delegate", "cancel"}
    Timeouts = {TRUE, FALSE}
    Ends = {"completed", "failed", "cancelled"}
    MaxClaims = 1
    MaxDepth = 1
    Most <- OneTimeout
    MaxMishaps = 1
    m1 = m1
    m2 = m2
    c1 = c1
INVARIANT NoStrandedEdge
CHECK_DEADLOCK FALSE
