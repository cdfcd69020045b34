SPECIFICATION FairSpec
CONSTANTS
    Members = {m1}
    Posts = {1, 2}
    Sends = {}
    Requests = {r1, r2}
    MaxTracked = 2
    MaxCrashes = 1
    MaxReopens = 1
    MaxFaults = 1
    MaxLeaves = 0
    m1 = m1
    r1 = r1
    r2 = r2
INVARIANT SettlementInv
INVARIANT OpenDispatchOwned
PROPERTY OutcomeIsFinal
PROPERTY ImplementsTurnLifecycle
PROPERTY DispatchSettles
PROPERTY RequestAnswers
CHECK_DEADLOCK FALSE
