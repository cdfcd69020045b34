SPECIFICATION Spec
CONSTANTS
    Members = {m1, m2}
    Posts = {1}
    Sends = {3}
    Requests = {r1}
    MaxTracked = 2
    MaxCrashes = 0
    MaxReopens = 0
    MaxFaults = 0
    MaxLeaves = 1
    m1 = m1
    m2 = m2
    r1 = r1
INVARIANT LiveTurnsAreWhole
CHECK_DEADLOCK FALSE
