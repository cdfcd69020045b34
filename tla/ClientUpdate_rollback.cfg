CONSTANTS
    Versions = {1, 2}
    a = a
    b = b
    Domains <- MCDomains
    Frontier <- MCFrontier
    Databases <- MCDomains
    Creating = {a}
    Found <- MCAbsent
    Procs = {p, q}
    MaxCrashes = 0
    MaxFaults = 0
    MaxInstalls = 0
    MaxStarts = 2
SPECIFICATION Spec
PROPERTY RestoreOnlyBeforeClaim
CHECK_DEADLOCK FALSE
