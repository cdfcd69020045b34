CONSTANTS
    Versions = {1, 2}
    a = a
    b = b
    Domains <- MCDomains
    Frontier <- MCFrontier
    Databases <- MCDomains
    Creating = {a}
    Found <- MCFound
    Procs = {p, q}
    MaxCrashes = 1
    MaxFaults = 1
    MaxInstalls = 1
    MaxStarts = 2
SPECIFICATION Spec
INVARIANT RestartIsAdmitted
PROPERTIES HighWaterIsForward ReadyIsMigrated BackupKeptUntilClaim AdmissionEnds UpdateConcludes
CHECK_DEADLOCK FALSE
