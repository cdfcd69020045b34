SPECIFICATION FairSpec
CONSTANTS
    MaxRevision = 2
    MaxClients = 2
    MaxFaults = 0
PROPERTY ObligationIsMet
CHECK_DEADLOCK FALSE
