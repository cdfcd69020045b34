SPECIFICATION FairSpec
CONSTANTS
    MaxRevision = 2
    MaxClients = 2
    MaxFaults = 1
INVARIANT OneStart
INVARIANT CursorsAgree
PROPERTY ObligationIsMetWithoutFaults
CHECK_DEADLOCK FALSE
