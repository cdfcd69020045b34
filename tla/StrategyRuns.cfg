SPECIFICATION FairSpec
CONSTANTS
    None = None
    Definitions <- Every
    Outcomes = {"success", "transient", "authority", "in-doubt"}
    MaxAsks = 1
    MaxFaults = 1
    MaxCrashes = 1
INVARIANTS RunInv LineagesInv GraphIsFollowed NoWedge
PROPERTIES SettledStays OutcomesStay DrivesReturn
CHECK_DEADLOCK FALSE
