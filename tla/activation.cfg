SPECIFICATION FairSpec
CONSTANTS
    r1 = r1
    r2 = r2
    None = None
    Repos <- MCRepos
    Operators = {o1}
    Hooks = {h1}
    Fields = {oauth}
    MaxStartups = 2
    Faulty <- MCFaulty
    Quiet = TRUE
    MaxFaults = 1
    MaxEdits = 1
INVARIANT TypeOK
INVARIANT ActiveIsObserved
PROPERTY ForeignIsKept
PROPERTY FailedEnableLeavesNothing
PROPERTY DriftStopsHost
CHECK_DEADLOCK FALSE
