SPECIFICATION FairSpec
CONSTANTS
    c1 = c1  c2 = c2  None = None
    Calls = {c1, c2}
    Base <- MCBase  Wanted <- MCWanted
    Edits = {c1}
    UserFiles <- MCUserFiles
    LinkAnswers = {TRUE, FALSE}
    API_ATTEMPT_TIMEOUT = 4  OPERATION_DEADLINE = 5  RETRY_MIN_REMAINING = 2
    MAX_API_ATTEMPTS = 2  FIRST_COLLISION_SUFFIX = 2  MAX_COLLISION_SUFFIX = 3
    Statuses = {400, 401, 403, 404, 429, 500, 504}
    Backoffs = {0}  RetryAfters <- MCRetryAfters  MAX_RETRY_AFTER = 1
    Readings = {0, 1, 5}
    MaxFaults = 2  MaxKills = 1
CHECK_DEADLOCK FALSE
INVARIANT ReportIsTrue
INVARIANT NoPartLeft
INVARIANT PaidOnce
INVARIANT TimeIsKept
PROPERTY NeverOverwritten
PROPERTY EveryCallEnds
