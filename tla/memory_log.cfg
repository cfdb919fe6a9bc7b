SPECIFICATION FairSpec
CONSTANTS
    None = None  a1 = a1  m1 = m1
    Agents = {a1, a2, a3}
    Memories = {m1, m2}
    Readers <- MCReaders
    Expiring = {m1}
    MaxFaults = 1
    MaxKills = 1
    MaxSlow = 1
CHECK_DEADLOCK FALSE
 
INVARIANT ServedIsLogged
INVARIANT LogTellsTheStore
PROPERTY EveryWaitEnds
