SPECIFICATION Spec
CONSTANTS
    r1 = r1  r2 = r2  w1 = w1  w2 = w2  w3 = w3
    tasks = tasks  plain = plain  asking = asking
    NoPath = NoPath  Missing = Missing  NoState = NoState
    Procs = {p1, p2}
    Calls = {r1}
    Class <- MCClass
    Fingerprint <- MCFingerprint
    Target <- MCTarget
    Base <- MCBase
    Paths = {tasks}
    TaskFile = tasks
    Contents = {plain, asking}
    PendingContents = {asking}
    Background = {r1}
    Correlated = FALSE
    Redeliver = TRUE
    KeepUnfinished = 4
    KeepCompleted = 4
    KeepEvents = 1
    MaxEpochs = 2
    MaxTurns = 0
    MaxEdits = 1
    MaxFaults = 0
INVARIANT EvidenceBehindValidation
SYMMETRY Interchangeable
