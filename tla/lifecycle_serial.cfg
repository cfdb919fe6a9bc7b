SPECIFICATION Spec
CONSTANTS
    r1 = r1  r2 = r2  w1 = w1  w2 = w2  w3 = w3
    tasks = tasks  plain = plain  asking = asking
    NoPath = NoPath  Missing = Missing  NoState = NoState
    Procs = {p1}
    Calls = {r1, w1, w2}
    Class <- MCClass
    Fingerprint <- MCFingerprint
    Target <- MCTarget
    Base <- MCBase
    Paths = {tasks}
    TaskFile = tasks
    Contents = {plain, asking}
    PendingContents = {asking}
    Background = {}
    Correlated = FALSE
    Redeliver = FALSE
    KeepUnfinished = 3
    KeepCompleted = 2
    KeepEvents = 1
    MaxEpochs = 2
    MaxTurns = 1
    MaxEdits = 0
    MaxFaults = 1
INVARIANT CompactionIsCaptured
INVARIANT DoubtBlocksValidation
INVARIANT JournalDistinct
PROPERTY GateHolds
PROPERTY NoReplay
PROPERTY KeepsGate
