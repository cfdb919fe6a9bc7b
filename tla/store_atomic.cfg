SPECIFICATION Spec
CONSTANTS
    None = None  Free = Free
    Procs = {p1, p2, p3}
    Values = {v1}
    Keys = {k1, k2, k3}
    Retention = 2
    Inodes = {i1}
    Purging = "alone"
    Killable = {"write", "append", "read"}
    MaxKills = 2
INVARIANT MutualExclusion
INVARIANT OnlyMarkedState
PROPERTY Implements
