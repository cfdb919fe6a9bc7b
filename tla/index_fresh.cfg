SPECIFICATION Spec
CONSTANTS
    small = small  other = other  large = large  blank = blank
    Gone = Gone  NoManifest = NoManifest  Free = Free
    Agents = {a1}
    Model <- SharedModel
    Files = {f1, f2}
    Contents = {small, large, blank}
    ChunkCount <- MCChunkCount
    FlushEvery = 2
    Locking = FALSE
    Returning = FALSE
    MaxEdits = 3
    MaxKills = 1
    MaxFaults = 1
INVARIANT SkippedIsStored
INVARIANT ReadyIsExact
SYMMETRY AnyFile
