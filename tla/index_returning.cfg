SPECIFICATION Spec
CONSTANTS
    small = small  other = other  large = large  blank = blank
    Gone = Gone  NoManifest = NoManifest  Free = Free
    Agents = {a1}
    Model <- SharedModel
    Files = {f1}
    Contents = {small, other}
    ChunkCount <- MCChunkCount
    FlushEvery = 2
    Locking = TRUE
    Returning = TRUE
    MaxEdits = 2
    MaxKills = 1
    MaxFaults = 0
INVARIANT SkippedIsStored
