SPECIFICATION SearchFair
CONSTANTS
    a1 = a1  a2 = a2
    Gone = Gone  NoManifest = NoManifest  Free = Free
    Agents = {a1, a2}
    Model <- OwnModels
    Files = {f1}
    Contents = {small, other}
    ChunkCount <- OneChunk
    FlushEvery = 2
    Locking = TRUE
    Returning = FALSE
    MaxEdits = 1
    MaxKills = 1
    MaxFaults = 1
INVARIANT SearchFindsOwn
PROPERTY Heals
