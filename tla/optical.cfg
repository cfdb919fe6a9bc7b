SPECIFICATION Spec
CONSTANTS
    tool = tool  hook = hook  reader1 = reader1  None = None
    TIERS <- MCTIERS  DENSITIES <- MCDENSITIES
    CLAUDE_PATCH = 28  PADDING_PX = 8  MAX_PAGES = 2  MARKER_CHARS = 3
    Texts <- MCTexts
    Tiers = {"standard"}  DEFAULT_TIER = "standard"
    Tools = {tool}  Hooks = {hook}  Readers = {reader1}
    MIN_PAYLOAD_CHARS = 8000  HOOK_MIN_CHARS = 10000  HOOK_DENSITY = "balanced"
    DENSITY_CEILING = 18
    MaxCalls = 2  MaxPrunes = 1  MaxDamage = 1
CHECK_DEADLOCK FALSE
INVARIANT HandedOutIsThere
INVARIANT RetrieveIsExact
INVARIANT PagesShowText
INVARIANT CostIsProjected
