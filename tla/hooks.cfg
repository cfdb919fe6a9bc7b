SPECIFICATION Spec
CONSTANTS
    tasks = tasks  other = other  outside = outside  glob = glob
    Procs = {p1}
    Paths = {tasks, other, outside, glob}
    Inside = {tasks, other, glob}
    Patterns = {glob}
    NoPath = NoPath
    Uses <- MCUses
    Harmless <- MCHarmless
    Files = {tasks, outside}
    Sources = {tasks}
    Inventories <- MCInventories
    Versions = {"here", "there"}
    Supported = {"here"}
    Session = "here"
    MixedUp = {"sound", "invalid", "lost"}
    None = None
INVARIANT ShutGateChangesNothing
INVARIANT FailsTheRightWay
 
