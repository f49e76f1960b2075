\* One streamer, two monitors, one request at a time, two commands.
SPECIFICATION Spec
CONSTANTS
    Monitors = {m1, m2}
    Requests = {r1}
    Ops = {"pause", "resume", "delete", "add", "addPaused", "setFlags", "restart", "pauseAll", "resumeAll", "edit"}
    Flags = {hd, sd}
    OffFlags = {}
    MaxCommands = 2
    None = None
INVARIANTS
    FlagsApplied
    ReloadStops
