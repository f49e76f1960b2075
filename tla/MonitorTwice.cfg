\* A streamer is deleted and added again.
SPECIFICATION Spec
CONSTANTS
    Monitors = {m1, m2}
    Requests = {r1}
    Ops = {"delete", "add"}
    Flags = {hd}
    OffFlags = {}
    MaxCommands = 2
    None = None
INVARIANTS
    OneRecorder
