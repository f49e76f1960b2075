\* One path, one worker, one pause.
SPECIFICATION Spec
CONSTANTS
    Paths = {a}
    Workers = {w1}
    Scanners = {s1}
    Cap = 1
    MaxPauses = 1
    None = None
INVARIANTS
    PendingIsRight
CHECK_DEADLOCK FALSE
