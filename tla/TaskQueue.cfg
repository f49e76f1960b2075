\* One scanner, as in the program; one slot in the channel and three paths, so
\* that a path can run, one wait and one be refused; one pause.
SPECIFICATION FairSpec
CONSTANTS
    Paths = {a, b, c}
    Workers = {w1, w2}
    Scanners = {s1}
    Cap = 1
    MaxPauses = 1
    None = None
INVARIANTS
    TypeOK
    HeldOnce
    MarksExact
PROPERTIES
    ImplementsClaimTable
    MarkIsReleased
    CancelDrains
CHECK_DEADLOCK FALSE
