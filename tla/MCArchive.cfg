\* One recording with its two files, two workers, the four ways a streamer is
\* treated, one crash.
SPECIFICATION Spec
CONSTANTS
    Clips = {c1}
    Workers = {w1, w2}
    MaxAttempts = 1
    Sweeps = TRUE
    AppendFails = TRUE
    None = None
    UsedConfigs <- MCConfigs
    MaxChanges = 0
    MaxCrashes = 1
INVARIANTS
    TypeOK
    
    HashMeansStored
    ClaimMeansStored
SYMMETRY MCWorkers
