SPECIFICATION Spec
CONSTANTS
    Clips = {c1}
    Workers = {w1}
    MaxAttempts = 1
    Sweeps = FALSE
    AppendFails = FALSE
    None = None
    UsedConfigs <- MCForcedOn
    MaxChanges = 0
    MaxCrashes = 0
PROPERTIES
    UnsentOnlyIfSkipped
