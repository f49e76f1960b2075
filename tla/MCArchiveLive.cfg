\* One worker; with conversion, four of the five ways a streamer is treated;
\* without, all five, two changes of configuration and a crash.
SPECIFICATION FairSpec
CONSTANTS
    Clips = {c1}
    Workers = {w1}
    MaxAttempts = 1
    Sweeps = TRUE
    AppendFails = TRUE
    None = None
    UsedConfigs <- MCLive
    MaxChanges = 2
    MaxCrashes = 1
PROPERTIES
    
    ClaimsAreReleased
ACTION_CONSTRAINT Bounded
