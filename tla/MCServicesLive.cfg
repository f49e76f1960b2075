\* What has to happen, for the services whose goroutines wait on each other
\* (MCServices.tla); the other services rest.
SPECIFICATION FairSpec
CONSTANTS
    Parts = {"hub", "pacing", "status", "recording"}
    Tokens = {t1, t2}
    Requests = {r1, r2}
    Credentials = {"a", "b"}
    MaxRestarts = 2
    Logins = {l1, l2}
    MaxAttempts = 2
    MaxLogins = 9
    Uploads = {u1, u2, u3}
    Earlier = {u1}
    Cap = 2
    MaxStarts = 2
    Writers = {w1, w2}
    MaxChanges = 3
    MaxBoots = 2
    MaxTime = 5
    Intervals = {0, 2, 3}
    DefaultInterval = 3
    Recipients = {m1, m2}
    Ranks = {1, 2, 3, 4}
    MaxOffer = 2
    Watchers = {p1, p2}
    HealthLoop = hl
    ErrorLimit = 2
    MaxErrors = 3
    MaxUpdates = 3
    Streamers = {1, 2}
    BotHandlers = {h1, h2}
    PageSize = 1
    SearchCap = 1
    MaxBackoff = 4
    MaxTaken = 3
    Clients = {c1, c2}
    SendCap = 1
    QueueCap = 1
    MaxBroadcasts = 1
    MaxPings = 1
    Rooms = {k1, k2}
    Gap = 2
    BaseHold = 2
    MaxHold = 4
    Recorders = {m1}
    Askers = {r1}
    MaxAsks = 2
    MaxWrites = 1
    Limits = {0, 1}
    Grace = 1
    FirstShots = 0
    MaxElapsed = 1
    MaxSessions = 1
    Seconds = 6
    Scores = {0, 2, 3}
    Threshold = 2
    Exits = {0, 1}
    Gaps = {1, 2}
    MinDurations = {1, 2}
    MaxDurations = {2, 3}
    PerClip = {1, 2}
    Pad = 1
PROPERTIES
    ConnectionsAreReleased
    ProbesGoOn
    PauseIsShown
    SessionsEnd
CHECK_DEADLOCK FALSE
