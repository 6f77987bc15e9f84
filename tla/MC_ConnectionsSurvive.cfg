SPECIFICATION Spec
CONSTANTS
    Services = {"connections"}
    Admins = {a1, a2}
    Callers = {c1, c2}
    NoKey = NoKey
    MaxKeys = 3
    ConnIds = {id1, id2, id3}
    Labels = {l1, l2, l3}
    NoConn = NoConn
    SyncObjs = {s1, s2}
    Runs = {r1, r2}
    Clients = {u1, u2}
    NoRun = NoRun
    NoJob = NoJob
    MaxConcurrency = 1
    NumObjs = 2
    NumTasks = 2
    Editors = {e1}
    NoBackup = NoBackup
    WholeBucket = FALSE
    Cadences <- Retention
    MaxClock = 2
    MaxSchedules = 1
    MaxStarts = 2
    MaxEdits = 1
    Deliveries = {d1, d2}
    Emitters = 2
    Owners = {o1}
    NoHook = NoHook
    QueueCap = 1
    Attempts = 2
    AutoDisableThreshold = 2
    InviteIds = {i1, i2}
    Redeemers = {p1, p2}
    NoInvite = NoInvite
    MaxTokens = 2
    MaxAccounts = 3
    Visitors = {v1, v2, v3}
    NoShare = NoShare
    DownloadLimit = 2
    NumLoops = 2
    NumWatchdogs = 2
    Handlers = {h1, h2}
    Users = {"root", "ann"}
    EnvAdmin = "root"
    Rights = {"host", "all", "team"}
    OwnRights = {"team"}
    SeedRights <- Wants
    Targets = {t1, t2}
    Slack = 1
    EventDeletes = TRUE
    MaxTime = 2
    MaxVersion = 2
    MaxEpoch = 1
PROPERTIES
    ConnectionsSurvive
CHECK_DEADLOCK FALSE
