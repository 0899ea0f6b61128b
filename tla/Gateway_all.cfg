SPECIFICATION GatewaySpec
CONSTANTS
    r1 = r1  r2 = r2  c1 = c1  c2 = c2
    f1 = f1  f2 = f2  k1 = k1  k2 = k2  k3 = k3
    Runs = {r1, r2}
    Clients = {c1, c2}
    Casts <- MCCasts
    StreamCap = 1
    BufferMaxLen = 2
    MaxSteps = 3
    MaxConnects = 2
    MaxFaults = 1
    Flows = {f1, f2}
    TaskIds = {1, 2, 3}
    RunIds = {1, 2, 3}
    Limits = {0, 2}
    MaxPageSize = 2
    Window = 2
    Clicks = {k1, k2, k3}
    Bounds <- MCBounds
    MaxNow = 2
    Callers = {a1, a2}
    Modules <- MCModules
    Content <- MCContent
    Registries <- MCRegistries
    CiRegistries <- MCCiRegistries
    MaxMerges = 2
    MaxRestarts = 1
CHECK_DEADLOCK FALSE
INVARIANTS
    ViewersSeeTheRun
    WalksMissNothing
    ClicksAreCounted
    ImportsWereReviewed
PROPERTY
    FinishedRunsEndTheirStreams
