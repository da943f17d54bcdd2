SPECIFICATION WorkSpec

CONSTANTS
    k1 = k1
    k2 = k2
    x = x
    y = y
    r1 = r1
    Tasks = {1, 2, 3}
    Plans <- SomePlans
    MaxAttempts = 2
    Hazards = {"stop", "conflict", "main"}
    Writers = {"implement"}
    MaxStops = 1
    RouteRuns = {r1}
    Pool <- TwoAgents
    NameRank <- Alphabetical
    Limit <- Alphabetical
    Facts <- SomeFacts
    ExplorationInterval = 2
    MaxDispatches = 3
    Calls = {k1, k2}
    Tools = {x, y}
    Exposures <- SomeExposures
    Permits <- OnePermit
    MaxConcurrency = 1
    CallTimeout = 1
    DiscoveryTimeout = 1
    Letters = {"a", "b"}
    SecretSets <- SomeSecrets
    CaptureLimit = 5
    MaxBytes = 6
    Shown <- TwoShown
    Worker = a
    Planner = p
    MaxTried = 2
    MaxRuns = 3
    PageSizes = {1}
    MeasuredTasks = {1, 2}
    MeasuredAgents = {"a", "b"}
    About <- TwoWorks
    Endings <- SomeEndings
    HowLanded = {"conflict"}
    Questions <- OneQuestion
    MinReliable = 2
    Week = 1
    Month = 2
    MaxPast = 2
    MaxDay = 1

INVARIANTS WorkIsKept WorkIsJudged RoutingSound ToolsSound StreamsSound ReadsSound MeasuresSound
PROPERTIES RunBranchGrows AuditFinal
CHECK_DEADLOCK FALSE
