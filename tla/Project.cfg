SPECIFICATION ProjectSpec

CONSTANTS
    t1 = t1
    t2 = t2
    c1 = c1
    c2 = c2
    e1 = e1
    m1 = m1
    m2 = m2
    Tasks = {1, 2, 3}
    MaxAttempts = 2
    Faults = {}
    NoPlan = NoPlan
    Plans <- Schedules
    RoleScopes <- RoleDeclares
    AgentScopes <- AgentDeclares
    RecipeScopes <- RecipeDeclares
    SamplePaths <- Paths
    SampleTools <- ToolNames
    SampleVariables = {"PATH", "TOKEN"}
    TeamAgents = {"a", "b"}
    ExtraRoles = {"docs"}
    ClassOf <- ClassOfExtra
    Permitted <- Permissions
    Configs <- TwoConfigs
    Proposals <- Answers
    TeamRecipes <- TwoRecipes
    AskedTeams <- TwoTeams
    MaxPlanTasks = 3
    MaxPlanTries = 2
    Clients = {c1, c2}
    AgentNames = {"a", "b"}
    CustomRoles = {"docs"}
    Servers = {"s"}
    RecipeIds = {"x"}
    FirstDocument <- OldDocument
    MaxWrites = 2
    Editors = {e1}
    Patches <- SomePatches
    Replans <- SomeReplans
    MaxRows = 5
    MaxRevision = 3
    Tabs = {t1, t2}
    DevOrigins <- DevServer
    Origins <- BothServers
    Lifetime = 1
    MaxNow = 1
    MaxBoots = 2
    MaxTokens = 4
    Engines = {m1, m2}
    PathOrder <- PathsAscending
    CodePaths <- RustFiles
    TestPaths <- TestFiles
    WordsOf <- WordsInPath
    PairsWith <- TestOf
    TextOf <- FileTexts
    NameRest <- LongerName
    FirstContent <- FirstFiles
    Beginnings <- ContextBeginnings
    MaxFiles = 2
    MaxCandidates = 9
    MaxTests = 1
    MaxLinked = 3
    MaxPairs = 2
    MaxMatched = 2
    ReadLimit = 5
    MaxIndexEntries = 3
    ScanBudget = 5
    Importers = {1}
    Repositories = {"o/a", "o/b"}
    RepositoryOf <- UrlSlugs
    RemoteSets <- OtherRemotes
    FirstRemotes <- UpstreamFirst
    References <- IssuesAsked
    Histories <- SomeHistories
    MaxIssues = 1
    MaxComments = 1
    MaxPlannings = 2
    MaxRuns = 1
    MaxEditions = 2
    MaxStops = 1

INVARIANTS
    ScheduleSound PolicySound IntakeSound  StoredPlanSound 
     IssuesSound
PROPERTIES
    LayersNarrow EditsAreSafe
CHECK_DEADLOCK FALSE
