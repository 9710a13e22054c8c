CONSTANTS
    Parts = {"cron", "lines", "rows", "search", "mappers", "http", "load", "environment", "mapping", "automap",
             "commands", "logs",
             "migrations", "handles", "tokens", "console", "tracing", "stacks", "table", "builds"}
    Undefined = Undefined
    Error = Error
    Unused = Unused
    c1 = c1
    c2 = c2
    c3 = c3
    Runners = {c1, c2}
    NumMigrations = 2
    Versions = {1, 2}
    MaxStarts = 2
    Absent = Absent
    Callers = {c1, c2, c3}
    MaxHandles = 4
    PragmaFails = FALSE
    NoHandle = NoHandle
    Sources = {"one", "two"}
    Configs <- BuildConfigs
    Tsconfigs = {"esm", "cjs"}
    MaxEdits = 2
    MaxProcesses = 3
    Unset = Unset
    Deployers = {c1, c2}
    Templates = {1, 2}
    MaxDeployments = 2
    Nil = Nil
    Requesters = {c1, c2}
    NumKeys = 2
    PageSize = 1
    MaxCalls = 3
    NullValue = NullValue
    Providers = {"auth0", "cognito", "identity-platform"}
    Requests = {c1, c2}
    Tokens <- ClientTokens
    Audience = "own"
    Scope = "scope"
    MaxKey = 3
    MaxTime = 1
    Nothing = Nothing
    None = None
    Exchanges <- ExchangeCases
    Unsent = Unsent
    VoterLists <- UpToThreeVoters
    GuardCases <- GuardInputs
    JwtRequests <- JwtInputs
    MaxAttempts = 3
    SecondsPerMinute = 2
    MinutesPerHour = 2
    HoursPerDay = 3
    MonthDays <- ThreeAndTwo
    LeapYears = {0, 2, 5}
    Years = 9
    DaysPerWeek = 3
    MAX_SCAN_YEARS = 3
SPECIFICATION Spec
INVARIANTS CronFindsTheFirst DatabasesAreSound EventsAreMappedOnce AnswersFollowPolicy ConfigurationIsFaithful
    MappingsAgree CommandsGetTheirOptions BuildsAreCurrent AuthorizationIsStrict TelemetryIsWhole AwsIsSound
CHECK_DEADLOCK FALSE
