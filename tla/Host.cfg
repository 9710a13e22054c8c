CONSTANTS
    Parts = {"kernel", "verification", "http", "shutdown", "mcp", "client"}
    Modules = {app, http, net, log}
    AppModule = app
    Graphs <- TreesAndShared
    Hooked = {app, http, log}
    Callers = {c1, c2}
    NoModule = NoModule
    PerHookTimeout = TRUE
    app = app
    http = http
    net = net
    log = log
    MaxTests = 2
    Sockets = {s1, s2, s3}
    MaxGenerations = 2
    MaxBodySize = 2
    NoServer = NoServer
    RestartWhileDraining = FALSE
    Servers <- SchedulersOnly
    Singletons = {"scheduler", "worker"}
    SelfCutting = {"worker"}
    Hooks <- SchedulerHooks
    Work = {w1, w2, w3}
    HookTimeout = 10
    HardExitTimeout = 30
    Nothing = Nothing
    Messages <- McpMessages
    Headers <- McpHeaders
    Tools = {t1, t2}
    Allowed = {t1}
    MaxMessages = 2
    ReuseIds = FALSE
    None = None
    t1 = t1
    t2 = t2
    Responses <- AllResponses
    Options <- AllOptions
    MaxSent = 9
    NoResponse = NoResponse
SPECIFICATION FairSpec
INVARIANTS ImportsFirst StopIsOrderly ReportIsFaithful ConnectionsAreTracked ShutdownIsClean McpIsSound
    RequestsAreBounded
PROPERTIES HttpServerKeepsContract ServersKeepContract PromisesSettle
CHECK_DEADLOCK FALSE
