CONSTANTS
    Parts = {"shutdown"}
    Modules = {app, http, net, log}
    AppModule = app
    Graphs <- TreesAndShared
    Hooked = {app, http, log}
    Callers = {c1, c2}
    NoModule = NoModule
    PerHookTimeout = TRUE
    app = app
    http = http
    net = net
    log = log
    MaxTests = 2
    Sockets = {s1, s2, s3}
    MaxGenerations = 2
    MaxBodySize = 2
    NoServer = NoServer
    RestartWhileDraining = FALSE
    Servers <- HttpAndScheduler
    Singletons = {"scheduler"}
    SelfCutting = {"http"}
    Hooks <- HttpHooks
    Work = {w1, w2}
    HookTimeout = 10
    HardExitTimeout = 30
    Nothing = Nothing
    Messages <- McpMessages
    Headers <- McpHeaders
    Tools = {t1, t2}
    Allowed = {t1}
    MaxMessages = 2
    ReuseIds = FALSE
    None = None
    t1 = t1
    t2 = t2
    Responses <- AllResponses
    Options <- AllOptions
    MaxSent = 9
    NoResponse = NoResponse
SPECIFICATION Spec
INVARIANTS DrainBeforeExit
CHECK_DEADLOCK FALSE
