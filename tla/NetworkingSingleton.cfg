CONSTANTS
    open = open
    guarded = guarded
    missing = missing
    defect = defect
    garbled = garbled
    broken = broken
    a = a
    b = b
    x = x
    y = y
    any = any
    get = get
    put = put
    MaxRoutes = 3
    private = private
    read = read
    list = list
    update = update
    trace = trace
    mapping = mapping
    r1 = r1
    r2 = r2
    h1 = h1
    h2 = h2
    Keynames <- KeyPairs
    RequestHashes <- HashPairs
    Requests = {r1, r2}
    Keys <- AllKeys
    Hashes = {h1, h2}
    Nodes <- AllNodes
    NodeOf <- FoundNodes
    Identities = {alice}
    Interceptors <- InterceptorOrder
    Hooks <- HookSets
    Guards <- GuardCounts
    Authenticated <- AuthenticatedNodes
    Unresolvable <- UnresolvableNodes
    Malformed <- MalformedKeys
    SingletonAuthenticator = TRUE
    NoNode = NoNode
    NoIdentity = NoIdentity
    NoArguments = NoArguments
    NoError = NoError
    Unset = Unset
    Unhashable = Unhashable
    InvalidUrl = InvalidUrl
SPECIFICATION NetworkingSpec
INVARIANT OptionsAreOwn
CHECK_DEADLOCK FALSE
