CONSTANTS
    Handles = {h1, h2}
    Plans <- OneMapper
    NoHandle = NoHandle
    NoEvent = NoEvent
    MaxConcurrent = 1
    NestedHandles = FALSE
    ResolverMayThrow = FALSE
SPECIFICATION FairSpec
PROPERTIES HandleSettles
INVARIANTS TracesAreOwn
CHECK_DEADLOCK FALSE
