CONSTANTS
    Handles = {h1}
    Plans <- OneMapper
    NoHandle = NoHandle
    NoEvent = NoEvent
    MaxConcurrent = 1
    NestedHandles = FALSE
    ResolverMayThrow = TRUE
SPECIFICATION FairSpec
PROPERTIES HandleSettles
CHECK_DEADLOCK FALSE
