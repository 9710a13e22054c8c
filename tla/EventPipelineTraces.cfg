CONSTANTS
    Handles = {h1, h2}
    Plans <- OneMapper
    NoHandle = NoHandle
    NoEvent = NoEvent
    MaxConcurrent = 2
    NestedHandles = FALSE
    ResolverMayThrow = FALSE
SPECIFICATION Spec
INVARIANTS TraceIsolation
CHECK_DEADLOCK FALSE
