CONSTANTS
    Handles = {h1, h2}
    Plans <- TwoMappers
    NoHandle = NoHandle
    NoEvent = NoEvent
    MaxConcurrent = 2
    NestedHandles = TRUE
    ResolverMayThrow = TRUE
SPECIFICATION Spec
INVARIANTS TraceEndsOnce SequentialBatchesInOrder ResponseMeansAllDone
CHECK_DEADLOCK FALSE
