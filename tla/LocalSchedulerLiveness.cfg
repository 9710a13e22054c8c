SPECIFICATION FairSpec
CONSTANTS
    Ids = {"a"}
    Schedules <- MCSchedules
    NextExecutionDate <- MCNextExecutionDate
    Options <- MCOnlyCatchUp
    DefaultOptions <- MCDefault
    Schedulables <- MCTagged
    TaggedSchedule <- MCTaggedSchedule
    External = {main}
    SelfStopPhases = {"sync"}
    InvalidInput = FALSE
    JumpTargets = {}
    MAX_TIMEOUT_DELAY = 2
    MaxTime = 4
    MaxInFlight = 1
PROPERTIES
    StopResolves
    OccurrenceHandled
