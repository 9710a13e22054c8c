SPECIFICATION Spec
CONSTANTS
    Ids = {"a"}
    Schedules <- MCSchedules
    NextExecutionDate <- MCNextExecutionDate
    Options <- MCOptions
    DefaultOptions <- MCDefault
    Schedulables <- MCTagged
    TaggedSchedule <- MCTaggedSchedule
    External = {main}
    SelfStopPhases = {"async"}
    InvalidInput = TRUE
    JumpTargets = {1, 4}
    MAX_TIMEOUT_DELAY = 2
    MaxTime = 4
    MaxInFlight = 2
INVARIANTS
    TypeOK
    NoSelfOverlap
    OccurrencesInOrder
    TimerDiscipline
PROPERTIES
    SchedulerKeepsContract
