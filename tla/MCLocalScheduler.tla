-------------------------- MODULE MCLocalScheduler --------------------------
(* Small instances of LocalScheduler for TLC. *)
EXTENDS LocalScheduler

\* A schedule is the set of its occurrences: a DateSchedule has one, a
\* CronSchedule several.  The exception is the last minute of an hour that the
\* clock repeats, when 3 and 4 have the local times of 1 and 2: the search from 2
\* goes on at 3, looks for the local time of 2, and finds 2 itself.
Repeated == {2, 4}
NextIn(s, t) ==
    LET later == {u \in s : u > t}
    IN  IF later = {} THEN Undefined
                      ELSE CHOOSE u \in later : \A v \in later : u <= v

MCNextExecutionDate ==
    [s \in Schedules |-> [t \in Times |-> IF s = Repeated /\ t = 2 THEN 2 ELSE NextIn(s, t)]]

MCSchedules   == {{1, 2, 4}, Repeated}

MCDefault     == [allowOverlap |-> FALSE, catchUp |-> FALSE, missedThreshold |-> 1]
MCCatchUp     == [allowOverlap |-> FALSE, catchUp |-> TRUE, missedThreshold |-> 0]
MCOverlapping == [allowOverlap |-> TRUE, catchUp |-> FALSE, missedThreshold |-> 0]
MCOptions     == {MCCatchUp, MCOverlapping}
MCOnlyCatchUp == {MCCatchUp}

MCTagged         == {<<"a">>}
MCTaggedSchedule == [id \in Ids |-> CHOOSE s \in Schedules : TRUE]
=============================================================================
