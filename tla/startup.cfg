\* Two processes, one of which checks for updates; a release, half-hour ticks, one
\* restart by the operator and one failure.
SPECIFICATION Spec
CONSTANTS
    p1 = p1
    p2 = p2
    Procs = {p1, p2}
    CheckOnStartup <- FirstChecks
    UsesKube = TRUE
    Ttl = 2
    MaxRelease = 2
    MaxTime = 3
    MaxStops = 1
    MaxFaults = 1
INVARIANT TypeOK
INVARIANT ServingHasSchema
INVARIANT SchemaInOrder
INVARIANT VerdictIsRecent
PROPERTY OneAnswerPerHour
PROPERTY EveryoneServes
CHECK_DEADLOCK FALSE
