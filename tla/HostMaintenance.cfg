\* Scripts killed, reboots and failing commands between any two commands, or a
\* container that docker cannot stop.
CONSTANTS
    i1 = i1
    i2 = i2
    i3 = i3
    Images <- MCImages
    HeadOf <- MCHeadOf
    None = None
    Faults = {"kill", "reboot", "stop", "error"}
    MaxFaults = 2
    MaxWrites = 2
    MaxRuns = 3
SPECIFICATION Spec
INVARIANTS ServedDataComplete NothingDestroyed GateOnlyAfterUnfinishedScript
CHECK_DEADLOCK FALSE
