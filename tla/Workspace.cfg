\* Two turns of two typed messages, or a turn with its retry or a handoff; one
\* answer is lost or one conversation deleted.
CONSTANTS
    MaxThreads = 2
    MaxGens = 2
    MaxDrafts = 2
    MaxHandoffs = 1
    MaxFaults = 1
    MaxLoads = 2
    MaxPosts = 2
    MaxUnderWay = 3
SPECIFICATION Spec
INVARIANTS SettledViewIsComplete OneTurnPerMessage HandoffSeenOrStopped
CHECK_DEADLOCK FALSE
