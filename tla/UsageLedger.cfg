\* Two calls for one slot, failing writes and a crash.
CONSTANTS
    Calls = {c1, c2}
    Slots = 1
    MaxTries = 2
    BatchSize = 1
    MaxCandidates = 2
    MaxFaults = 1
    MaxCrashes = 1
SPECIFICATION FairSpec
INVARIANTS SlotsAccounted ChargedOnce CallIsOnTheLedger
PROPERTIES WaitEnds RequestIsServed
CHECK_DEADLOCK FALSE
