\* One tab against one generation: overflowing queue, lost connection, Stop,
\* retry of the response, sign-out, deletion; every end of the generation.
CONSTANTS
    Readers = {r1}
    QueueSize = 2
    MaxStreams = 1
    MaxSeq = 3
    MaxDrops = 1
SPECIFICATION FairSpec
INVARIANTS ViewIsDraft FinalViewIsStored CloseEndsStream
PROPERTIES EveryoneLearnsTheEnd
CHECK_DEADLOCK FALSE
