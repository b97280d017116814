\* Turns of one or three tokens against a budget of five.
CONSTANTS
    Sizes = {1, 3}
    NoteSizes = {1, 2}
    Budget = 5
    FixedChat = 1
    FixedSummary = 1
    FixedHandoff = 3
    Recent = 3
    MinRecent = 2
    MaxMessages = 6
SPECIFICATION FairSpec
INVARIANTS RequestsFit SummaryIsExact ModelSeesEverything
PROPERTIES CompactionEnds
CHECK_DEADLOCK FALSE
