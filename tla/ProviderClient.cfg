\* Answers of up to two blocks and two characters, one retry of each kind.
CONSTANTS
    MaxBlocks = 2
    MaxChars = 2
    MaxAttempts = 2
    MaxTries = 2
    MaxText = 5
SPECIFICATION Spec
INVARIANTS AcceptsTheProtocol DraftIsDocument CutsDoNotMatter
PROPERTIES AnswerEnds
CHECK_DEADLOCK FALSE
