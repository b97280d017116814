\* Four turns, with and without documents of one and of two blocks.
CONSTANTS
    char = char
    Break = Break
    docOne = docOne
    docTwo = docTwo
    None = None
    Deliverables <- MCDeliverables
    Additions <- MCAdditions
    Anchors <- MCAnchors
    Blocks <- MCBlocks
    Documents = {docOne, docTwo}
    BlockCount <- MCBlockCount
    MaxTurns = 4
    MaxOutput = 5
    MaxAttempts = 3
    MaxText = 5
    MaxPiece = 2
    MaxPieces = 3
SPECIFICATION Spec
INVARIANTS SavedIsShown ExportIsTheWork ReplacesAsMeant PatchSaysTheReplacement
CHECK_DEADLOCK FALSE
