\* Texts of up to five pieces out of five sets of pieces.
SPECIFICATION TextSpec
CONSTANTS
    Word = {"a", "limit", "wait", "rename"}
    Alphabets <- MCAlphabets
    MaxPieces = 5
CHECK_DEADLOCK FALSE
INVARIANTS
    TokensTile
    BracketsPair
    ParseKeepsWords
    ThrowsInBrackets
    HandlerRoundTrips
