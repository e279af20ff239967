\* A Window of 16 s.  Five attempts with the longest delay between them, 4 s, are
\* within it, as they are within the 30 s of the code.
SPECIFICATION FairSpec
CONSTANTS
    Window = 32
    MaxStrays = 2
INVARIANTS
    TypeOK
    OneSocket
    FiveInWindow
PROPERTIES
    StopsOnlyWhen
    Reconnects
