\* Any caller: callbacks re-enter the stream, producers go on after close.
SPECIFICATION Spec
CONSTANTS
    r1 = r1
    r2 = r2
    Receiver <- MCReceiver
    NoReceiver = NoReceiver
    Reentrant <- AllCalls
    AfterClose = TRUE
    MaxEvents = 5
    MaxDepth = 4
SYMMETRY MCSymmetry
INVARIANTS
    TypeOK
    EachEventOnce
    OvertakesOnlyDuringFlush
    NothingLostWhileOpen
