\* Disciplined callers: the stream is a FIFO channel.
SPECIFICATION FairSpec
CONSTANTS
    Receiver = {r1, r2}
    NoReceiver = NoReceiver
    Reentrant = {"closeByDownstream"}
    AfterClose = FALSE
    MaxEvents = 5
    MaxDepth = 2
INVARIANTS
    OneReceiver
PROPERTIES
    ImplementsChannel
