\* Two requests, in one batch or two, and both kinds of response body.  A handler
\* closes its stream at once, or after an item or a done event.
SPECIFICATION FairSpec
CONSTANTS
    MaxRequests = 2
    MaxEvents = 2
    Bodies = {"reader", "readable"}
INVARIANTS
    TypeOK
    
    ResponseEndsLast
PROPERTIES
    RequestSettles
CHECK_DEADLOCK FALSE
