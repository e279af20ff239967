\* Three requests; the second cannot be serialized and, when queued, strands the third.
SPECIFICATION FairSpec
CONSTANTS
    MaxRequests = 3
    MaxItems = 1
    Unserializable = {2}
INVARIANTS
    TypeOK
    
    ErrorsExplained
    NoOutputOpenAfterClose

    
CHECK_DEADLOCK FALSE
