\* Two handles that move between a key with a handler and one without.
SPECIFICATION Spec
CONSTANTS
    h1 = h1
    h2 = h2
    Handle <- MCHandle
    Key = {k1, k2}
    Unhandled = {k2}
    Reentrant = {"refresh", "startListening", "close"}
    MaxItems = 2
    MaxListeners = 3
    MaxEvents = 1
    MaxRefreshes = 1
SYMMETRY MCSymmetry
INVARIANTS
    TypeOK
    
    
