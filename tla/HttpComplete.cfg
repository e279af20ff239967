\* One response, read in chunks as a browser does.
SPECIFICATION Spec
CONSTANTS
    MaxRequests = 2
    MaxEvents = 2
    Bodies = {"reader"}
INVARIANTS
    OutputComplete
CHECK_DEADLOCK FALSE
