\* A unique id, a unique name and a group that items share.
SPECIFICATION Spec
CONSTANTS
    Attr = {"id", "name", "group"}
    Multi = {"group"}
    Primary = "id"
    ExplicitIds = FALSE
    MaxValue = 3
INVARIANTS
    TypeOK
    
    ReplicaFollows
