\* A unique id and a group that items share; two streams and up to three events.
SPECIFICATION FeedSpec
CONSTANTS
    Attr = {"id", "group"}
    Multi = {"group"}
    Primary = "id"
    MaxValue = 2
    Items <- MCItems
    Input = {"first", "second"}
    Waiter = {"w"}
    MaxEvents = 2
CHECK_DEADLOCK FALSE
INVARIANTS
    ContentsFollow
    ObserverFollows
PROPERTY
    WaitersSettle
