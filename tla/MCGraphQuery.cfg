\* Up to two handlers, eight queries, up to three events.
SPECIFICATION Spec
CONSTANTS
    Word = {"a", "b", "c"}
    Graphs <- MCGraphs
    Queries <- MCQueries
    Params <- MCParams
    Results <- MCResults
    Items <- MCItems
    MaxEvents = 2
CHECK_DEADLOCK FALSE
INVARIANTS
    TypeOK
    
    ItemsAnswerQuery
    
    ExceptionsExplained
PROPERTY
    QuerySettles
