SPECIFICATION FairSpec
CONSTANTS
    Tasks = {query, command}
    Queries = {query}
    NoCaller = nobody
CHECK_DEADLOCK FALSE
INVARIANTS TypeOK CommandOutcomeHonest AttemptsBounded
PROPERTIES RejectedTokenNotReused EveryCallEnds
