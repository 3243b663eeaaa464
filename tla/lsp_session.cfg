SPECIFICATION Spec
CONSTANTS
    Lengths = {"ok", "short", "long", "invalid", "negative"}
    Kinds = {"request", "wrongShape", "exit"}
    RateLimitRequests = 1
    RateLimitWindow = 2
    MaxMessages = 3
    MaxTime = 2
CHECK_DEADLOCK FALSE
INVARIANTS
    TypeOK
    AnswersInOrder
    BurstAtMostTwice
PROPERTIES
    RequestIsAnswered
    EOFReturns
