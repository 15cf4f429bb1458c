SPECIFICATION FairSpec
CONSTANTS
    a = a
    b = b
    c = c
    theCard = theCard
    theChat = theChat
    NoChat = NoChat
    NoCard = NoCard
    Requests = {a, b, c}
    Mutations <- MCMutations
    Outcomes = {"succeeded", "rejected", "cancelled", "no_answer", "rate_limited", "forbidden", "unauthorized"}
    RetryAfters = {0, 3}
    serverBackoff <- MCBackoff
    cadenceInterval <- MCCadence
    globalMutationLimit = 3
    second = 3
    minRateLimit = 2
    FreeTime = 1
    MaxTime = 16
    MaxFaults = 1
    MaxRestarts = 1
INVARIANTS
    SchedulerTypeOK
    StartsAreSpaced
    
    RateLimitIsObeyed
    
    NewestEditIsLast
PROPERTIES
    EveryRequestEnds
CHECK_DEADLOCK FALSE
