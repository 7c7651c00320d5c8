SPECIFICATION FairSpec
CONSTANTS
    f1 = f1
    Followers = {f1}
    MaxLines = 2
    MaxAttempts = 2
    MaxFaults = 1
    MaxRetries = 2
    MaxTailLines = 2
    Budgets = {1, 2, 3}
CHECK_DEADLOCK FALSE
INVARIANTS
    OpenLogExplained
    
PROPERTIES
    DoneAfterLastLine
    FollowersEnd
    LinesReachFollowers
    Collected
