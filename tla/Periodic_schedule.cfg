SPECIFICATION FairSpec
CONSTANTS
    MaxTasks = 2
    Handlers = {"s1"}
    Crons = {"daily", "hourly", "weekly"}
    Day = 2
    MaxRetry = 3
    MaxEdits = 3
    MaxFaults = 1
    Prompt = FALSE
    None = None
    Occurs <- OnceAndTwice
    FormatOf <- DateFieldUnknown
INVARIANTS
    PeriodicTypeOK
    
PROPERTIES
    RetryServed
    
