SPECIFICATION FairSpec
CONSTANTS
    b1 = b1
    b2 = b2
    r1 = r1
    r2 = r2
    None = None
    Builds = {b1}
    MaxOutput = 2
    ChanCap = 4
    SpoolCap = 2
    Retirers = {r1, r2}
    SampleCap = 1
    Events = {"revoke", "reject", "sigterm", "spool_error", "stream_error", "drop", "metrics"}
CHECK_DEADLOCK FALSE
PROPERTIES FinishReported Retired RevokeEnds
