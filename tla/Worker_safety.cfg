SPECIFICATION Spec
CONSTANTS
    b1 = b1
    b2 = b2
    r1 = r1
    r2 = r2
    None = None
    Builds = {b1, b2}
    MaxOutput = 2
    ChanCap = 1
    SpoolCap = 1
    Retirers = {r1, r2}
    SampleCap = 1
    Events = {"revoke", "reject", "sigterm", "spool_error", "stream_error", "drop"}
CHECK_DEADLOCK FALSE
SYMMETRY Symmetry
INVARIANTS TypeOK QuietWhenFree RegisterNeverBusy OutputOrder TerminalLast
