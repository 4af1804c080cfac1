SPECIFICATION FairSpec
CONSTANTS
    t1 = t1  t2 = t2  king = king  gray = gray
    None = None
    Runs = {t1, t2}
    AllNames <- King
    Ordered <- King
    Extras <- NoExtra
    Validated = {king}
    Threshold = 3
    Timeout = 2
    DLQMax = 2
INVARIANT ClosedIffBelowThreshold
PROPERTY FailuresLogged
PROPERTY EveryRunReports
PROPERTY OpenIsTemporary
