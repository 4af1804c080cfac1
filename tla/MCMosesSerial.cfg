SPECIFICATION FairSpec
CONSTANTS
    t1 = t1  t2 = t2  king = king  gray = gray
    None = None
    Runs = {t1}
    AllNames <- KingGray
    Ordered <- King
    Extras <- MaybeGray
    Validated = {king}
    Threshold = 3
    Timeout = 2
    DLQMax = 2
INVARIANT TypeOK
INVARIANT ReportConsistent
PROPERTY CircuitSpec
PROPERTY FailingAgentTrips
