CONSTANTS
    r1 = r1
    r2 = r2
    Requests <- TwoRequests
    NoRequest = NoRequest
    MaxReports = 3
SPECIFICATION FairSpec
INVARIANTS
    TypeOK
    ReportsEnd
    NoThreadAfterDestructor
PROPERTY ProgressEnds
