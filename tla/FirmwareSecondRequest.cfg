CONSTANTS
    r1 = r1
    r2 = r2
    Requests <- TwoRequests
    NoRequest = NoRequest
    MaxReports = 1
SPECIFICATION FairSpec
PROPERTY AcceptedIsReported
