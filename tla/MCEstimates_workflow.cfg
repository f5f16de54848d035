SPECIFICATION Spec
CONSTANTS
    Contents = {c1}
    ValidDays = {0}
    JobStatuses = {"estimating", "approved"}
    None = None
    DatelessDays = {d1}
    MaxJobs = 1
    MaxEstimates = 3
    MaxTokens = 3
    MaxDay = 1
INVARIANTS
    TypeOK
    ShareLinksResolve
    LedgerAgrees
    AnsweredInTime
    LinearHistory
    OnlyLatestIsOpen
    ChainsWalkBack
    CurrentIsNotOutdated
PROPERTIES
    RetiredLinksStayRetired
CONSTRAINT OneIsDateless
CHECK_DEADLOCK FALSE
