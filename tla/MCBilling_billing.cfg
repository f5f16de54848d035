CONSTANTS
    Contents <- TwoOffers
    Edits <- SomeEdits
    Deltas <- MarkupChanges
    ValidDays = {0}
    JobStatuses = {"estimating", "approved"}
    Users = {u1}
    Rates = {0}
    None = None
    DatelessDays = {}
    MaxJobs = 1
    MaxEstimates = 2
    MaxTokens = 2
    MaxEntries = 1
    MaxDay = 0
    MaxTime = 0
SPECIFICATION BillingSpec
INVARIANTS
    PricesAddUp
PROPERTIES
    SentIsARecord FinalIsFinal NewestIsBilled TimeTrackingIsKept
CONSTRAINT MembersStay
CHECK_DEADLOCK FALSE
