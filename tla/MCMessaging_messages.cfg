CONSTANTS
    Tenants = {t1, t2}
    Phones = {p1}
    None = None
    MaxCustomers = 2
    MaxJobs = 1
    MaxMessages = 2
    MaxTaken = 1
SPECIFICATION Spec
SYMMETRY TenantSymmetry
INVARIANTS
    TypeOK MessagesAreListedOnce MessagesAreAboutTheirJobs StatusIsHonest
PROPERTIES
    DeletedMessagesStayDeleted InboundIsNeverGuessed
CHECK_DEADLOCK FALSE
