SPECIFICATION Spec
CONSTANTS
    Slugs = {"acme", "bolt"}
    Roles = {"member"}
    None = None
    MaxIds = 5
INVARIANTS
    TypeOK SlugsLeadHome NothingDangles
PROPERTIES
    TenantsKeepApart
CHECK_DEADLOCK FALSE
