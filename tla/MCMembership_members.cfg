CONSTANTS
    Identities = {i1, i2, i3}
    Emails = {e1, e2}
    None = None
    MaxUsers = 4
SPECIFICATION Spec
SYMMETRY LoginSymmetry
INVARIANTS
    TypeOK EmailsLeadToUsers IdentitiesLeadHome
CHECK_DEADLOCK FALSE
