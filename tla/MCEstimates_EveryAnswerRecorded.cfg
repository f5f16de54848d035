SPECIFICATION Spec
CONSTANTS
    Contents = {c1, c2}
    ValidDays = {0, 1}
    JobStatuses = {"estimating", "approved"}
    None = None
    DatelessDays = {d1}
    MaxJobs = 1
    MaxEstimates = 2
    MaxTokens = 3
    MaxDay = 1
SYMMETRY ContentSymmetry
INVARIANTS
    EveryAnswerRecorded
CHECK_DEADLOCK FALSE
