SPECIFICATION WorkflowSpec
CONSTANTS
    Interview = {i1}
    Anna = Anna
    CandidateOf <- OneCandidate
    Competency = {k1}
    NoInterview = NoInterview
    NoScore = NoScore
    Client = {b1}
    RoleOf <- AllHR
    Click = {q1, q2}
    Star = {4}
    Overlap = TRUE
    Faults = FALSE
SYMMETRY Interchangeable
PROPERTIES
    PlannedByReschedulingOnly
CHECK_DEADLOCK FALSE
