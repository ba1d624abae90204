SPECIFICATION WorkflowSpec
CONSTANTS
    Interview = {i1, i2}
    Anna = Anna
    CandidateOf <- OneCandidate
    Competency = {k1}
    NoInterview = NoInterview
    NoScore = NoScore
    Client = {b1}
    RoleOf <- AllDecisionMakers
    Click = {q1}
    Star = {4}
    Overlap = FALSE
    Faults = FALSE
SYMMETRY Interchangeable
PROPERTIES
    OthersArchived
CHECK_DEADLOCK FALSE
