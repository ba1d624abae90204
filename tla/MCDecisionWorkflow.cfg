SPECIFICATION WorkflowSpec
CONSTANTS
    Interview = {i1, i2}
    Anna = Anna
    CandidateOf <- OneCandidate
    Competency = {k1}
    NoInterview = NoInterview
    NoScore = NoScore
    Client = {b1}
    RoleOf <- AllAdmins
    Click = {q1, q2, q3}
    Star = {4}
    Overlap = FALSE
    Faults = TRUE
SYMMETRY Interchangeable
INVARIANTS
    WorkflowTypeOK
    ScreenCurrent
PROPERTIES
    CompletedProperly
    OthersArchived
    TurnedDownArchived
    RescheduledAfresh
    KeepsBook
CHECK_DEADLOCK FALSE
