SPECIFICATION InterviewsSpec
CONSTANTS
    Candidate = {c1}
    Vacancy = {v1}
    Competency = {k1}
    User = {u1}
    Interview = {i1}
    NoEntity = NoEntity
    NoInterview = NoInterview
    NoScore = NoScore
    CatalogRequest = {q1}
    InterviewRequest = {h1, h2}
    ScoreInput = {3, 6}
    MarkInput <- Marks
    CommentInput = {"note"}
    DecisionInput = {"Hired", "Pending"}
    Overlap = TRUE
SYMMETRY Interchangeable
INVARIANTS
    InterviewsTypeOK
    ScoresInRange
    NothingHalfCreated
PROPERTIES
    LateScoresAreOld
    NoScoreLostToInsert
    ForeignColumnsAreOld
CHECK_DEADLOCK FALSE
