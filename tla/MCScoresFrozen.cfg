SPECIFICATION InterviewsSpec
CONSTANTS
    Candidate = {c1}
    Vacancy = {v1}
    Competency = {k1}
    User = {u1}
    Interview = {i1}
    NoEntity = NoEntity
    NoInterview = NoInterview
    NoScore = NoScore
    CatalogRequest = {q1}
    InterviewRequest = {h1, h2}
    ScoreInput = {3}
    MarkInput <- Marks
    CommentInput = {}
    DecisionInput = {"Hired"}
    Overlap = TRUE
SYMMETRY Interchangeable
PROPERTIES
    ScoresFrozen
CHECK_DEADLOCK FALSE
