SPECIFICATION InterviewsSpec
CONSTANTS
    Candidate = {c1}
    Vacancy = {v1}
    Competency = {k1}
    User = {u1}
    Interview = {i1}
    NoEntity = NoEntity
    NoInterview = NoInterview
    NoScore = NoScore
    CatalogRequest = {q1, q2}
    InterviewRequest = {h1, h2, h3}
    ScoreInput = {3, 6}
    MarkInput <- Marks
    CommentInput = {}
    DecisionInput = {"Hired"}
    Overlap = FALSE
SYMMETRY Interchangeable
INVARIANTS
    TrailTellsRow
    LogTellsMarks
PROPERTIES
    ImplementsBook
    BookedWhileOpen
    LinksAsSubmitted
CHECK_DEADLOCK FALSE
