SPECIFICATION CatalogSpec
CONSTANTS
    Candidate = {c1}
    Vacancy = {v1}
    Competency = {k1, k2}
    NoEntity = NoEntity
    CatalogRequest = {q1, q2, q3}
    ScoreInput = {0, 4, 6}
    Overlap = TRUE
SYMMETRY RequestSymmetry
INVARIANTS
    CatalogTypeOK
    StampsAgree
    ScaleInRange
    LinksResolve
    CreationLogged
PROPERTIES
    DeletionUndone
CHECK_DEADLOCK FALSE
