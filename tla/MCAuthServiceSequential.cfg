SPECIFICATION AuthSpec
CONSTANTS
    User = {u1, u2}
    NoUser = NoUser
    Login = {a, m}
    Email = {m, w}
    Name = {a, w}
    NoKey = NoKey
    Role = {HR, Admin}
    AuthRequest = {q1, q2, q3}
    TTL = 1
    Life = 1
    Skew = 0
    Slack = 0
    Overlap = FALSE
    Faults = FALSE
SYMMETRY RequestSymmetry
INVARIANTS
    OwnKeysCurrent
CHECK_DEADLOCK FALSE
