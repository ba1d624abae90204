SPECIFICATION AuthSpec
CONSTANTS
    User = {u1}
    NoUser = NoUser
    Login = {a, b}
    Email = {m}
    Name = {n}
    NoKey = NoKey
    Role = {HR, Admin}
    AuthRequest = {q1, q2, q3}
    TTL = 2
    Life = 2
    Skew = 2
    Slack = 1
    Overlap = TRUE
    Faults = TRUE
SYMMETRY RequestSymmetry
INVARIANTS
    AuthTypeOK
    CacheStaleness
    TokenStaleness
    CachedAccountsUsable
CHECK_DEADLOCK FALSE
