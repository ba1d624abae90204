SPECIFICATION ClientSpec
CONSTANTS
    Part = {"session", "roles", "views"}
    Logins = 2
    Calls = 3
    RoleName = {"HR", "Lawyer"}
    IdOf <- Slugs
    NoRole = ""
    Permission = {"users.create", "users.edit", "users.delete"}
    Group <- Groups
    DEFAULT_ROLES <- Defaults
    Edits = 2
    List = {"interviews", "candidates", "competencies", "vacancies", "logs", "users", "deleted"}
    Label = {"L1", "L2"}
    Day = {1, 2}
    Years = {0, 1, 4, 5}
    RoleTitle = {"Administrator", "HR", "lawyer"}
    RoleKey <- Keys
    Ticks = 5
INVARIANTS
    ClientTypeOK
    ShownIsSignedIn
    DataIsOwn
    AskedIsListed
    NoHiddenFilter
PROPERTIES
    SignInSettles
    NewRoleGrantsNothing
CHECK_DEADLOCK FALSE
