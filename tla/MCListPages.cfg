SPECIFICATION PagesSpec
CONSTANTS
    Id = {a, b}
    NoId = NoId
    NoRow = NoRow
    Text = {t1, t2}
    Kind <- AllKinds
    Clicks = 2
    Others = 1
INVARIANTS
    PagesTypeOK
    ListTellsTable
    BinTellsTable
PROPERTIES
    UntouchedStatusKept
CHECK_DEADLOCK FALSE
SYMMETRY Symmetric
