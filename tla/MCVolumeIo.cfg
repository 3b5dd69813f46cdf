CONSTANTS
    w = w
    r = r
    Reqs <- MCReqs
    IsRead <- MCIsRead
    MaxKids = 2
    KidsOf <- MCKidsOf
    IoErrors = TRUE
    AllocErrors = TRUE
    JournalErrors = TRUE
SPECIFICATION Spec
INVARIANTS
    VioTypeOK
    AckedOnce
    DataBeforeJournal
    NoEarlySuccess
PROPERTIES
    RequestCompletes
