SPECIFICATION FairSpec
CONSTANTS
    Networks = {n1, n2}
    Editable = {n1}
    NoNetwork = none
    MaxEdits = 2
    MaxLoads = 3
CHECK_DEADLOCK FALSE
INVARIANTS TypeOK PendingIsShown SavesStayHome
PROPERTIES SavedEditsStay EditIsSaved
