SPECIFICATION Spec
CONSTANTS
    Rows <- MCRows
    SortKey <- MCSortKey
    AtFirst <- MCAtFirst
    Viewer = "me"
    Other = "you"
    PageSize = 1
    MaxAsked = 4
    MaxOpen = 2
    MaxChanges = 1
INVARIANTS ShownIsAsked ListedIffReadable PagesLoseOnlyTies
CHECK_DEADLOCK FALSE
