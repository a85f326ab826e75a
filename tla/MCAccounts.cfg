SPECIFICATION Spec
CONSTANTS
    p = p
    q = q
    s1 = s1
    s2 = s2
    NoName = NoName
    People <- MCPeople
    BotNames <- MCBots
    Offered = {"admin", "user"}
    Slots <- MCSlots
    MaxUsers = 3
SYMMETRY MCSymmetry
INVARIANTS AdminRemains OneFounder AccountsAreWhole
CHECK_DEADLOCK FALSE
