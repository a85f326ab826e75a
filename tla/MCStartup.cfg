SPECIFICATION Spec
CONSTANTS
    a = a
    b = b
    u = u
    v = v
    admin = admin
    member = member
    Malformed = Malformed
    BackendNames <- MCNames
    Urls <- MCUrls
    Admins <- MCAdmins
    Members <- MCMembers
    Dialects = {"sqlite", "postgresql"}
    Releases = {6, 7}
    Crashes = 1
    MaxEntries = 2
SYMMETRY MCSymmetry
INVARIANTS SchemaFollowsVersion AppInfoIsTrue StartFailsForAReason OfferedIsUsable
