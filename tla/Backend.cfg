CONSTANTS
    Calls = {c1, c2}
    Usernames = {u1, u2}
    MaxUsers = 2
    NoName = NoName
    GroupNames = {n1}
    NoGroup = NoGroup
    MaxGroups = 2
    Languages = {l1, l2}
    Slots = {1, 2}
    Concurrency = 1
    FileNames = {a1, a2}
    NoFileName = NoFileName
    Devices = {d1, d2}
    MaxCalls = 3
    MaxEnds = 1
SYMMETRY Symmetry
SPECIFICATION Spec
INVARIANTS OneUserPerName GroupOfRowExists AvdsMatchRows ArtifactMatchesFile
    DeliversItsOwn StagingIsEmptied StatusOfThisLife
CHECK_DEADLOCK FALSE
