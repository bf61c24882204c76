SPECIFICATION TopicsSpec
CONSTANTS
    n1 = n1
    n2 = n2
    k1 = k1
    k2 = k2
    Global = Global
    Users = {u1}
    Names = {n1, n2}
    Keys = {k1, k2}
    Editors = {e1}
    Bulk = {b1, b2}
    Clients = {c1, c2}
    Files <- MCFiles
    MaxEdits = 3
    MaxCrashes = 1
INVARIANTS TopicsTypeOK NoDuplicates
PROPERTIES TopicsSyncAtLast MutationsKept OwnTopicsKept
